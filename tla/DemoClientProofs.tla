-------------------------- MODULE DemoClientProofs ---------------------------
(***************************************************************************)
(* Dialogs, calls and the audit trail agree, for any number of tabs, rows, *)
(* controls and keys.                                                      *)
(*                                                                         *)
(* None of the properties is inductive.  ClientInv says what tabs, dialogs *)
(* and calls know of each other, and RunInv what they know of the runs:    *)
(* above all that a dialog whose key names a run either still waits for    *)
(* the answer or has shown an error (RunsAreKnown), so that a confirmation *)
(* which finds an unsettled run can only be one that was warned.           *)
(***************************************************************************)
EXTENDS DemoClient, TLAPS

(* The controls of an open dialog are on the page. *)
DialogsAreMounted ==
  \A t \in Tabs, c \in Controls : dialog[t][c] # {} => Mounted(page[t], c)

(* Keys of dialogs and calls are drawn, and stay what they were. *)
KeysAreOpenings ==
  /\ \A t \in Tabs, c \in Controls : \A d \in dialog[t][c] :
       d.key = d.opening /\ d.key \in drawn
  /\ \A call \in calls : call.key = call.opening /\ call.key \in drawn

(* A run has the key its dialog was opened with. *)
RunsAreOpenings == \A k \in DOMAIN runs : request[k].opening = k

(* A control waits for one answer at most. *)
OneCallPerControl ==
  \A a, b \in calls :
    a.heard /\ b.heard /\ a.tab = b.tab /\ a.control = b.control => a = b

(* A key is that of one dialog. *)
OneDialogPerKey ==
  \A t, u \in Tabs, b, c \in Controls :
    \A d \in dialog[t][b], e \in dialog[u][c] :
      d.key = e.key => t = u /\ b = c

(* The calls with the key of an open dialog are its own. *)
CallsBelong ==
  \A t \in Tabs, c \in Controls : \A d \in dialog[t][c], call \in calls :
    call.key = d.key => call.heard /\ call.tab = t /\ call.control = c

(* What a server function works on, or answers with, is a run. *)
CallsHaveRuns ==
  /\ \A call \in calls :
       call.kind = "execute" /\ call.at \in {"working", "ok"} =>
         call.key \in DOMAIN runs
  /\ \A call \in calls : call.at = "working" => call.kind = "execute"
  /\ DOMAIN runs \subseteq drawn

(* A dialog whose key names a run waits for it, or was shown an error.     *)
RunsAreKnown ==
  \A t \in Tabs, c \in Controls : \A d \in dialog[t][c] :
    d.key \in DOMAIN runs =>
      \/ d.warned
      \/ \E call \in calls :
           /\ call.heard /\ call.tab = t /\ call.control = c
           /\ call.kind = "execute" /\ call.key = d.key /\ call.at # "sent"

ClientInv == /\ DialogsAreMounted /\ KeysAreOpenings /\ OneCallPerControl
             /\ OneDialogPerKey /\ CallsBelong /\ AnswersMeetTheirDialog

RunInv == /\ RunsAreOpenings /\ CallsHaveRuns /\ RunsAreKnown
          /\ FinishedHasTakenEffect

IInv == TypeOK /\ ClientInv /\ RunInv

-----------------------------------------------------------------------------
LEMMA TypeInit == Init => TypeOK
<1> SUFFICES ASSUME Init PROVE TypeOK
  OBVIOUS
<1> USE DEF Init
<1>1. Audit!TypeOK /\ request \in [DOMAIN runs -> Request]
  BY DEF Audit!Init, Audit!TypeOK
<1>2. product \in [Rows -> State] /\ page \in [Tabs -> Page]
  BY ClientAssumption DEF Page
<1>3. dialog \in [Tabs -> [Controls -> Optional(Dialog)]]
  BY DEF Optional
<1> QED
  BY <1>1, <1>2, <1>3 DEF TypeOK

LEMMA AuditStep ==
  ASSUME Audit!TypeOK, NEW k \in Keys,
         \/ Audit!Claim(k, {k}, TRUE)
         \/ Audit!Complete(k, FALSE)
         \/ Audit!Fail(k) \/ Audit!StartUndo(k) \/ Audit!Undo(k)
         \/ Audit!RefuseUndo(k)
  PROVE  Audit!TypeOK'
<1> USE DEF Audit!TypeOK, Audit!Run, Audit!Phase
<1>1. CASE Audit!Claim(k, {k}, TRUE)
  BY <1>1 DEF Audit!Claim
<1>2. CASE Audit!Complete(k, FALSE)
  BY <1>2 DEF Audit!Complete
<1>3. CASE Audit!Fail(k) \/ Audit!StartUndo(k) \/ Audit!Undo(k) \/ Audit!RefuseUndo(k)
  BY <1>3 DEF Audit!Fail, Audit!StartUndo, Audit!Undo, Audit!RefuseUndo
<1> QED
  BY <1>1, <1>2, <1>3

LEMMA FreshPage == ASSUME TypeOK PROVE Fresh \in Page
BY DEF TypeOK, Fresh, Page, Undoable, Audit!TypeOK

LEMMA MovedCall ==
  ASSUME NEW call \in Call, NEW where \in {"sent", "working", "ok", "error"}
  PROVE  /\ [call EXCEPT !.at = where] \in Call
         /\ [call EXCEPT !.at = where].at = where
         /\ \A f \in {"tab", "control", "kind", "key", "opening", "to"} :
              [call EXCEPT !.at = where][f] = call[f]
BY DEF Call

LEMMA MovedHeard ==
  ASSUME NEW call \in Call, NEW where \in {"sent", "working", "ok", "error"}
  PROVE  [call EXCEPT !.at = where].heard = call.heard
BY DEF Call

LEMMA Deafened ==
  ASSUME NEW call \in Call, NEW heard \in BOOLEAN
  PROVE  /\ [call EXCEPT !.heard = heard] \in Call
         /\ [call EXCEPT !.heard = heard].heard = heard
         /\ [call EXCEPT !.heard = heard].tab = call.tab
         /\ [call EXCEPT !.heard = heard].control = call.control
         /\ [call EXCEPT !.heard = heard].kind = call.kind
         /\ [call EXCEPT !.heard = heard].key = call.key
         /\ [call EXCEPT !.heard = heard].opening = call.opening
         /\ [call EXCEPT !.heard = heard].to = call.to
         /\ [call EXCEPT !.heard = heard].at = call.at
BY DEF Call

LEMMA StillHeardCalls ==
  ASSUME NEW set, set \subseteq Call, NEW t \in Tabs
  PROVE  StillHeard(t, set) \subseteq Call
<1> SUFFICES ASSUME NEW old \in set
             PROVE  [old EXCEPT !.heard = @ /\ (old.tab = t => Mounted(Fresh, old.control))]
                      \in Call
  BY DEF StillHeard
<1>1. (old.heard /\ (old.tab = t => Mounted(Fresh, old.control))) \in BOOLEAN
  OBVIOUS
<1> QED
  BY <1>1, Deafened

LEMMA NewCall ==
  ASSUME NEW t \in Tabs, NEW c \in Controls, NEW kind \in {"preview", "execute"},
         NEW key \in Keys, NEW opening \in Keys, NEW to \in State
  PROVE  [tab |-> t, control |-> c, kind |-> kind, key |-> key,
          opening |-> opening, to |-> to, at |-> "sent", heard |-> TRUE] \in Call
BY DEF Call

LEMMA CallTypes ==
  ASSUME NEW call \in Call, NEW where \in {"sent", "working", "ok", "error"},
         calls \subseteq Call
  PROVE  At(call, where) \subseteq Call
<1>1. [call EXCEPT !.at = where] \in Call
  BY DEF Call
<1> QED
  BY <1>1 DEF At

LEMMA UndoTypes ==
  ASSUME NEW undo \in UndoCall, undos \subseteq UndoCall,
         NEW where \in {"sent", "working", "ok", "conflict", "error"}
  PROVE  UndoAt(undo, where) \subseteq UndoCall
BY DEF UndoAt, UndoCall

(* What a control asks for on a page that shows its row. *)
LEMMA AsksState ==
  ASSUME TypeOK, NEW t \in Tabs, NEW c \in Controls, Mounted(page[t], c)
  PROVE  Asks[c][Shown(t, c)] \in State
<1>1. page[t] \in Page /\ RowOf[c] \in Rows
  BY ClientAssumption DEF TypeOK
<1>2. page[t].rows[RowOf[c]] \in State
  BY <1>1 DEF Page
<1>3. Shown(t, c) \in Values
  BY <1>2 DEF Mounted, Shown, State
<1> QED
  BY <1>3, ClientAssumption

LEMMA RefreshTypes ==
  ASSUME TypeOK, NEW t \in Tabs, NEW reset, Refresh(t, reset)
  PROVE  /\ page' \in [Tabs -> Page]
         /\ dialog' \in [Tabs -> [Controls -> Optional(Dialog)]]
<1>1. page' \in [Tabs -> Page]
  BY FreshPage DEF Refresh, TypeOK
<1>2. \A c \in Controls :
        {d \in dialog[t][c] : Mounted(Fresh, c) /\ c \notin reset}
          \in Optional(Dialog)
  BY DEF TypeOK, Optional
<1> QED
  BY <1>1, <1>2 DEF Refresh, TypeOK

LEMMA PageSteps ==
  ASSUME TypeOK, DialogsAreMounted, NEW t \in Tabs, NEW c \in Controls
  PROVE  /\ \A key \in Keys : OpenPreview(t, c, key) => TypeOK'
         /\ CloseDialog(t, c) => TypeOK'
         /\ Confirm(t, c) => TypeOK'
<1>1. ASSUME NEW key \in Keys, OpenPreview(t, c, key) PROVE TypeOK'
  <2>1. Asks[c][Shown(t, c)] \in State
    BY <1>1, AsksState DEF OpenPreview
  <2>2. calls' \subseteq Call
    BY <1>1, <2>1, NewCall DEF OpenPreview, TypeOK
  <2>3. [key |-> key, preview |-> {}, error |-> FALSE, opening |-> key,
         warned |-> FALSE] \in Dialog
    BY DEF Dialog, Optional
  <2>4. dialog' \in [Tabs -> [Controls -> Optional(Dialog)]]
    BY <1>1, <2>3 DEF OpenPreview, TypeOK, Optional
  <2> QED
    BY <1>1, <2>2, <2>4 DEF OpenPreview, TypeOK, Audit!TypeOK
<1>2. ASSUME CloseDialog(t, c) PROVE TypeOK'
  BY <1>2 DEF CloseDialog, TypeOK, Audit!TypeOK, Optional
<1>3. ASSUME Confirm(t, c) PROVE TypeOK'
  <2>1. PICK d \in dialog[t][c] :
          /\ drawn' = drawn \cup {d.key}
          /\ dialog' = [dialog EXCEPT ![t][c] =
                {[d EXCEPT !.key = d.key, !.error = FALSE]}]
          /\ calls' = calls \cup
                {[tab |-> t, control |-> c, kind |-> "execute", key |-> d.key,
                  opening |-> d.opening, to |-> Asks[c][Shown(t, c)],
                  at |-> "sent", heard |-> TRUE]}
          /\ UNCHANGED <<runs, request, product, page, undos>>
    BY <1>3 DEF Confirm, Kept
  <2>2. d \in Dialog
    BY DEF TypeOK, Optional
  <2>3. [d EXCEPT !.key = d.key, !.error = FALSE] \in Dialog
    BY <2>2 DEF Dialog
  <2>4. Asks[c][Shown(t, c)] \in State
    <3>1. Mounted(page[t], c)
      BY DEF DialogsAreMounted
    <3> QED
      BY <3>1, AsksState
  <2>5. calls' \subseteq Call
    <3>1. d.key \in Keys /\ d.opening \in Keys
      BY <2>2 DEF Dialog
    <3>2. [tab |-> t, control |-> c, kind |-> "execute", key |-> d.key,
           opening |-> d.opening, to |-> Asks[c][Shown(t, c)],
           at |-> "sent", heard |-> TRUE] \in Call
      BY <2>4, <3>1, NewCall
    <3> QED
      BY <2>1, <2>2, <3>2 DEF TypeOK
  <2>6. dialog' \in [Tabs -> [Controls -> Optional(Dialog)]]
    <3>1. {[d EXCEPT !.key = d.key, !.error = FALSE]} \in Optional(Dialog)
      BY <2>3 DEF Optional
    <3> QED
      BY <2>1, <2>2, <3>1 DEF TypeOK
  <2>7. drawn' \subseteq Keys
    BY <2>1, <2>2 DEF TypeOK, Dialog
  <2> QED
    BY <2>1, <2>5, <2>6, <2>7 DEF TypeOK, Audit!TypeOK
<1> QED
  BY <1>1, <1>2, <1>3

LEMMA TabSteps ==
  ASSUME TypeOK, NEW t \in Tabs
  PROVE  /\ \A key \in Keys : ClickUndo(t, key) => TypeOK'
         /\ Reload(t) => TypeOK'
<1>1. ASSUME NEW key \in Keys, ClickUndo(t, key) PROVE TypeOK'
  <2>1. [tab |-> t, key |-> key, at |-> "sent", heard |-> TRUE] \in UndoCall
    BY DEF UndoCall
  <2> QED
    BY <1>1, <2>1 DEF ClickUndo, TypeOK, Audit!TypeOK
<1>2. ASSUME Reload(t) PROVE TypeOK'
  <2>1. calls' \subseteq Call
    <3> SUFFICES ASSUME NEW call \in calls
                 PROVE  [call EXCEPT !.heard = @ /\ call.tab # t] \in Call
      BY <1>2 DEF Reload
    <3>1. (call.heard /\ call.tab # t) \in BOOLEAN
      OBVIOUS
    <3> QED
      BY <3>1, Deafened DEF TypeOK
  <2>2. undos' \subseteq UndoCall
    <3> SUFFICES ASSUME NEW undo \in undos
                 PROVE  [undo EXCEPT !.heard = @ /\ undo.tab # t] \in UndoCall
      BY <1>2 DEF Reload
    <3>1. (undo.heard /\ undo.tab # t) \in BOOLEAN
      OBVIOUS
    <3> QED
      BY <3>1 DEF TypeOK, UndoCall
  <2> QED
    BY <1>2, <2>1, <2>2, FreshPage DEF Reload, TypeOK, Audit!TypeOK, Optional
<1> QED
  BY <1>1, <1>2

LEMMA ServerSteps ==
  ASSUME TypeOK, NEW call \in calls, Serve(call)
  PROVE  TypeOK'
<1>1. call \in Call /\ call.key \in Keys /\ call.to \in State
        /\ call.opening \in Keys /\ RowOf[call.control] \in Rows
  BY ClientAssumption DEF TypeOK, Call
<1>2. \A where \in {"sent", "working", "ok", "error"} :
        At(call, where) \subseteq Call
  BY <1>1, CallTypes DEF TypeOK
<1>3. CASE Refuse(call) \/ ServePreview(call) \/ Strand(call)
           \/ ReturnExistingRun(call)
  BY <1>2, <1>3 DEF Refuse, ServePreview, Strand, ReturnExistingRun, TypeOK,
                    Audit!TypeOK
<1>4. CASE Claim(call)
  <2>1. Audit!TypeOK'
    BY <1>1, <1>4, AuditStep DEF Claim, TypeOK
  <2>2. [row |-> RowOf[call.control], to |-> call.to, before |-> {},
         opening |-> call.opening] \in Request
    BY <1>1 DEF Request, Optional
  <2>3. DOMAIN runs' = DOMAIN runs \cup {call.key}
    BY <1>4 DEF Claim, Audit!Claim
  <2>4. request' \in [DOMAIN runs' -> Request]
    BY <1>4, <2>2, <2>3 DEF Claim, TypeOK
  <2> QED
    BY <1>2, <1>4, <2>1, <2>4 DEF Claim, TypeOK
<1>5. CASE Complete(call)
  <2>1. Audit!TypeOK'
    BY <1>1, <1>5, AuditStep DEF Complete, TypeOK
  <2>2. DOMAIN runs' = DOMAIN runs /\ call.key \in DOMAIN runs
    BY <1>5 DEF Complete, Audit!Complete
  <2>3. product[RowOf[call.control]] \in Values
    BY <1>1, <1>5 DEF Complete, TypeOK, State
  <2>4. request' \in [DOMAIN runs' -> Request]
    <3>1. request[call.key] \in Request
      BY <2>2 DEF TypeOK
    <3>2. [request[call.key] EXCEPT !.before = {product[RowOf[call.control]]}]
            \in Request
      BY <2>3, <3>1 DEF Request, Optional
    <3> QED
      BY <1>5, <2>2, <3>2 DEF Complete, TypeOK
  <2>5. product' \in [Rows -> State]
    BY <1>1, <1>5 DEF Complete, TypeOK
  <2>6. calls' \subseteq Call
    BY <1>2, <1>5 DEF Complete
  <2> QED
    BY <1>5, <2>1, <2>4, <2>5, <2>6 DEF Complete, TypeOK
<1>6. CASE Fail(call)
  <2>1. Audit!TypeOK'
    BY <1>1, <1>6, AuditStep DEF Fail, TypeOK
  <2>2. DOMAIN runs' = DOMAIN runs
    BY <1>6 DEF Fail, Audit!Fail
  <2> QED
    BY <1>2, <1>6, <2>1, <2>2 DEF Fail, TypeOK
<1> QED
  BY <1>3, <1>4, <1>5, <1>6 DEF Serve

LEMMA UndoSteps ==
  ASSUME TypeOK, NEW undo \in undos, ServeUndo(undo)
  PROVE  TypeOK'
<1>1. undo \in UndoCall /\ undo.key \in Keys
  BY DEF TypeOK, UndoCall
<1>2. \A where \in {"sent", "working", "ok", "conflict", "error"} :
        UndoAt(undo, where) \subseteq UndoCall
  BY <1>1, UndoTypes DEF TypeOK
<1>3. CASE RefuseUndo(undo) \/ StrandUndo(undo)
  BY <1>2, <1>3 DEF RefuseUndo, StrandUndo, TypeOK, Audit!TypeOK
<1>4. CASE ClaimUndo(undo) \/ FailUndo(undo)
  <2>1. Audit!TypeOK'
    BY <1>1, <1>4, AuditStep DEF ClaimUndo, FailUndo, TypeOK
  <2>2. DOMAIN runs' = DOMAIN runs
    BY <1>4 DEF ClaimUndo, FailUndo, Audit!StartUndo, Audit!RefuseUndo
  <2>3. undos' \subseteq UndoCall
    BY <1>2, <1>4 DEF ClaimUndo, FailUndo
  <2> QED
    BY <1>4, <2>1, <2>2, <2>3 DEF ClaimUndo, FailUndo, TypeOK
<1>5. CASE Undo(undo)
  <2>1. Audit!TypeOK'
    BY <1>1, <1>5, AuditStep DEF Undo, TypeOK
  <2>2. DOMAIN runs' = DOMAIN runs /\ undo.key \in DOMAIN runs
    BY <1>5 DEF Undo, Audit!Undo
  <2>3. product' \in [Rows -> State]
    <3>1. request[undo.key].before \in Optional(Values)
      BY <2>2 DEF TypeOK, Request
    <3>2. \A value \in request[undo.key].before : value \in State
      BY <3>1 DEF Optional, State
    <3> QED
      BY <1>5, <3>2 DEF Undo, TypeOK
  <2>4. undos' \subseteq UndoCall
    BY <1>2, <1>5 DEF Undo
  <2> QED
    BY <1>5, <2>1, <2>2, <2>3, <2>4 DEF Undo, TypeOK
<1> QED
  BY <1>3, <1>4, <1>5 DEF ServeUndo

LEMMA AnswerTypes ==
  ASSUME TypeOK, NEW call \in calls, Answer(call)
  PROVE  TypeOK'
<1>1. call \in Call /\ call.tab \in Tabs /\ call.control \in Controls
        /\ call.to \in State
  BY DEF TypeOK, Call
<1>2. CASE ShowPreview(call)
  <2>1. {[d EXCEPT !.preview = {call.to}] : d \in dialog[call.tab][call.control]}
          \in Optional(Dialog)
    <3>1. ASSUME NEW d \in Dialog
          PROVE  [d EXCEPT !.preview = {call.to}] \in Dialog
      BY <1>1 DEF Dialog, Optional
    <3>2. \/ dialog[call.tab][call.control] = {}
          \/ \E d \in Dialog : dialog[call.tab][call.control] = {d}
      BY <1>1 DEF TypeOK, Optional
    <3> QED
      BY <3>1, <3>2 DEF Optional
  <2> QED
    BY <1>1, <1>2, <2>1 DEF ShowPreview, TypeOK, Audit!TypeOK
<1>3. CASE ShowError(call)
  <2> DEFINE shown(d) == [d EXCEPT !.error = TRUE,
                                  !.warned = @ \/ call.kind = "execute"]
  <2>1. {shown(d) : d \in dialog[call.tab][call.control]} \in Optional(Dialog)
    <3>1. ASSUME NEW d \in Dialog PROVE shown(d) \in Dialog
      <4>1. (d.warned \/ call.kind = "execute") \in BOOLEAN
        OBVIOUS
      <4> QED
        BY <4>1 DEF Dialog
    <3>2. \/ dialog[call.tab][call.control] = {}
          \/ \E d \in Dialog : dialog[call.tab][call.control] = {d}
      BY <1>1 DEF TypeOK, Optional
    <3> HIDE DEF shown
    <3> QED
      BY <3>1, <3>2 DEF Optional
  <2> QED
    BY <1>1, <1>3, <2>1 DEF ShowError, TypeOK, Audit!TypeOK
<1>4. CASE FinishDialog(call)
  <2>1. calls' \subseteq Call
    BY <1>1, <1>4, StillHeardCalls DEF FinishDialog, TypeOK
  <2> QED
    BY <1>1, <1>4, <2>1, RefreshTypes DEF FinishDialog, TypeOK, Audit!TypeOK
<1> QED
  BY <1>2, <1>3, <1>4 DEF Answer

LEMMA AnswerUndoTypes ==
  ASSUME TypeOK, NEW undo \in undos, AnswerUndo(undo)
  PROVE  TypeOK'
<1>1. undo.tab \in Tabs
  BY DEF TypeOK, UndoCall
<1>2. CASE FinishUndo(undo)
  <2>1. calls' \subseteq Call
    BY <1>1, <1>2, StillHeardCalls DEF FinishUndo, TypeOK
  <2> QED
    BY <1>1, <1>2, <2>1, RefreshTypes DEF FinishUndo, TypeOK, Audit!TypeOK
<1>3. CASE ShowUndoError(undo)
  BY <1>3 DEF ShowUndoError, TypeOK, Audit!TypeOK
<1> QED
  BY <1>2, <1>3 DEF AnswerUndo

-----------------------------------------------------------------------------
(* ClientInv: what tabs, dialogs and calls know of each other.             *)

LEMMA DialogType ==
  ASSUME TypeOK, NEW t \in Tabs, NEW c \in Controls
  PROVE  /\ \A d \in dialog[t][c] : d \in Dialog
         /\ \A d, e \in dialog[t][c] : d = e
BY DEF TypeOK, Optional

LEMMA CallMoves ==
  ASSUME TypeOK, ClientInv, NEW call \in calls,
         NEW where \in {"sent", "working", "ok", "error"},
         calls' = At(call, where), UNCHANGED <<page, dialog, drawn>>
  PROVE  ClientInv'
<1> DEFINE moved == [call EXCEPT !.at = where]
<1> USE DEF ClientInv
<1>1. call \in Call
  BY DEF TypeOK
<1>2. /\ moved.tab = call.tab /\ moved.control = call.control
      /\ moved.kind = call.kind /\ moved.key = call.key
      /\ moved.opening = call.opening /\ moved.heard = call.heard
  BY <1>1, MovedCall, MovedHeard
<1>3. calls' = (calls \ {call}) \cup {moved}
  BY DEF At
<1> HIDE DEF moved
<1>4. DialogsAreMounted'
  BY DEF DialogsAreMounted
<1>5. KeysAreOpenings'
  BY <1>2, <1>3 DEF KeysAreOpenings
<1>6. OneCallPerControl'
  BY <1>2, <1>3 DEF OneCallPerControl
<1>7. OneDialogPerKey'
  BY DEF OneDialogPerKey
<1>8. CallsBelong'
  BY <1>2, <1>3 DEF CallsBelong
<1>9. AnswersMeetTheirDialog'
  BY <1>2, <1>3 DEF AnswersMeetTheirDialog
<1> QED
  BY <1>4, <1>5, <1>6, <1>7, <1>8, <1>9

LEMMA Opens ==
  ASSUME TypeOK, ClientInv, NEW t \in Tabs, NEW c \in Controls, NEW key \in Keys,
         OpenPreview(t, c, key)
  PROVE  ClientInv'
<1> DEFINE opened == [key |-> key, preview |-> {}, error |-> FALSE,
                      opening |-> key, warned |-> FALSE]
           asked == [tab |-> t, control |-> c, kind |-> "preview", key |-> key,
                     opening |-> key, to |-> Asks[c][Shown(t, c)],
                     at |-> "sent", heard |-> TRUE]
<1> USE DEF ClientInv
<1>1. /\ dialog' = [dialog EXCEPT ![t][c] = {opened}]
      /\ calls' = calls \cup {asked}
      /\ drawn' = drawn \cup {key} /\ key \notin drawn
      /\ page' = page
      /\ Mounted(page[t], c)
      /\ \A call \in calls : ~(call.tab = t /\ call.control = c /\ call.heard)
  BY DEF OpenPreview, Busy
<1>2. \A u \in Tabs, b \in Controls :
        dialog'[u][b] = IF u = t /\ b = c THEN {opened} ELSE dialog[u][b]
  BY <1>1 DEF TypeOK
<1>3. opened.key = key /\ opened.opening = key
  OBVIOUS
<1>4. /\ asked.tab = t /\ asked.control = c /\ asked.key = key
      /\ asked.opening = key /\ asked.heard /\ asked.kind = "preview"
  OBVIOUS
<1> HIDE DEF opened, asked
<1>5. DialogsAreMounted'
  BY <1>1, <1>2 DEF DialogsAreMounted
<1>6. KeysAreOpenings'
  BY <1>1, <1>2, <1>3, <1>4 DEF KeysAreOpenings
<1>7. OneCallPerControl'
  BY <1>1, <1>4 DEF OneCallPerControl
<1>8. OneDialogPerKey'
  BY <1>1, <1>2, <1>3 DEF OneDialogPerKey, KeysAreOpenings
<1>9. CallsBelong'
  BY <1>1, <1>2, <1>3, <1>4 DEF CallsBelong, KeysAreOpenings
<1>10. AnswersMeetTheirDialog'
  BY <1>1, <1>2, <1>3, <1>4 DEF AnswersMeetTheirDialog, TypeOK, Call
<1> QED
  BY <1>5, <1>6, <1>7, <1>8, <1>9, <1>10

LEMMA Closes ==
  ASSUME TypeOK, ClientInv, NEW t \in Tabs, NEW c \in Controls, CloseDialog(t, c)
  PROVE  ClientInv'
<1> USE DEF ClientInv
<1>1. /\ UNCHANGED <<page, calls, drawn>>
      /\ \A call \in calls : ~(call.tab = t /\ call.control = c /\ call.heard)
  BY DEF CloseDialog, Busy
<1>2. \A u \in Tabs, b \in Controls :
        dialog'[u][b] = IF u = t /\ b = c THEN {} ELSE dialog[u][b]
  BY DEF CloseDialog, TypeOK
<1>3. DialogsAreMounted'
  BY <1>1, <1>2 DEF DialogsAreMounted
<1>4. KeysAreOpenings'
  BY <1>1, <1>2 DEF KeysAreOpenings
<1>5. OneCallPerControl'
  BY <1>1 DEF OneCallPerControl
<1>6. OneDialogPerKey'
  BY <1>1, <1>2 DEF OneDialogPerKey
<1>7. CallsBelong'
  BY <1>1, <1>2 DEF CallsBelong
<1>8. AnswersMeetTheirDialog'
  BY <1>1, <1>2 DEF AnswersMeetTheirDialog, TypeOK, Call
<1> QED
  BY <1>3, <1>4, <1>5, <1>6, <1>7, <1>8

LEMMA Confirms ==
  ASSUME TypeOK, ClientInv, NEW t \in Tabs, NEW c \in Controls, Confirm(t, c)
  PROVE  ClientInv'
<1> USE DEF ClientInv
<1>1. PICK d \in dialog[t][c] :
        /\ d.preview # {} /\ ~Busy(t, c)
        /\ drawn' = drawn \cup {d.key}
        /\ dialog' = [dialog EXCEPT ![t][c] =
              {[d EXCEPT !.key = d.key, !.error = FALSE]}]
        /\ calls' = calls \cup
              {[tab |-> t, control |-> c, kind |-> "execute", key |-> d.key,
                opening |-> d.opening, to |-> Asks[c][Shown(t, c)],
                at |-> "sent", heard |-> TRUE]}
        /\ UNCHANGED page
  BY DEF Confirm, Kept, MayConfirm
<1> DEFINE waiting == [d EXCEPT !.key = d.key, !.error = FALSE]
           asked == [tab |-> t, control |-> c, kind |-> "execute", key |-> d.key,
                     opening |-> d.opening, to |-> Asks[c][Shown(t, c)],
                     at |-> "sent", heard |-> TRUE]
<1>2. calls' = calls \cup {asked}
  BY <1>1
<1>3. \A call \in calls : ~(call.tab = t /\ call.control = c /\ call.heard)
  BY <1>1 DEF Busy
<1>4. \A u \in Tabs, b \in Controls :
        dialog'[u][b] = IF u = t /\ b = c THEN {waiting} ELSE dialog[u][b]
  BY <1>1 DEF TypeOK
<1>5. waiting.key = d.key /\ waiting.opening = d.opening /\ waiting.preview = d.preview
  BY DialogType DEF Dialog
<1>6. /\ asked.tab = t /\ asked.control = c /\ asked.key = d.key
      /\ asked.opening = d.opening /\ asked.heard
  OBVIOUS
<1>7. d.key = d.opening /\ d.key \in drawn /\ drawn' = drawn
  BY <1>1 DEF KeysAreOpenings
<1> HIDE DEF waiting, asked
<1>8. DialogsAreMounted'
  BY <1>1, <1>4 DEF DialogsAreMounted
<1>9. KeysAreOpenings'
  BY <1>2, <1>4, <1>5, <1>6, <1>7 DEF KeysAreOpenings
<1>10. OneCallPerControl'
  BY <1>2, <1>3, <1>6 DEF OneCallPerControl
<1>11. OneDialogPerKey'
  BY <1>4, <1>5 DEF OneDialogPerKey
<1>12. CallsBelong'
  BY <1>2, <1>4, <1>5, <1>6 DEF CallsBelong, OneDialogPerKey
<1>13. AnswersMeetTheirDialog'
  <2> SUFFICES ASSUME NEW call \in calls', call.heard
               PROVE  \E e \in dialog'[call.tab][call.control] :
                        e.key = call.key
                          /\ (call.kind = "execute" => e.preview # {})
    BY DEF AnswersMeetTheirDialog
  <2>1. CASE call = asked
    <3>1. dialog'[call.tab][call.control] = {waiting}
      BY <1>4, <1>6, <2>1
    <3> QED
      BY <1>1, <1>5, <1>6, <2>1, <3>1
  <2>2. CASE call \in calls
    <3>1. call.tab \in Tabs /\ call.control \in Controls
      BY <2>2 DEF TypeOK, Call
    <3>2. dialog'[call.tab][call.control] = dialog[call.tab][call.control]
      BY <1>3, <1>4, <2>2, <3>1
    <3> QED
      BY <2>2, <3>2 DEF AnswersMeetTheirDialog
  <2> QED
    BY <1>2, <2>1, <2>2
<1> QED
  BY <1>8, <1>9, <1>10, <1>11, <1>12, <1>13

LEMMA Reloads ==
  ASSUME TypeOK, ClientInv, NEW t \in Tabs, Reload(t)
  PROVE  ClientInv'
<1> DEFINE deaf(call) == [call EXCEPT !.heard = @ /\ call.tab # t]
<1> USE DEF ClientInv
<1>1. /\ \A u \in Tabs, b \in Controls : dialog'[u][b] \subseteq dialog[u][b]
      /\ \A b \in Controls : dialog'[t][b] = {}
      /\ \A u \in Tabs, b \in Controls : u # t => dialog'[u][b] = dialog[u][b]
  BY DEF Reload, TypeOK
<1>2. drawn' = drawn /\ \A u \in Tabs : u # t => page'[u] = page[u]
  BY DEF Reload, TypeOK
<1>3. ASSUME NEW new \in calls'
      PROVE  \E old \in calls :
               /\ new = deaf(old)
               /\ new.tab = old.tab /\ new.control = old.control
               /\ new.kind = old.kind /\ new.key = old.key
               /\ new.opening = old.opening
               /\ new.heard => old.heard /\ old.tab # t
               /\ old.heard /\ old.tab # t => new.heard
  <2>1. PICK old \in calls : new = deaf(old)
    BY <1>3 DEF Reload
  <2>2. (old.heard /\ old.tab # t) \in BOOLEAN
    OBVIOUS
  <2>3. old \in Call
    BY DEF TypeOK
  <2>4. /\ deaf(old).tab = old.tab /\ deaf(old).control = old.control
        /\ deaf(old).kind = old.kind /\ deaf(old).key = old.key
        /\ deaf(old).opening = old.opening
        /\ deaf(old).heard = (old.heard /\ old.tab # t)
    BY <2>2, <2>3, Deafened
  <2> HIDE DEF deaf
  <2> QED
    BY <2>1, <2>4
<1> HIDE DEF deaf
<1>4. DialogsAreMounted'
  BY <1>1, <1>2 DEF DialogsAreMounted
<1>5. KeysAreOpenings'
  BY <1>1, <1>2, <1>3 DEF KeysAreOpenings
<1>6. OneCallPerControl'
  BY <1>3 DEF OneCallPerControl
<1>7. OneDialogPerKey'
  BY <1>1 DEF OneDialogPerKey
<1>8. CallsBelong'
  BY <1>1, <1>3 DEF CallsBelong
<1>9. AnswersMeetTheirDialog'
  <2> SUFFICES ASSUME NEW new \in calls', new.heard
               PROVE  \E e \in dialog'[new.tab][new.control] :
                        e.key = new.key
                          /\ (new.kind = "execute" => e.preview # {})
    BY DEF AnswersMeetTheirDialog
  <2>1. PICK old \in calls :
          /\ new.tab = old.tab /\ new.control = old.control
          /\ new.kind = old.kind /\ new.key = old.key
          /\ old.heard /\ old.tab # t
    BY <1>3
  <2>2. old.tab \in Tabs /\ old.control \in Controls
    BY DEF TypeOK, Call
  <2> QED
    BY <1>1, <2>1, <2>2 DEF AnswersMeetTheirDialog
<1> QED
  BY <1>4, <1>5, <1>6, <1>7, <1>8, <1>9

(* Which dialogs a new page leaves as they are. *)
LEMMA RefreshedDialogs ==
  ASSUME TypeOK, NEW t \in Tabs, NEW reset, Refresh(t, reset)
  PROVE  /\ \A u \in Tabs, b \in Controls : dialog'[u][b] \subseteq dialog[u][b]
         /\ \A b \in Controls : \A d \in dialog'[t][b] :
              Mounted(Fresh, b) /\ b \notin reset
         /\ \A u \in Tabs, b \in Controls :
              u # t \/ (Mounted(Fresh, b) /\ b \notin reset) =>
                dialog'[u][b] = dialog[u][b]
<1>1. \A b \in Controls :
        dialog'[t][b] = {d \in dialog[t][b] : Mounted(Fresh, b) /\ b \notin reset}
  BY DEF Refresh, TypeOK
<1>2. \A u \in Tabs, b \in Controls : u # t => dialog'[u][b] = dialog[u][b]
  BY DEF Refresh, TypeOK
<1> QED
  BY <1>1, <1>2

(* The dialogs that a new page leaves open, and the calls they wait for.   *)
LEMMA Refreshes ==
  ASSUME TypeOK, ClientInv, NEW t \in Tabs, NEW reset, Refresh(t, reset),
         NEW answered, UNCHANGED drawn,
         calls' = StillHeard(t, calls \ answered),
         \A call \in calls :
           call.heard /\ call.tab = t /\ call.control \in reset => call \in answered
  PROVE  ClientInv'
<1> DEFINE heard(call) ==
             call.heard /\ (call.tab = t => Mounted(Fresh, call.control))
           still(call) == [call EXCEPT !.heard = heard(call)]
<1> USE DEF ClientInv
<1>1. /\ \A u \in Tabs, b \in Controls : dialog'[u][b] \subseteq dialog[u][b]
      /\ \A b \in Controls : \A d \in dialog'[t][b] : Mounted(Fresh, b)
      /\ \A u \in Tabs, b \in Controls :
           u # t \/ (Mounted(Fresh, b) /\ b \notin reset) =>
             dialog'[u][b] = dialog[u][b]
  BY RefreshedDialogs
<1>2. page'[t] = Fresh /\ \A u \in Tabs : u # t => page'[u] = page[u]
  BY DEF Refresh, TypeOK
<1>3. ASSUME NEW new \in calls'
      PROVE  \E old \in calls \ answered :
               /\ new = still(old)
               /\ new.tab = old.tab /\ new.control = old.control
               /\ new.kind = old.kind /\ new.key = old.key
               /\ new.opening = old.opening /\ new.at = old.at
               /\ new.heard => old.heard
               /\ new.heard /\ old.tab = t => Mounted(Fresh, old.control)
               /\ old.heard /\ (old.tab = t => Mounted(Fresh, old.control))
                    => new.heard
  <2>1. PICK old \in calls \ answered : new = still(old)
    BY <1>3 DEF StillHeard
  <2>2. heard(old) \in BOOLEAN
    OBVIOUS
  <2>3. old \in Call
    BY DEF TypeOK
  <2>4. /\ still(old).tab = old.tab /\ still(old).control = old.control
        /\ still(old).kind = old.kind /\ still(old).key = old.key
        /\ still(old).opening = old.opening /\ still(old).at = old.at
        /\ still(old).heard = heard(old)
    <3> HIDE DEF heard
    <3> QED
      BY <2>2, <2>3, Deafened
  <2> HIDE DEF still
  <2> QED
    BY <2>1, <2>4
<1> HIDE DEF still, heard
<1>4. DialogsAreMounted'
  <2> SUFFICES ASSUME NEW u \in Tabs, NEW b \in Controls, NEW d \in dialog'[u][b]
               PROVE  Mounted(page'[u], b)
    BY DEF DialogsAreMounted
  <2>1. CASE u = t
    BY <1>1, <1>2, <2>1
  <2>2. CASE u # t
    BY <1>1, <1>2, <2>2 DEF DialogsAreMounted
  <2> QED
    BY <2>1, <2>2
<1>5. KeysAreOpenings'
  <2>1. \A u \in Tabs, b \in Controls : \A d \in dialog'[u][b] :
          d.key = d.opening /\ d.key \in drawn
    BY <1>1 DEF KeysAreOpenings
  <2>2. ASSUME NEW new \in calls'
        PROVE  new.key = new.opening /\ new.key \in drawn
    <3>1. PICK old \in calls : new.key = old.key /\ new.opening = old.opening
      BY <1>3
    <3> QED
      BY <3>1 DEF KeysAreOpenings
  <2> QED
    BY <2>1, <2>2 DEF KeysAreOpenings
<1>6. OneCallPerControl'
  BY <1>3 DEF OneCallPerControl
<1>7. OneDialogPerKey'
  BY <1>1 DEF OneDialogPerKey
<1>8. CallsBelong'
  <2> SUFFICES ASSUME NEW u \in Tabs, NEW b \in Controls,
                      NEW d \in dialog'[u][b], NEW new \in calls', new.key = d.key
               PROVE  new.heard /\ new.tab = u /\ new.control = b
    BY DEF CallsBelong
  <2>1. PICK old \in calls \ answered :
          /\ new.tab = old.tab /\ new.control = old.control /\ new.key = old.key
          /\ old.heard /\ (old.tab = t => Mounted(Fresh, old.control))
               => new.heard
    BY <1>3
  <2>2. d \in dialog[u][b]
    BY <1>1
  <2>4. u = t => Mounted(Fresh, b)
    BY <1>1
  <2>3. old \in calls /\ old.key = d.key
    BY <2>1
  <2>5. old.heard /\ old.tab = u /\ old.control = b
    BY <2>3, <2>2 DEF CallsBelong
  <2> QED
    BY <2>1, <2>4, <2>5
<1>9. AnswersMeetTheirDialog'
  <2> SUFFICES ASSUME NEW new \in calls', new.heard
               PROVE  \E e \in dialog'[new.tab][new.control] :
                        e.key = new.key
                          /\ (new.kind = "execute" => e.preview # {})
    BY DEF AnswersMeetTheirDialog
  <2>1. PICK old \in calls \ answered :
          /\ new.tab = old.tab /\ new.control = old.control
          /\ new.kind = old.kind /\ new.key = old.key
          /\ old.heard /\ (old.tab = t => Mounted(Fresh, old.control))
    BY <1>3
  <2>2. old.tab \in Tabs /\ old.control \in Controls
    BY DEF TypeOK, Call
  <2>3. dialog'[old.tab][old.control] = dialog[old.tab][old.control]
    BY <1>1, <2>1, <2>2
  <2> QED
    BY <2>1, <2>3 DEF AnswersMeetTheirDialog
<1> QED
  BY <1>4, <1>5, <1>6, <1>7, <1>8, <1>9

(* An answer that leaves the dialog open: only its preview or its error    *)
(* changes.                                                                *)
LEMMA Answers ==
  ASSUME TypeOK, ClientInv, NEW call \in calls, call.heard,
         ShowPreview(call) \/ ShowError(call)
  PROVE  ClientInv'
<1> USE DEF ClientInv
<1>1. /\ UNCHANGED <<page, drawn>>
      /\ calls' = calls \ {call}
  BY DEF ShowPreview, ShowError
<1>2. call.tab \in Tabs /\ call.control \in Controls
  BY DEF TypeOK, Call
<1>3. \A u \in Tabs, b \in Controls :
        u # call.tab \/ b # call.control => dialog'[u][b] = dialog[u][b]
  <2>1. CASE ShowPreview(call)
    BY <1>2, <2>1 DEF ShowPreview, TypeOK
  <2>2. CASE ShowError(call)
    BY <1>2, <2>2 DEF ShowError, TypeOK
  <2> QED
    BY <2>1, <2>2
<1>4. ASSUME NEW new \in dialog'[call.tab][call.control]
      PROVE  \E d \in dialog[call.tab][call.control] :
               new.key = d.key /\ new.opening = d.opening
  <2>1. CASE ShowPreview(call)
    <3>1. PICK d \in dialog[call.tab][call.control] :
            new = [d EXCEPT !.preview = {call.to}]
      BY <1>2, <1>4, <2>1 DEF ShowPreview, TypeOK
    <3>2. d \in Dialog
      BY <1>2, DialogType
    <3> QED
      BY <3>1, <3>2 DEF Dialog
  <2>2. CASE ShowError(call)
    <3>1. PICK d \in dialog[call.tab][call.control] :
            new = [d EXCEPT !.error = TRUE,
                            !.warned = @ \/ call.kind = "execute"]
      BY <1>2, <1>4, <2>2 DEF ShowError, TypeOK
    <3>2. d \in Dialog
      BY <1>2, DialogType
    <3> QED
      BY <3>1, <3>2 DEF Dialog
  <2> QED
    BY <2>1, <2>2
<1>5. DialogsAreMounted'
  BY <1>1, <1>2, <1>3, <1>4 DEF DialogsAreMounted
<1>6. KeysAreOpenings'
  BY <1>1, <1>2, <1>3, <1>4 DEF KeysAreOpenings
<1>7. OneCallPerControl'
  BY <1>1 DEF OneCallPerControl
<1>8. OneDialogPerKey'
  BY <1>2, <1>3, <1>4 DEF OneDialogPerKey
<1>9. CallsBelong'
  BY <1>1, <1>2, <1>3, <1>4 DEF CallsBelong
<1>10. AnswersMeetTheirDialog'
  <2> SUFFICES ASSUME NEW new \in calls', new.heard
               PROVE  \E e \in dialog'[new.tab][new.control] :
                        e.key = new.key
                          /\ (new.kind = "execute" => e.preview # {})
    BY DEF AnswersMeetTheirDialog
  <2>1. new \in calls /\ (new.tab # call.tab \/ new.control # call.control)
    BY <1>1 DEF OneCallPerControl
  <2>2. new.tab \in Tabs /\ new.control \in Controls
    BY <2>1 DEF TypeOK, Call
  <2>3. dialog'[new.tab][new.control] = dialog[new.tab][new.control]
    BY <1>3, <2>1, <2>2
  <2> QED
    BY <2>1, <2>3 DEF AnswersMeetTheirDialog
<1> QED
  BY <1>5, <1>6, <1>7, <1>8, <1>9, <1>10

LEMMA ClientStep == TypeOK /\ ClientInv /\ [Next]_vars => ClientInv'
<1> SUFFICES ASSUME TypeOK, ClientInv, [Next]_vars PROVE ClientInv'
  OBVIOUS
<1>1. CASE UNCHANGED vars
  BY <1>1 DEF vars, ClientInv, DialogsAreMounted, KeysAreOpenings,
       OneCallPerControl, OneDialogPerKey, CallsBelong, AnswersMeetTheirDialog
<1>2. ASSUME NEW t \in Tabs, NEW c \in Controls,
             \/ \E key \in Keys : OpenPreview(t, c, key)
             \/ CloseDialog(t, c)
             \/ Confirm(t, c)
      PROVE  ClientInv'
  BY <1>2, Opens, Closes, Confirms
<1>3. ASSUME NEW t \in Tabs, Reload(t) PROVE ClientInv'
  BY <1>3, Reloads
<1>4. ASSUME UNCHANGED <<page, dialog, calls, drawn>> PROVE ClientInv'
  BY <1>4 DEF ClientInv, DialogsAreMounted, KeysAreOpenings,
       OneCallPerControl, OneDialogPerKey, CallsBelong, AnswersMeetTheirDialog
<1>5. ASSUME NEW call \in calls, Serve(call) PROVE ClientInv'
  <2>1. /\ UNCHANGED <<page, dialog, drawn>>
        /\ \E where \in {"sent", "working", "ok", "error"} :
             calls' = At(call, where)
    BY <1>5 DEF Serve, Refuse, ServePreview, Claim, ReturnExistingRun, Complete,
         Fail, Strand
  <2> QED
    BY <2>1, CallMoves
<1>6. ASSUME NEW call \in calls, Answer(call) PROVE ClientInv'
  <2>1. CASE ShowPreview(call) \/ ShowError(call)
    BY <2>1, Answers DEF ShowPreview, ShowError
  <2>2. CASE FinishDialog(call)
    <3>1. call.tab \in Tabs
      BY DEF TypeOK, Call
    <3>2. \A other \in calls :
            other.heard /\ other.tab = call.tab /\ other.control \in {call.control}
              => other \in {call}
      BY <2>2 DEF ClientInv, OneCallPerControl, FinishDialog
    <3> QED
      BY <2>2, <3>1, <3>2, Refreshes DEF FinishDialog
  <2> QED
    BY <1>6, <2>1, <2>2 DEF Answer
<1>7. ASSUME NEW undo \in undos, FinishUndo(undo) PROVE ClientInv'
  <2>1. undo.tab \in Tabs
    BY DEF TypeOK, UndoCall
  <2>2. calls' = StillHeard(undo.tab, calls \ {})
    BY <1>7 DEF FinishUndo
  <2> QED
    BY <1>7, <2>1, <2>2, Refreshes DEF FinishUndo
<1>8. ASSUME NEW undo \in undos, ServeUndo(undo) \/ ShowUndoError(undo)
      PROVE  ClientInv'
  BY <1>4, <1>8 DEF ServeUndo, RefuseUndo, ClaimUndo, Undo, FailUndo, StrandUndo,
       ShowUndoError
<1>9. ASSUME NEW t \in Tabs, NEW key \in Keys, ClickUndo(t, key) PROVE ClientInv'
  BY <1>4, <1>9 DEF ClickUndo
<1> QED
  BY <1>1, <1>2, <1>3, <1>5, <1>6, <1>7, <1>8, <1>9 DEF Next, AnswerUndo

LEMMA TypeStep == TypeOK /\ ClientInv /\ [Next]_vars => TypeOK'
<1> SUFFICES ASSUME TypeOK, ClientInv, [Next]_vars PROVE TypeOK'
  OBVIOUS
<1>1. CASE UNCHANGED vars
  BY <1>1 DEF vars, TypeOK, Audit!TypeOK
<1>2. ASSUME NEW t \in Tabs, NEW c \in Controls,
             \/ \E key \in Keys : OpenPreview(t, c, key)
             \/ CloseDialog(t, c)
             \/ Confirm(t, c)
      PROVE  TypeOK'
  BY <1>2, PageSteps DEF ClientInv
<1>3. ASSUME NEW t \in Tabs, Reload(t) \/ \E key \in Keys : ClickUndo(t, key)
      PROVE  TypeOK'
  BY <1>3, TabSteps
<1> QED
  BY <1>1, <1>2, <1>3, ServerSteps, UndoSteps, AnswerTypes, AnswerUndoTypes DEF Next

-----------------------------------------------------------------------------
(* RunInv: what dialogs and calls know of the audit trail.                 *)

(* The run has not failed, nor is it still to be executed. *)
Effective(k) == runs[k].phase \notin {"pending", "failed"}

Stays(k) == /\ k \in DOMAIN runs'
            /\ request'[k].opening = request[k].opening
            /\ Effective(k) => Effective(k)'

(* Runs stay, with the dialogs that asked for them, and what has taken     *)
(* effect never becomes a run that has not.                                *)
LEMMA RunsStay ==
  ASSUME TypeOK, [Next]_vars, NEW k \in DOMAIN runs
  PROVE  Stays(k)
<1> USE DEF Effective, Stays
<1>1. k \in DOMAIN request /\ request[k] \in Request /\ runs[k] \in Audit!Run
  BY DEF TypeOK, Audit!TypeOK
<1>2. UNCHANGED <<runs, request>> => Stays(k)
  OBVIOUS
<1>3. ASSUME NEW call \in calls, Claim(call) PROVE Stays(k)
  BY <1>1, <1>3 DEF Claim, Audit!Claim
<1>4. ASSUME NEW call \in calls, Complete(call) PROVE Stays(k)
  <2>1. k \in DOMAIN runs' /\ (Effective(k) => Effective(k)')
    BY <1>1, <1>4 DEF Complete, Audit!Complete, Audit!Run, TypeOK, Audit!TypeOK
  <2>2. request'[k].opening = request[k].opening
    BY <1>1, <1>4 DEF Complete, Request, TypeOK
  <2> QED
    BY <2>1, <2>2
<1>5. ASSUME NEW call \in calls, Fail(call) PROVE Stays(k)
  BY <1>1, <1>5 DEF Fail, Audit!Fail, Audit!Run, TypeOK, Audit!TypeOK
<1>6. ASSUME NEW undo \in undos, ClaimUndo(undo) \/ Undo(undo) \/ FailUndo(undo)
      PROVE  Stays(k)
  <2>1. request' = request
    BY <1>6 DEF ClaimUndo, Undo, FailUndo
  <2>2. \/ Audit!StartUndo(undo.key) \/ Audit!Undo(undo.key)
        \/ Audit!RefuseUndo(undo.key)
    BY <1>6 DEF ClaimUndo, Undo, FailUndo
  <2>3. k \in DOMAIN runs' /\ (Effective(k) => Effective(k)')
    BY <1>1, <2>2 DEF Audit!StartUndo, Audit!Undo, Audit!RefuseUndo, Audit!Run,
         TypeOK, Audit!TypeOK
  <2> QED
    BY <2>1, <2>3
<1>7. ASSUME NEW call \in calls,
             \/ Refuse(call) \/ ServePreview(call) \/ ReturnExistingRun(call)
             \/ Strand(call) \/ Answer(call)
      PROVE  Stays(k)
  BY <1>2, <1>7 DEF Refuse, ServePreview, ReturnExistingRun, Strand, Answer,
       ShowPreview, ShowError, FinishDialog
<1>8. ASSUME NEW undo \in undos,
             RefuseUndo(undo) \/ StrandUndo(undo) \/ AnswerUndo(undo)
      PROVE  Stays(k)
  BY <1>2, <1>8 DEF RefuseUndo, StrandUndo, AnswerUndo, FinishUndo, ShowUndoError
<1>9. ASSUME NEW t \in Tabs, NEW c \in Controls,
             \/ \E key \in Keys : OpenPreview(t, c, key)
             \/ CloseDialog(t, c) \/ Confirm(t, c)
      PROVE  Stays(k)
  BY <1>2, <1>9 DEF OpenPreview, CloseDialog, Confirm
<1>10. ASSUME NEW t \in Tabs, Reload(t) \/ \E key \in Keys : ClickUndo(t, key)
       PROVE  Stays(k)
  BY <1>2, <1>10 DEF Reload, ClickUndo
<1>11. CASE UNCHANGED vars
  BY <1>2, <1>11 DEF vars
<1> HIDE DEF Effective, Stays
<1> QED
  BY <1>3, <1>4, <1>5, <1>6, <1>7, <1>8, <1>9, <1>10, <1>11
     DEF Next, Serve, ServeUndo

(* Only Claim makes a run.                                                 *)
LEMMA RunsOfClaims ==
  ASSUME TypeOK, [Next]_vars
  PROVE  \/ DOMAIN runs' = DOMAIN runs
         \/ \E call \in calls : Claim(call)
<1> DEFINE Same == DOMAIN runs' = DOMAIN runs
<1>1. ASSUME NEW call \in calls, Serve(call), ~Claim(call) PROVE Same
  BY <1>1 DEF Serve, Complete, Audit!Complete, Fail, Audit!Fail, Refuse,
       ServePreview, ReturnExistingRun, Strand
<1>2. ASSUME NEW undo \in undos, ServeUndo(undo) PROVE Same
  BY <1>2 DEF ServeUndo, ClaimUndo, Audit!StartUndo, Undo, Audit!Undo, FailUndo,
       Audit!RefuseUndo, RefuseUndo, StrandUndo
<1>3. CASE runs' = runs
  BY <1>3
<1>4. ASSUME NEW t \in Tabs, NEW c \in Controls,
             \/ \E key \in Keys : OpenPreview(t, c, key)
             \/ CloseDialog(t, c) \/ Confirm(t, c)
      PROVE  Same
  BY <1>3, <1>4 DEF OpenPreview, CloseDialog, Confirm
<1>5. ASSUME NEW t \in Tabs, Reload(t) \/ \E key \in Keys : ClickUndo(t, key)
      PROVE  Same
  BY <1>3, <1>5 DEF Reload, ClickUndo
<1>6. ASSUME NEW call \in calls, Answer(call) PROVE Same
  BY <1>3, <1>6 DEF Answer, ShowPreview, ShowError, FinishDialog
<1>7. ASSUME NEW undo \in undos, AnswerUndo(undo) PROVE Same
  BY <1>3, <1>7 DEF AnswerUndo, FinishUndo, ShowUndoError
<1>8. CASE UNCHANGED vars
  BY <1>3, <1>8 DEF vars
<1> HIDE DEF Same
<1> QED
  BY <1>1, <1>2, <1>4, <1>5, <1>6, <1>7, <1>8 DEF Next, Same

LEMMA DrawnGrow == ASSUME [Next]_vars PROVE drawn \subseteq drawn'
<1>1. UNCHANGED drawn => drawn \subseteq drawn'
  OBVIOUS
<1>2. ASSUME NEW t \in Tabs, NEW c \in Controls,
             \/ \E key \in Keys : OpenPreview(t, c, key)
             \/ CloseDialog(t, c) \/ Confirm(t, c)
      PROVE  drawn \subseteq drawn'
  BY <1>2 DEF OpenPreview, CloseDialog, Confirm
<1>3. ASSUME NEW t \in Tabs, Reload(t) \/ \E key \in Keys : ClickUndo(t, key)
      PROVE  drawn \subseteq drawn'
  BY <1>1, <1>3 DEF Reload, ClickUndo
<1>4. ASSUME NEW call \in calls, Serve(call) \/ Answer(call)
      PROVE  drawn \subseteq drawn'
  BY <1>1, <1>4 DEF Serve, Refuse, ServePreview, Claim, ReturnExistingRun, Complete,
       Fail, Strand, Answer, ShowPreview, ShowError, FinishDialog
<1>5. ASSUME NEW undo \in undos, ServeUndo(undo) \/ AnswerUndo(undo)
      PROVE  drawn \subseteq drawn'
  BY <1>1, <1>5 DEF ServeUndo, RefuseUndo, ClaimUndo, Undo, FailUndo, StrandUndo,
       AnswerUndo, FinishUndo, ShowUndoError
<1>6. CASE UNCHANGED vars
  BY <1>1, <1>6 DEF vars
<1> QED
  BY <1>2, <1>3, <1>4, <1>5, <1>6 DEF Next

LEMMA Openings ==
  ASSUME TypeOK, ClientInv, RunsAreOpenings, [Next]_vars
  PROVE  RunsAreOpenings'
<1>1. \A k \in DOMAIN runs : request'[k].opening = k
  BY RunsStay DEF Stays, RunsAreOpenings
<1>2. CASE DOMAIN runs' = DOMAIN runs
  BY <1>1, <1>2 DEF RunsAreOpenings
<1>3. ASSUME NEW call \in calls, Claim(call) PROVE RunsAreOpenings'
  <2>1. call.key = call.opening
    BY DEF ClientInv, KeysAreOpenings
  <2>2. DOMAIN runs' = DOMAIN runs \cup {call.key}
    BY <1>3 DEF Claim, Audit!Claim
  <2>3. request'[call.key].opening = call.opening
    BY <1>3, <2>2 DEF Claim
  <2> QED
    BY <1>1, <2>1, <2>2, <2>3 DEF RunsAreOpenings
<1> QED
  BY <1>2, <1>3, RunsOfClaims

(* A call of the next state, if it works or was answered well, is one of   *)
(* this state that did so already, a preview, or one whose run is there.   *)
LEMMA RunsOfCalls ==
  ASSUME TypeOK, ClientInv, CallsHaveRuns, [Next]_vars
  PROVE  CallsHaveRuns'
<1> DEFINE OK(call) ==
             /\ call.kind = "execute" /\ call.at \in {"working", "ok"} =>
                  call.key \in DOMAIN runs'
             /\ call.at = "working" => call.kind = "execute"
<1>1. \A k \in DOMAIN runs : k \in DOMAIN runs'
  BY RunsStay DEF Stays
<1>2. \A call \in calls : OK(call)
  BY <1>1 DEF CallsHaveRuns
<1>3. \A call \in calls' : OK(call)
  <2>1. calls' \subseteq calls => \A call \in calls' : OK(call)
    BY <1>2
  <2>2. ASSUME NEW call, call.at = "sent", calls' = calls \cup {call}
        PROVE  \A new \in calls' : OK(new)
    BY <1>2, <2>2
  <2>3. ASSUME NEW call \in calls, NEW where \in {"sent", "working", "ok", "error"},
               calls' = At(call, where),
               where \in {"working", "ok"} /\ call.kind = "execute" =>
                 call.key \in DOMAIN runs',
               where = "working" => call.kind = "execute"
        PROVE  \A new \in calls' : OK(new)
    <3>1. call \in Call
      BY DEF TypeOK
    <3> DEFINE moved == [call EXCEPT !.at = where]
    <3>2. moved.kind = call.kind /\ moved.key = call.key /\ moved.at = where
      BY <3>1, MovedCall
    <3>3. calls' = (calls \ {call}) \cup {moved}
      BY <2>3 DEF At
    <3> HIDE DEF moved
    <3> QED
      BY <1>2, <2>3, <3>2, <3>3
  <2>4. ASSUME \A new \in calls' : \E old \in calls :
                 new.kind = old.kind /\ new.key = old.key /\ new.at = old.at
        PROVE  \A new \in calls' : OK(new)
    BY <1>2, <2>4
  <2> HIDE DEF OK
  <2>5. ASSUME NEW t \in Tabs, NEW c \in Controls,
               \/ \E key \in Keys : OpenPreview(t, c, key)
               \/ CloseDialog(t, c) \/ Confirm(t, c)
        PROVE  \A new \in calls' : OK(new)
    <3>1. CASE \E key \in Keys : OpenPreview(t, c, key)
      BY <2>2, <3>1 DEF OpenPreview
    <3>2. CASE CloseDialog(t, c)
      BY <2>1, <3>2 DEF CloseDialog
    <3>3. CASE Confirm(t, c)
      BY <2>2, <3>3 DEF Confirm
    <3> QED
      BY <2>5, <3>1, <3>2, <3>3
  <2>6. ASSUME NEW t \in Tabs, Reload(t) PROVE \A new \in calls' : OK(new)
    <3>1. ASSUME NEW new \in calls'
          PROVE  \E old \in calls :
                   new.kind = old.kind /\ new.key = old.key /\ new.at = old.at
      <4>1. PICK old \in calls : new = [old EXCEPT !.heard = @ /\ old.tab # t]
        BY <2>6, <3>1 DEF Reload
      <4>2. (old.heard /\ old.tab # t) \in BOOLEAN /\ old \in Call
        BY DEF TypeOK
      <4> QED
        BY <4>1, <4>2, Deafened
    <3> QED
      BY <2>4, <3>1
  <2>7. ASSUME NEW t \in Tabs, NEW set \in SUBSET calls, calls' = StillHeard(t, set)
        PROVE  \A new \in calls' : OK(new)
    <3>1. ASSUME NEW new \in calls'
          PROVE  \E old \in calls :
                   new.kind = old.kind /\ new.key = old.key /\ new.at = old.at
      <4>1. PICK old \in set :
              new = [old EXCEPT !.heard =
                       @ /\ (old.tab = t => Mounted(Fresh, old.control))]
        BY <2>7, <3>1 DEF StillHeard
      <4>2. /\ (old.heard /\ (old.tab = t => Mounted(Fresh, old.control))) \in BOOLEAN
            /\ old \in Call /\ old \in calls
        BY DEF TypeOK
      <4> QED
        BY <4>1, <4>2, Deafened
    <3> QED
      BY <2>4, <3>1
  <2>8. ASSUME NEW call \in calls, Serve(call) PROVE \A new \in calls' : OK(new)
    <3>1. CASE Refuse(call) \/ Fail(call) \/ Strand(call)
      BY <2>3, <3>1 DEF Refuse, Fail, Strand
    <3>2. CASE ServePreview(call)
      BY <2>3, <3>2 DEF ServePreview
    <3>3. CASE Claim(call)
      <4>1. call.key \in DOMAIN runs'
        BY <3>3 DEF Claim, Audit!Claim
      <4> QED
        BY <2>3, <3>3, <4>1 DEF Claim
    <3>4. CASE ReturnExistingRun(call)
      <4>1. PICK where \in {"ok", "error"} : calls' = At(call, where)
        BY <3>4 DEF ReturnExistingRun
      <4>2. call.key \in DOMAIN runs'
        BY <1>1, <3>4 DEF ReturnExistingRun
      <4> QED
        BY <2>3, <4>1, <4>2
    <3>5. CASE Complete(call)
      <4>1. PICK where \in {"ok", "error"} : calls' = At(call, where)
        BY <3>5 DEF Complete
      <4>2. call.key \in DOMAIN runs'
        BY <3>5 DEF Complete, Audit!Complete
      <4> QED
        BY <2>3, <4>1, <4>2
    <3> QED
      BY <2>8, <3>1, <3>2, <3>3, <3>4, <3>5 DEF Serve
  <2>9. ASSUME NEW call \in calls, Answer(call) PROVE \A new \in calls' : OK(new)
    <3>1. CASE ShowPreview(call) \/ ShowError(call)
      BY <2>1, <3>1 DEF ShowPreview, ShowError
    <3>2. CASE FinishDialog(call)
      <4>1. call.tab \in Tabs
        BY DEF TypeOK, Call
      <4> QED
        BY <2>7, <3>2, <4>1 DEF FinishDialog
    <3> QED
      BY <2>9, <3>1, <3>2 DEF Answer
  <2>10. ASSUME NEW undo \in undos, FinishUndo(undo)
         PROVE  \A new \in calls' : OK(new)
    <3>1. undo.tab \in Tabs
      BY DEF TypeOK, UndoCall
    <3> QED
      BY <2>7, <2>10, <3>1 DEF FinishUndo
  <2>11. ASSUME NEW undo \in undos, ServeUndo(undo) \/ ShowUndoError(undo)
         PROVE  \A new \in calls' : OK(new)
    BY <2>1, <2>11 DEF ServeUndo, RefuseUndo, ClaimUndo, Undo, FailUndo,
         StrandUndo, ShowUndoError
  <2>12. ASSUME NEW t \in Tabs, NEW key \in Keys, ClickUndo(t, key)
         PROVE  \A new \in calls' : OK(new)
    BY <2>1, <2>12 DEF ClickUndo
  <2>13. CASE UNCHANGED vars
    BY <2>1, <2>13 DEF vars
  <2> QED
    BY <2>5, <2>6, <2>8, <2>9, <2>10, <2>11, <2>12, <2>13 DEF Next, AnswerUndo
<1>4. DOMAIN runs' \subseteq drawn'
  <2>1. drawn \subseteq drawn'
    BY DrawnGrow
  <2>2. CASE DOMAIN runs' = DOMAIN runs
    BY <2>1, <2>2 DEF CallsHaveRuns
  <2>3. ASSUME NEW call \in calls, Claim(call) PROVE DOMAIN runs' \subseteq drawn'
    <3>1. DOMAIN runs' = DOMAIN runs \cup {call.key}
      BY <2>3 DEF Claim, Audit!Claim
    <3>2. call.key \in drawn
      BY DEF ClientInv, KeysAreOpenings
    <3> QED
      BY <2>1, <3>1, <3>2 DEF CallsHaveRuns
  <2> QED
    BY <2>2, <2>3, RunsOfClaims
<1> QED
  BY <1>3, <1>4 DEF CallsHaveRuns

(* Waits(w, t, c): a confirmation that was served, or is being served, and *)
(* that the dialog of control c waits for.                                 *)
Waits(w, t, c) ==
  w.heard /\ w.tab = t /\ w.control = c /\ w.kind = "execute" /\ w.at # "sent"

(* Ends(call): the dialog will finish with this answer. *)
Ends(call) == call.heard /\ call.kind = "execute" /\ call.at = "ok"

Warned(call) == \E d \in dialog[call.tab][call.control] : d.warned

LEMMA KnownKept ==
  ASSUME RunsAreKnown, DOMAIN runs' = DOMAIN runs,
         \A t \in Tabs, c \in Controls : \A e \in dialog'[t][c] :
           /\ \E d \in dialog[t][c] : e.key = d.key /\ (d.warned => e.warned)
           /\ \A w \in calls : Waits(w, t, c) =>
                e.warned \/ \E v \in calls' : Waits(v, t, c) /\ v.key = w.key
  PROVE  RunsAreKnown'
<1> SUFFICES ASSUME NEW t \in Tabs, NEW c \in Controls, NEW e \in dialog'[t][c],
                    e.key \in DOMAIN runs, ~e.warned
             PROVE  \E v \in calls' : Waits(v, t, c) /\ v.key = e.key
  BY DEF RunsAreKnown, Waits
<1>1. PICK d \in dialog[t][c] : e.key = d.key /\ ~d.warned
  OBVIOUS
<1>2. PICK w \in calls : Waits(w, t, c) /\ w.key = d.key
  BY <1>1 DEF RunsAreKnown, Waits
<1> QED
  BY <1>1, <1>2

LEMMA FinishedKept ==
  ASSUME TypeOK, CallsHaveRuns, FinishedHasTakenEffect, [Next]_vars,
         \A new \in calls' : Ends(new) =>
           \/ Effective(new.key)'
           \/ \E e \in dialog'[new.tab][new.control] : e.warned
           \/ \E old \in calls :
                /\ Ends(old) /\ old.key = new.key
                /\ Warned(old) => \E e \in dialog'[new.tab][new.control] : e.warned
  PROVE  FinishedHasTakenEffect'
<1> SUFFICES ASSUME NEW new \in calls', Ends(new), ~Effective(new.key)'
             PROVE  \E e \in dialog'[new.tab][new.control] : e.warned
  BY DEF FinishedHasTakenEffect, Ends, Effective
<1>1. CASE \E e \in dialog'[new.tab][new.control] : e.warned
  BY <1>1
<1>2. ASSUME NEW old \in calls, Ends(old), old.key = new.key,
             Warned(old) => \E e \in dialog'[new.tab][new.control] : e.warned
      PROVE  \E e \in dialog'[new.tab][new.control] : e.warned
  <2>1. old.key \in DOMAIN runs
    BY <1>2 DEF CallsHaveRuns, Ends
  <2>2. ~Effective(old.key)
    BY <1>2, <2>1, RunsStay DEF Stays
  <2>3. Warned(old)
    BY <1>2, <2>2 DEF FinishedHasTakenEffect, Ends, Effective, Warned
  <2> QED
    BY <1>2, <2>3
<1> QED
  BY <1>1, <1>2

(* A step that leaves every dialog and every call where it is. *)
LEMMA NothingHeard ==
  ASSUME TypeOK, RunInv, [Next]_vars, UNCHANGED <<calls, dialog>>,
         DOMAIN runs' = DOMAIN runs
  PROVE  RunsAreKnown' /\ FinishedHasTakenEffect'
<1>1. RunsAreKnown'
  BY KnownKept DEF RunInv
<1>2. FinishedHasTakenEffect'
  BY FinishedKept DEF RunInv, Warned
<1> QED
  BY <1>1, <1>2

LEMMA DialogSteps ==
  ASSUME TypeOK, ClientInv, RunInv, [Next]_vars, NEW t \in Tabs, NEW c \in Controls,
         \/ \E key \in Keys : OpenPreview(t, c, key)
         \/ CloseDialog(t, c)
         \/ Confirm(t, c)
  PROVE  RunsAreKnown' /\ FinishedHasTakenEffect'
<1>1. ~Busy(t, c) /\ UNCHANGED runs
  BY DEF OpenPreview, CloseDialog, Confirm, MayConfirm
<1>2. \A u \in Tabs, b \in Controls :
        u # t \/ b # c => dialog'[u][b] = dialog[u][b]
  <2>1. \E set : dialog' = [dialog EXCEPT ![t][c] = set]
    BY DEF OpenPreview, CloseDialog, Confirm
  <2> QED
    BY <2>1 DEF TypeOK
<1>3. calls \subseteq calls' /\ \A new \in calls' \ calls : new.at = "sent"
  <2>1. \/ calls' = calls
        \/ \E call : call.at = "sent" /\ calls' = calls \cup {call}
    <3>1. CASE \E key \in Keys : OpenPreview(t, c, key)
      BY <3>1 DEF OpenPreview
    <3>2. CASE CloseDialog(t, c)
      BY <3>2 DEF CloseDialog
    <3>3. CASE Confirm(t, c)
      BY <3>3 DEF Confirm
    <3> QED
      BY <3>1, <3>2, <3>3
  <2> QED
    BY <2>1
<1>4. FinishedHasTakenEffect'
  <2>1. ASSUME NEW new \in calls', Ends(new)
        PROVE  /\ new \in calls
               /\ Warned(new) => \E e \in dialog'[new.tab][new.control] : e.warned
    <3>1. new \in calls
      BY <1>3, <2>1 DEF Ends
    <3>2. new.tab \in Tabs /\ new.control \in Controls
      BY <3>1 DEF TypeOK, Call
    <3>3. new.tab # t \/ new.control # c
      BY <1>1, <2>1, <3>1 DEF Busy, Ends
    <3>4. dialog'[new.tab][new.control] = dialog[new.tab][new.control]
      BY <1>2, <3>2, <3>3
    <3> QED
      BY <3>1, <3>4 DEF Warned
  <2> QED
    BY <2>1, FinishedKept DEF RunInv
<1>5. ASSUME NEW u \in Tabs, NEW b \in Controls, NEW e \in dialog'[u][b],
             u # t \/ b # c
      PROVE  e \in dialog[u][b]
  BY <1>2, <1>5
<1>6. CASE \E key \in Keys : OpenPreview(t, c, key)
  <2>1. PICK key \in Keys : OpenPreview(t, c, key)
    BY <1>6
  <2>2. \A e \in dialog'[t][c] : e.key = key
    BY <2>1 DEF OpenPreview, TypeOK
  <2>3. key \notin DOMAIN runs
    BY <2>1 DEF OpenPreview, RunInv, CallsHaveRuns
  <2> QED
    BY <1>1, <1>3, <1>4, <1>5, <2>2, <2>3 DEF RunInv, RunsAreKnown
<1>7. CASE CloseDialog(t, c)
  <2>1. \A e \in dialog'[t][c] : FALSE
    BY <1>7 DEF CloseDialog, TypeOK
  <2> QED
    BY <1>1, <1>3, <1>4, <1>5, <2>1 DEF RunInv, RunsAreKnown
<1>8. CASE Confirm(t, c)
  <2>1. ASSUME NEW e \in dialog'[t][c]
        PROVE  \E d \in dialog[t][c] : e.key = d.key /\ (d.warned => e.warned)
    <3>1. PICK d \in dialog[t][c] :
            dialog' = [dialog EXCEPT ![t][c] =
                         {[d EXCEPT !.key = d.key, !.error = FALSE]}]
      BY <1>8 DEF Confirm, Kept
    <3>2. e = [d EXCEPT !.key = d.key, !.error = FALSE]
      BY <2>1, <3>1 DEF TypeOK
    <3>3. d \in Dialog
      BY DialogType
    <3> QED
      BY <3>2, <3>3 DEF Dialog
  <2> QED
    BY <1>1, <1>3, <1>4, <1>5, <2>1, KnownKept DEF RunInv
<1> QED
  BY <1>6, <1>7, <1>8

LEMMA ReloadSteps ==
  ASSUME TypeOK, RunInv, [Next]_vars, NEW t \in Tabs, Reload(t)
  PROVE  RunsAreKnown' /\ FinishedHasTakenEffect'
<1> DEFINE deaf(call) == [call EXCEPT !.heard = @ /\ call.tab # t]
<1>1. /\ \A c \in Controls : dialog'[t][c] = {}
      /\ \A u \in Tabs, b \in Controls : u # t => dialog'[u][b] = dialog[u][b]
      /\ runs' = runs
  BY DEF Reload, TypeOK
<1>2. ASSUME NEW old \in calls
      PROVE  /\ deaf(old).tab = old.tab /\ deaf(old).control = old.control
             /\ deaf(old).kind = old.kind /\ deaf(old).key = old.key
             /\ deaf(old).at = old.at
             /\ deaf(old).heard => old.heard /\ old.tab # t
             /\ old.heard /\ old.tab # t => deaf(old).heard
             /\ deaf(old) \in calls'
  <2>1. (old.heard /\ old.tab # t) \in BOOLEAN /\ old \in Call
    BY DEF TypeOK
  <2>2. deaf(old) \in calls'
    BY DEF Reload
  <2> QED
    BY <2>1, <2>2, Deafened
<1>3. \A new \in calls' : \E old \in calls : new = deaf(old)
  BY DEF Reload
<1> HIDE DEF deaf
<1>4. RunsAreKnown'
  <2>1. ASSUME NEW u \in Tabs, NEW c \in Controls, NEW e \in dialog'[u][c]
        PROVE  /\ \E d \in dialog[u][c] : e.key = d.key /\ (d.warned => e.warned)
               /\ \A w \in calls : Waits(w, u, c) =>
                    \E v \in calls' : Waits(v, u, c) /\ v.key = w.key
    <3>1. u # t /\ e \in dialog[u][c]
      BY <1>1
    <3>2. ASSUME NEW w \in calls, Waits(w, u, c)
          PROVE  deaf(w) \in calls' /\ Waits(deaf(w), u, c) /\ deaf(w).key = w.key
      BY <1>2, <3>1, <3>2 DEF Waits
    <3> QED
      BY <3>1, <3>2
  <2> QED
    BY <1>1, <2>1, KnownKept DEF RunInv
<1>5. FinishedHasTakenEffect'
  <2>1. ASSUME NEW new \in calls', Ends(new)
        PROVE  \E old \in calls :
                 /\ Ends(old) /\ old.key = new.key
                 /\ Warned(old) => \E e \in dialog'[new.tab][new.control] : e.warned
    <3>1. PICK old \in calls : new = deaf(old)
      BY <1>3
    <3>2. /\ new.tab = old.tab /\ new.control = old.control /\ new.key = old.key
          /\ Ends(old) /\ old.tab # t
      BY <1>2, <2>1, <3>1 DEF Ends
    <3>3. old.tab \in Tabs /\ old.control \in Controls
      BY DEF TypeOK, Call
    <3> QED
      BY <1>1, <3>2, <3>3 DEF Warned
  <2> QED
    BY <2>1, FinishedKept DEF RunInv
<1> QED
  BY <1>4, <1>5

LEMMA RefreshSteps ==
  ASSUME TypeOK, RunInv, [Next]_vars, NEW t \in Tabs, NEW reset, Refresh(t, reset),
         NEW answered, calls' = StillHeard(t, calls \ answered), runs' = runs,
         \A call \in answered : call.tab = t /\ call.control \in reset,
         \A call \in calls :
           call.heard /\ call.tab = t /\ call.control \in reset => call \in answered
  PROVE  RunsAreKnown' /\ FinishedHasTakenEffect'
<1> DEFINE heard(call) ==
             call.heard /\ (call.tab = t => Mounted(Fresh, call.control))
           still(call) == [call EXCEPT !.heard = heard(call)]
<1>1. /\ \A u \in Tabs, b \in Controls : dialog'[u][b] \subseteq dialog[u][b]
      /\ \A b \in Controls : \A d \in dialog'[t][b] :
           Mounted(Fresh, b) /\ b \notin reset
      /\ \A u \in Tabs, b \in Controls :
           u # t \/ (Mounted(Fresh, b) /\ b \notin reset) =>
             dialog'[u][b] = dialog[u][b]
  BY RefreshedDialogs
<1>2. ASSUME NEW old \in calls
      PROVE  /\ still(old).tab = old.tab /\ still(old).control = old.control
             /\ still(old).kind = old.kind /\ still(old).key = old.key
             /\ still(old).at = old.at
             /\ still(old).heard = heard(old)
             /\ old \notin answered => still(old) \in calls'
  <2>1. heard(old) \in BOOLEAN /\ old \in Call
    BY DEF TypeOK
  <2>2. old \notin answered => still(old) \in calls'
    BY DEF StillHeard
  <2> HIDE DEF heard
  <2> QED
    BY <2>1, <2>2, Deafened
<1>3. \A new \in calls' : \E old \in calls : old \notin answered /\ new = still(old)
  BY DEF StillHeard
<1>6. \A old \in calls :
        /\ heard(old) => old.heard
        /\ heard(old) /\ old.tab = t => Mounted(Fresh, old.control)
        /\ old.heard /\ (old.tab = t => Mounted(Fresh, old.control)) => heard(old)
  OBVIOUS
<1> HIDE DEF still, heard
<1>4. RunsAreKnown'
  <2>1. ASSUME NEW u \in Tabs, NEW c \in Controls, NEW e \in dialog'[u][c]
        PROVE  /\ \E d \in dialog[u][c] : e.key = d.key /\ (d.warned => e.warned)
               /\ \A w \in calls : Waits(w, u, c) =>
                    e.warned \/ \E v \in calls' : Waits(v, u, c) /\ v.key = w.key
    <3>1. e \in dialog[u][c]
      BY <1>1
    <3>2. u = t => Mounted(Fresh, c) /\ c \notin reset
      BY <1>1
    <3>3. ASSUME NEW w \in calls, Waits(w, u, c)
          PROVE  still(w) \in calls' /\ Waits(still(w), u, c) /\ still(w).key = w.key
      <4>1. w.heard /\ w.tab = u /\ w.control = c
        BY <3>3 DEF Waits
      <4>2. w \notin answered
        BY <3>2, <4>1
      <4>3. heard(w)
        BY <1>6, <3>2, <4>1
      <4>4. still(w) \in calls' /\ still(w).heard
        BY <1>2, <4>2, <4>3
      <4> QED
        BY <1>2, <3>3, <4>4 DEF Waits
    <3> QED
      BY <3>1, <3>3
  <2>2. DOMAIN runs' = DOMAIN runs
    OBVIOUS
  <2>3. RunsAreKnown
    BY DEF RunInv
  <2> QED
    BY <2>1, <2>2, <2>3, KnownKept
<1>5. FinishedHasTakenEffect'
  <2>1. ASSUME NEW new \in calls', Ends(new)
        PROVE  \E old \in calls :
                 /\ Ends(old) /\ old.key = new.key
                 /\ Warned(old) => \E e \in dialog'[new.tab][new.control] : e.warned
    <3>1. PICK old \in calls : old \notin answered /\ new = still(old)
      BY <1>3
    <3>8. /\ new.tab = old.tab /\ new.control = old.control /\ new.key = old.key
          /\ new.kind = old.kind /\ new.at = old.at
          /\ new.heard = heard(old)
      BY <1>2, <3>1
    <3>9. new.heard
      BY <2>1 DEF Ends
    <3>2. /\ new.tab = old.tab /\ new.control = old.control /\ new.key = old.key
          /\ new.kind = old.kind /\ new.at = old.at
          /\ heard(old)
      BY <3>8, <3>9
    <3>3. old.heard /\ (old.tab = t => Mounted(Fresh, old.control))
      BY <1>6, <3>2
    <3>4. Ends(old)
      BY <2>1, <3>2, <3>3 DEF Ends
    <3>5. old.tab \in Tabs /\ old.control \in Controls
      BY DEF TypeOK, Call
    <3>6. old.tab # t \/ old.control \notin reset
      BY <3>1, <3>3
    <3>7. dialog'[old.tab][old.control] = dialog[old.tab][old.control]
      BY <1>1, <3>3, <3>5, <3>6
    <3> QED
      BY <3>2, <3>4, <3>7 DEF Warned
  <2> QED
    BY <2>1, FinishedKept DEF RunInv
<1> QED
  BY <1>4, <1>5

LEMMA ServeSteps ==
  ASSUME TypeOK, ClientInv, RunInv, [Next]_vars, NEW call \in calls, Serve(call)
  PROVE  RunsAreKnown' /\ FinishedHasTakenEffect'
<1>1. PICK where \in {"working", "ok", "error"} :
        /\ calls' = At(call, where)
        /\ where = "ok" =>
             ServePreview(call) \/ ReturnExistingRun(call) \/ Complete(call)
  <2>1. CASE ServePreview(call) \/ ReturnExistingRun(call) \/ Complete(call)
    BY <2>1 DEF ServePreview, ReturnExistingRun, Complete
  <2>2. CASE Refuse(call) \/ Claim(call) \/ Fail(call) \/ Strand(call)
    BY <2>2 DEF Refuse, Claim, Fail, Strand
  <2> QED
    BY <2>1, <2>2 DEF Serve
<1>2. dialog' = dialog
  BY DEF Serve, Refuse, ServePreview, Claim, ReturnExistingRun, Complete, Fail,
     Strand
<1> DEFINE moved == [call EXCEPT !.at = where]
<1>3. call \in Call /\ call.tab \in Tabs /\ call.control \in Controls
  BY DEF TypeOK, Call
<1>4. /\ moved.tab = call.tab /\ moved.control = call.control
      /\ moved.kind = call.kind /\ moved.key = call.key
      /\ moved.heard = call.heard /\ moved.at = where
  BY <1>3, MovedCall, MovedHeard
<1>5. calls' = (calls \ {call}) \cup {moved}
  BY <1>1 DEF At
<1> HIDE DEF moved
<1>6. RunsAreKnown'
  <2> SUFFICES ASSUME NEW t \in Tabs, NEW c \in Controls, NEW d \in dialog[t][c],
                      d.key \in DOMAIN runs', ~d.warned
               PROVE  \E v \in calls' : Waits(v, t, c) /\ v.key = d.key
    BY <1>2 DEF RunsAreKnown, Waits
  <2>1. CASE d.key \in DOMAIN runs
    <3>1. PICK w \in calls : Waits(w, t, c) /\ w.key = d.key
      BY <2>1 DEF RunInv, RunsAreKnown, Waits
    <3>2. CASE w = call
      BY <1>4, <1>5, <3>1, <3>2 DEF Waits
    <3>3. CASE w # call
      BY <1>5, <3>1, <3>3
    <3> QED
      BY <3>2, <3>3
  <2>2. CASE d.key \notin DOMAIN runs
    <3>1. PICK claiming \in calls : Claim(claiming)
      BY <2>2, RunsOfClaims
    <3>2. DOMAIN runs' = DOMAIN runs \cup {claiming.key}
      BY <3>1 DEF Claim, Audit!Claim
    <3>3. claiming.key = d.key /\ claiming.kind = "execute"
      BY <2>2, <3>1, <3>2 DEF Claim
    <3>4. claiming.heard /\ claiming.tab = t /\ claiming.control = c
      BY <3>3 DEF ClientInv, CallsBelong
    <3>5. [claiming EXCEPT !.at = "working"] \in calls'
      BY <3>1 DEF Claim, At
    <3>6. claiming \in Call
      BY DEF TypeOK
    <3>7. Waits([claiming EXCEPT !.at = "working"], t, c)
            /\ [claiming EXCEPT !.at = "working"].key = d.key
      BY <3>3, <3>4, <3>6 DEF Waits, Call
    <3> QED
      BY <3>5, <3>7
  <2> QED
    BY <2>1, <2>2
<1>7. ASSUME where = "ok", Ends(moved)
      PROVE  Effective(moved.key)' \/ Warned(call)
  <2>1. call.kind = "execute" /\ call.heard
    BY <1>4, <1>7 DEF Ends
  <2>2. CASE ReturnExistingRun(call)
    <3>1. call.key \in DOMAIN runs /\ call.at = "sent"
      BY <2>2 DEF ReturnExistingRun
    <3>2. PICK d \in dialog[call.tab][call.control] : d.key = call.key
      BY <2>1 DEF ClientInv, AnswersMeetTheirDialog
    <3>3. \/ d.warned
          \/ \E w \in calls : Waits(w, call.tab, call.control)
      BY <1>3, <3>1, <3>2 DEF RunInv, RunsAreKnown, Waits
    <3>4. ASSUME NEW w \in calls, Waits(w, call.tab, call.control) PROVE FALSE
      BY <2>1, <3>1, <3>4 DEF ClientInv, OneCallPerControl, Waits
    <3> QED
      BY <3>2, <3>3, <3>4 DEF Warned
  <2>3. CASE Complete(call)
    <3>1. runs'[call.key].phase = "completed"
      BY <2>3 DEF Complete, Audit!Complete, TypeOK, Audit!TypeOK, Audit!Run
    <3> QED
      BY <1>4, <3>1 DEF Effective
  <2>4. ~ServePreview(call)
    BY <2>1 DEF ServePreview
  <2> QED
    BY <1>1, <1>7, <2>2, <2>3, <2>4
<1>8. FinishedHasTakenEffect'
  <2>1. ASSUME NEW new \in calls', Ends(new)
        PROVE  \/ Effective(new.key)'
               \/ \E e \in dialog'[new.tab][new.control] : e.warned
               \/ new \in calls
    BY <1>2, <1>4, <1>5, <1>7, <2>1 DEF Ends, Warned
  <2>2. \A new \in calls' : Warned(new) =>
          \E e \in dialog'[new.tab][new.control] : e.warned
    BY <1>2 DEF Warned
  <2> QED
    BY <2>1, <2>2, FinishedKept DEF RunInv
<1> QED
  BY <1>6, <1>8

LEMMA AnswerSteps ==
  ASSUME TypeOK, ClientInv, RunInv, [Next]_vars, NEW call \in calls,
         ShowPreview(call) \/ ShowError(call)
  PROVE  RunsAreKnown' /\ FinishedHasTakenEffect'
<1>1. calls' = calls \ {call} /\ runs' = runs /\ call.heard
  BY DEF ShowPreview, ShowError
<1>2. call.tab \in Tabs /\ call.control \in Controls
  BY DEF TypeOK, Call
<1>3. \A u \in Tabs, b \in Controls :
        u # call.tab \/ b # call.control => dialog'[u][b] = dialog[u][b]
  <2>1. \E set : dialog' = [dialog EXCEPT ![call.tab][call.control] = set]
    BY DEF ShowPreview, ShowError
  <2> QED
    BY <2>1 DEF TypeOK
<1>4. ASSUME NEW e \in dialog'[call.tab][call.control]
      PROVE  /\ \E d \in dialog[call.tab][call.control] :
                  e.key = d.key /\ (d.warned => e.warned)
             /\ e.warned \/ call.kind = "preview"
  <2>1. CASE ShowPreview(call)
    <3>1. PICK d \in dialog[call.tab][call.control] :
            e = [d EXCEPT !.preview = {call.to}]
      BY <1>2, <1>4, <2>1 DEF ShowPreview, TypeOK
    <3>2. d \in Dialog
      BY <1>2, DialogType
    <3> QED
      BY <2>1, <3>1, <3>2 DEF Dialog, ShowPreview
  <2>2. CASE ShowError(call)
    <3>1. PICK d \in dialog[call.tab][call.control] :
            e = [d EXCEPT !.error = TRUE, !.warned = @ \/ call.kind = "execute"]
      BY <1>2, <1>4, <2>2 DEF ShowError, TypeOK
    <3>2. d \in Dialog
      BY <1>2, DialogType
    <3>3. e.key = d.key /\ e.warned = (d.warned \/ call.kind = "execute")
      BY <3>1, <3>2 DEF Dialog
    <3>4. call.kind \in {"preview", "execute"}
      BY DEF TypeOK, Call
    <3> QED
      BY <3>3, <3>4
  <2> QED
    BY <2>1, <2>2
<1>5. RunsAreKnown'
  <2>1. ASSUME NEW u \in Tabs, NEW b \in Controls, NEW e \in dialog'[u][b]
        PROVE  /\ \E d \in dialog[u][b] : e.key = d.key /\ (d.warned => e.warned)
               /\ \A w \in calls : Waits(w, u, b) =>
                    e.warned \/ \E v \in calls' : Waits(v, u, b) /\ v.key = w.key
    <3>1. CASE u = call.tab /\ b = call.control
      <4>1. ASSUME NEW w \in calls, Waits(w, u, b), ~e.warned
            PROVE  w \in calls'
        BY <1>1, <1>4, <3>1, <4>1 DEF Waits
      <4> QED
        BY <1>4, <3>1, <4>1
    <3>2. CASE u # call.tab \/ b # call.control
      <4>1. e \in dialog[u][b]
        BY <1>3, <3>2
      <4>2. \A w \in calls : Waits(w, u, b) => w \in calls'
        BY <1>1, <3>2 DEF Waits
      <4> QED
        BY <4>1, <4>2
    <3> QED
      BY <3>1, <3>2
  <2> QED
    BY <1>1, <2>1, KnownKept DEF RunInv
<1>6. FinishedHasTakenEffect'
  <2>1. ASSUME NEW new \in calls', Ends(new)
        PROVE  /\ new \in calls
               /\ Warned(new) => \E e \in dialog'[new.tab][new.control] : e.warned
    <3>1. new \in calls /\ (new.tab # call.tab \/ new.control # call.control)
      BY <1>1, <2>1 DEF ClientInv, OneCallPerControl, Ends
    <3>2. new.tab \in Tabs /\ new.control \in Controls
      BY <3>1 DEF TypeOK, Call
    <3>3. dialog'[new.tab][new.control] = dialog[new.tab][new.control]
      BY <1>3, <3>1, <3>2
    <3> QED
      BY <3>1, <3>3 DEF Warned
  <2> QED
    BY <2>1, FinishedKept DEF RunInv
<1> QED
  BY <1>5, <1>6

LEMMA RunStep == TypeOK /\ ClientInv /\ RunInv /\ [Next]_vars => RunInv'
<1> SUFFICES ASSUME TypeOK, ClientInv, RunInv, [Next]_vars PROVE RunInv'
  OBVIOUS
<1>10. RunsAreOpenings' /\ CallsHaveRuns'
  <2>1. RunsAreOpenings /\ CallsHaveRuns
    BY DEF RunInv
  <2> QED
    BY <2>1, Openings, RunsOfCalls
<1> DEFINE Remains == RunsAreKnown' /\ FinishedHasTakenEffect'
<1>1. ASSUME UNCHANGED <<calls, dialog>>, DOMAIN runs' = DOMAIN runs PROVE Remains
  BY <1>1, NothingHeard
<1> HIDE DEF Remains
<1>2. ASSUME UNCHANGED vars PROVE Remains
  BY <1>1, <1>2 DEF vars
<1>3. ASSUME NEW t \in Tabs, NEW c \in Controls,
             \/ \E key \in Keys : OpenPreview(t, c, key)
             \/ CloseDialog(t, c)
             \/ Confirm(t, c)
      PROVE  Remains
  BY <1>3, DialogSteps DEF Remains
<1>4. ASSUME NEW t \in Tabs, Reload(t) PROVE Remains
  BY <1>4, ReloadSteps DEF Remains
<1>5. ASSUME NEW t \in Tabs, NEW key \in Keys, ClickUndo(t, key) PROVE Remains
  BY <1>1, <1>5 DEF ClickUndo
<1>6. ASSUME NEW call \in calls, Serve(call) PROVE Remains
  BY <1>6, ServeSteps DEF Remains
<1>7. ASSUME NEW call \in calls, Answer(call) PROVE Remains
  <2>1. CASE ShowPreview(call) \/ ShowError(call)
    BY <2>1, AnswerSteps DEF Remains
  <2>2. CASE FinishDialog(call)
    <3>1. call.tab \in Tabs
      BY DEF TypeOK, Call
    <3>2. \A other \in calls :
            other.heard /\ other.tab = call.tab /\ other.control \in {call.control}
              => other \in {call}
      BY <2>2 DEF ClientInv, OneCallPerControl, FinishDialog
    <3>3. \A other \in {call} :
            other.tab = call.tab /\ other.control \in {call.control}
      OBVIOUS
    <3>4. /\ Refresh(call.tab, {call.control})
          /\ calls' = StillHeard(call.tab, calls \ {call})
          /\ runs' = runs
      BY <2>2 DEF FinishDialog
    <3> QED
      BY <3>1, <3>2, <3>3, <3>4, RefreshSteps DEF Remains
  <2> QED
    BY <1>7, <2>1, <2>2 DEF Answer
<1>8. ASSUME NEW undo \in undos, FinishUndo(undo) PROVE Remains
  <2>1. undo.tab \in Tabs
    BY DEF TypeOK, UndoCall
  <2>2. calls' = StillHeard(undo.tab, calls \ {})
    BY <1>8 DEF FinishUndo
  <2> QED
    BY <1>8, <2>1, <2>2, RefreshSteps DEF FinishUndo, Remains
<1>9. ASSUME NEW undo \in undos, ServeUndo(undo) \/ ShowUndoError(undo)
      PROVE  Remains
  <2>1. UNCHANGED <<calls, dialog>>
    BY <1>9 DEF ServeUndo, RefuseUndo, ClaimUndo, Undo, FailUndo, StrandUndo,
         ShowUndoError
  <2>2. DOMAIN runs' = DOMAIN runs
    BY <1>9 DEF ServeUndo, RefuseUndo, ClaimUndo, Audit!StartUndo, Undo, Audit!Undo,
         FailUndo, Audit!RefuseUndo, StrandUndo, ShowUndoError
  <2> QED
    BY <1>1, <2>1, <2>2
<1> QED
  <2>1. Remains
    BY <1>2, <1>3, <1>4, <1>5, <1>6, <1>7, <1>8, <1>9 DEF Next, AnswerUndo
  <2> QED
    BY <1>10, <2>1 DEF Remains, RunInv

LEMMA Invariance == Spec => []IInv
<1>1. Init => IInv
  <2>1. Init => ClientInv
    BY DEF Init, ClientInv, DialogsAreMounted, KeysAreOpenings,
       OneCallPerControl, OneDialogPerKey, CallsBelong, AnswersMeetTheirDialog
  <2>2. Init => RunInv
    BY DEF Init, Audit!Init, RunInv, RunsAreOpenings, CallsHaveRuns, RunsAreKnown,
       FinishedHasTakenEffect
  <2> QED
    BY <2>1, <2>2, TypeInit DEF IInv
<1>2. IInv /\ [Next]_vars => IInv'
  BY TypeStep, ClientStep, RunStep DEF IInv
<1> QED
  BY <1>1, <1>2, PTL DEF Spec

(* Every variable of the demo's pages holds what its type says.            *)
THEOREM TypeCorrect == Spec => []TypeOK
<1>1. IInv => TypeOK
  BY DEF IInv
<1> QED
  BY <1>1, Invariance, PTL

(* One opening of a dialog makes one run at most, although its user may    *)
(* confirm again after every error.                                        *)
THEOREM OpeningsMakeOneRun == Spec => []OneRunPerOpening
<1>1. IInv => OneRunPerOpening
  BY DEF IInv, RunInv, RunsAreOpenings, OneRunPerOpening
<1> QED
  BY <1>1, Invariance, PTL

(* No dialog is shown the answer to a call of another one.                 *)
THEOREM AnswersAreMet == Spec => []AnswersMeetTheirDialog
<1>1. IInv => AnswersMeetTheirDialog
  BY DEF IInv, ClientInv
<1> QED
  BY <1>1, Invariance, PTL

(* A dialog that finishes has taken effect, or had shown an error.         *)
THEOREM FinishedDialogs == Spec => []FinishedHasTakenEffect
<1>1. IInv => FinishedHasTakenEffect
  BY DEF IInv, RunInv
<1> QED
  BY <1>1, Invariance, PTL
=============================================================================
