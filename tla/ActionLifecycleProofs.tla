------------------------ MODULE ActionLifecycleProofs ------------------------
(***************************************************************************)
(* The promises of ActionLifecycle hold for any set of identifiers and any *)
(* set of claims.                                                          *)
(***************************************************************************)
EXTENDS ActionLifecycle, TLAPS

(* The audit holds runs only, each in a phase of the lifecycle: the states *)
(* ActionRun may be in (lifecycle.ts).                                     *)
THEOREM TypeCorrect == Spec => []TypeOK
<1>1. Init => TypeOK
  BY DEF Init, TypeOK
<1>2. TypeOK /\ [Next]_runs => TypeOK'
  <2> SUFFICES ASSUME TypeOK, [Next]_runs PROVE TypeOK'
    OBVIOUS
  <2>1. CASE UNCHANGED runs
    BY <2>1 DEF TypeOK
  <2>2. ASSUME NEW id \in Identifiers,
               NEW claim \in {{}} \cup {{k} : k \in Claims},
               NEW undoable \in BOOLEAN, Claim(id, claim, undoable)
        PROVE  TypeOK'
    BY <2>2 DEF Claim, TypeOK, Run, Phase
  <2>3. ASSUME NEW id \in Identifiers, NEW irreversible \in BOOLEAN,
               Complete(id, irreversible)
        PROVE  TypeOK'
    BY <2>3 DEF Complete, TypeOK, Run, Phase
  <2>4. ASSUME NEW id \in Identifiers,
               Fail(id) \/ StartUndo(id) \/ Undo(id) \/ RefuseUndo(id)
        PROVE  TypeOK'
    BY <2>4 DEF Fail, StartUndo, Undo, RefuseUndo, TypeOK, Run, Phase
  <2> QED
    BY <2>1, <2>2, <2>3, <2>4 DEF Next
<1> QED
  BY <1>1, <1>2, PTL DEF Spec

(* One run per idempotency key, for good (claimActionRun).                 *)
THEOREM ClaimsAreUnique == Spec => []OneRunPerClaim
<1>1. Init => OneRunPerClaim
  BY DEF Init, OneRunPerClaim
<1>2. TypeOK /\ OneRunPerClaim /\ [Next]_runs => OneRunPerClaim'
  <2> SUFFICES ASSUME TypeOK, OneRunPerClaim, [Next]_runs PROVE OneRunPerClaim'
    OBVIOUS
  <2> USE DEF TypeOK, OneRunPerClaim
  <2>1. CASE UNCHANGED runs
    BY <2>1
  <2>2. ASSUME NEW id \in Identifiers,
               NEW claim \in {{}} \cup {{k} : k \in Claims},
               NEW undoable \in BOOLEAN, Claim(id, claim, undoable)
        PROVE  OneRunPerClaim'
    BY <2>2 DEF Claim
  <2>3. ASSUME NEW id \in Identifiers,
               \/ \E irreversible \in BOOLEAN : Complete(id, irreversible)
               \/ Fail(id) \/ StartUndo(id) \/ Undo(id) \/ RefuseUndo(id)
        PROVE  OneRunPerClaim'
    <3>1. DOMAIN runs' = DOMAIN runs
      BY <2>3 DEF Complete, Fail, StartUndo, Undo, RefuseUndo
    <3>2. \A r \in DOMAIN runs : runs'[r].claim = runs[r].claim
      BY <2>3 DEF Complete, Fail, StartUndo, Undo, RefuseUndo, Run
    <3> QED
      BY <3>1, <3>2
  <2> QED
    BY <2>1, <2>2, <2>3 DEF Next
<1> QED
  BY <1>1, <1>2, TypeCorrect, PTL DEF Spec

(* Only what was undoable, and not irreversible, is ever undone.           *)
THEOREM UndoneIsUndoable == Spec => []UndoneWasUndoable
<1> DEFINE UndoingIsUndoable ==
      \A r \in DOMAIN runs : runs[r].phase = "undoing" => runs[r].undoable
           Inv == UndoneWasUndoable /\ UndoingIsUndoable
<1>1. Init => Inv
  BY DEF Init, UndoneWasUndoable
<1>2. TypeOK /\ Inv /\ [Next]_runs => Inv'
  <2> SUFFICES ASSUME TypeOK, Inv, [Next]_runs PROVE Inv'
    OBVIOUS
  <2> USE DEF TypeOK, Run, UndoneWasUndoable
  <2>1. CASE UNCHANGED runs
    BY <2>1
  <2>2. ASSUME NEW id \in Identifiers,
               NEW claim \in {{}} \cup {{k} : k \in Claims},
               NEW undoable \in BOOLEAN, Claim(id, claim, undoable)
        PROVE  Inv'
    BY <2>2 DEF Claim
  <2>3. ASSUME NEW id \in Identifiers, NEW irreversible \in BOOLEAN,
               Complete(id, irreversible)
        PROVE  Inv'
    BY <2>3 DEF Complete
  <2>4. ASSUME NEW id \in Identifiers,
               Fail(id) \/ StartUndo(id) \/ Undo(id) \/ RefuseUndo(id)
        PROVE  Inv'
    BY <2>4 DEF Fail, StartUndo, Undo, RefuseUndo
  <2> QED
    BY <2>1, <2>2, <2>3, <2>4 DEF Next
<1>3. Inv => UndoneWasUndoable
  OBVIOUS
<1> HIDE DEF Inv
<1> QED
  BY <1>1, <1>2, <1>3, TypeCorrect, PTL DEF Spec

(* No run vanishes and no settled run moves.                               *)
THEOREM HistoryKept == Spec => HistoryIsKept
<1> DEFINE Kept == \A r \in DOMAIN runs :
                     /\ r \in DOMAIN runs'
                     /\ runs'[r].claim = runs[r].claim
                     /\ runs[r].phase \in FinalPhase => runs'[r] = runs[r]
<1>1. TypeOK /\ [Next]_runs => [Kept]_runs
  <2> SUFFICES ASSUME TypeOK, Next PROVE Kept
    OBVIOUS
  <2> USE DEF TypeOK, Run, FinalPhase
  <2>1. ASSUME NEW id \in Identifiers,
               NEW claim \in {{}} \cup {{k} : k \in Claims},
               NEW undoable \in BOOLEAN, Claim(id, claim, undoable)
        PROVE  Kept
    BY <2>1 DEF Claim
  <2>2. ASSUME NEW id \in Identifiers, NEW irreversible \in BOOLEAN,
               Complete(id, irreversible)
        PROVE  Kept
    BY <2>2 DEF Complete
  <2>3. ASSUME NEW id \in Identifiers,
               Fail(id) \/ StartUndo(id) \/ Undo(id) \/ RefuseUndo(id)
        PROVE  Kept
    BY <2>3 DEF Fail, StartUndo, Undo, RefuseUndo
  <2> QED
    BY <2>1, <2>2, <2>3 DEF Next
<1> HIDE DEF Kept
<1>2. Spec => [][Kept]_runs
  BY <1>1, TypeCorrect, PTL DEF Spec
<1> QED
  BY <1>2 DEF HistoryIsKept, Kept
=============================================================================
