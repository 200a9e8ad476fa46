------------------------ MODULE LifecycleRulesProofs ------------------------
(***************************************************************************)
(* The claims of ActionLifecycle, as the requests of a runtime make them,  *)
(* and a run of its audit trail that goes to another phase: lemmas that    *)
(* the refinements by either runtime share.                                *)
(***************************************************************************)
EXTENDS LifecycleRules, TLAPS

AllClaims == Actions \X Actors \X Optional(Tenants) \X Keys

(* The claim of a request, none without an idempotency key. *)
ClaimOf(created) ==
  {<<created.name, created.actor, created.tenantId, key>> :
     key \in created.idempotencyKey}

(* Two requests with the same claim are the same claim for the adapter.    *)
LEMMA EqualClaims ==
  ASSUME NEW r \in CreateInput, NEW input \in CreateInput,
         ClaimOf(r) = ClaimOf(input), ClaimOf(input) # {}
  PROVE  SameClaim(r, input)
<1>1. PICK key \in input.idempotencyKey : TRUE
  BY DEF ClaimOf
<1>2. <<input.name, input.actor, input.tenantId, key>> \in ClaimOf(r)
  BY <1>1 DEF ClaimOf
<1>3. PICK other \in r.idempotencyKey :
        <<input.name, input.actor, input.tenantId, key>>
          = <<r.name, r.actor, r.tenantId, other>>
  BY <1>2 DEF ClaimOf
<1>4. /\ r.name = input.name /\ r.actor = input.actor /\ r.tenantId = input.tenantId
      /\ other = key
  BY <1>3
<1>5. r.idempotencyKey \in Optional(Keys) /\ input.idempotencyKey \in Optional(Keys)
  BY DEF CreateInput
<1>6. r.idempotencyKey = input.idempotencyKey
  BY <1>1, <1>3, <1>4, <1>5 DEF Optional
<1> QED
  BY <1>1, <1>4, <1>6 DEF SameClaim

LEMMA ClaimsAreTyped ==
  ASSUME NEW input \in CreateInput
  PROVE  ClaimOf(input) \in {{}} \cup {{k} : k \in AllClaims}
<1>1. input.idempotencyKey \in SUBSET Keys
      /\ \A k, l \in input.idempotencyKey : k = l
  BY DEF CreateInput, Optional
<1>2. input.name \in Actions /\ input.actor \in Actors
      /\ input.tenantId \in Optional(Tenants)
  BY DEF CreateInput
<1>3. CASE input.idempotencyKey = {}
  BY <1>3 DEF ClaimOf
<1>4. ASSUME NEW key \in input.idempotencyKey
      PROVE  ClaimOf(input) \in {{k} : k \in AllClaims}
  <2>1. ClaimOf(input) = {<<input.name, input.actor, input.tenantId, key>>}
    BY <1>1, <1>4 DEF ClaimOf
  <2>2. <<input.name, input.actor, input.tenantId, key>> \in AllClaims
    BY <1>1, <1>2, <1>4 DEF AllClaims
  <2> QED
    BY <2>1, <2>2
<1> QED
  BY <1>3, <1>4

(* One run of an audit trail goes to another phase. *)
NewPhase(audit, next, id, claim, undoable, before, after, phase, new) ==
  /\ id \in DOMAIN audit
  /\ audit = [r \in DOMAIN audit |-> audit[r]]
  /\ next = [r \in DOMAIN audit |-> next[r]]
  /\ audit[id] = [claim |-> claim, undoable |-> undoable,
                  irreversible |-> before, phase |-> phase]
  /\ next[id] = [claim |-> claim, undoable |-> undoable,
                 irreversible |-> after, phase |-> new]
  /\ \A other \in DOMAIN audit \ {id} : next[other] = audit[other]

LEMMA NextPhase ==
  ASSUME NEW audit, NEW next, NEW id, NEW claim, NEW undoable,
         NEW before, NEW after, NEW phase, NEW new,
         NewPhase(audit, next, id, claim, undoable, before, after, phase, new)
  PROVE  /\ next = [audit EXCEPT ![id].phase = new, ![id].irreversible = after]
         /\ after = before => next = [audit EXCEPT ![id].phase = new]
<1> USE DEF NewPhase
<1>1. PICK was : was = audit[id]
  OBVIOUS
<1>2. PICK mid : mid = [claim |-> claim, undoable |-> undoable,
                        irreversible |-> before, phase |-> new]
  OBVIOUS
<1>3. PICK is : is = next[id]
  OBVIOUS
<1>4. mid = [was EXCEPT !.phase = new]
  BY <1>1, <1>2
<1>5. is = [mid EXCEPT !.irreversible = after]
  BY <1>2, <1>3
<1>6. after = before => is = mid
  BY <1>2, <1>3
<1>7. next = [audit EXCEPT ![id] = is]
  BY <1>3
<1>8. next = [audit EXCEPT ![id].phase = new, ![id].irreversible = after]
  BY <1>1, <1>4, <1>5, <1>7
<1>9. after = before => next = [audit EXCEPT ![id].phase = new]
  BY <1>1, <1>4, <1>6, <1>7
<1> QED
  BY <1>8, <1>9
=============================================================================
