---------------------------- MODULE PlannerProofs ----------------------------
(***************************************************************************)
(* Proofs about Planner, for every document, policy and wiring: what a     *)
(* plan that leaves the planner satisfies, whatever the moment at which    *)
(* the caller cancels; that Planner implements Answer: it returns the      *)
(* complete plan or none; and the types of the items of a finished plan,   *)
(* the names kept apart, and what strict mode guarantees.                  *)
(***************************************************************************)
EXTENDS Planner, PlanFacts, TLAPS

\* The stages before the last look at the context, and those after it.
Indexing == {"start", "references"} \cup EntityKinds
Closing == {"strict", "validate", "planned"}

\* Every action is at one stage and moves to the next one, stays, or fails.
LEMMA StageFacts ==
  /\ \A k \in EntityKinds : After[k] \in Indexing
  /\ After["start"] = "function" /\ After["references"] = "metrics"
  /\ \A s \in Signals : After[s] \in Signals \cup CrossChecks /\ First[s] \in SubPlanners
  /\ \A s \in SubPlanners : After[s] \in SubPlanners \cup Signals \cup CrossChecks
  /\ \A c \in CrossChecks : After[c] \in CrossChecks \cup {"budget"}
  /\ After["budget"] = "strict" /\ After["strict"] = "validate"
  /\ After["validate"] = "planned"
BY DEF After, First, EntityKinds, Indexing, Signals, CrossChecks, SubPlanners
------------------------------------------------------------------------------
(* The plan that leaves the planner *)

LEMMA InitSound == Init => PlanIsSound
BY DEF Init, PlanIsSound

LEMMA EntersPlanned ==
  ASSUME [Next]_vars, pc' = "planned", pc # "planned"
  PROVE  ValidatePlan /\ plan' = plan /\ input' = input
<1>1. Begin => pc' # "planned"
  BY StageFacts DEF Begin, Stopped, Fail, Goto
<1>2. IndexEntity => pc' # "planned"
  BY DEF IndexEntity, Stopped, Fail, Goto, EntityKinds
<1>3. IndexDone => pc' # "planned"
  BY StageFacts DEF IndexDone, Goto, EntityKinds, Indexing
<1>4. CheckReferences => pc' # "planned"
  BY StageFacts DEF CheckReferences, Goto
<1>5. BeginSignal => pc' # "planned"
  BY StageFacts DEF BeginSignal, Stopped, Fail, Goto, Signals, CrossChecks, SubPlanners
<1>6. PlanEntity => pc' # "planned"
  BY DEF PlanEntity, Stopped, Fail, Goto, SubPlanners
<1>7. FinishSubPlanner => pc' # "planned"
  BY StageFacts DEF FinishSubPlanner, Fail, Goto, Signals, CrossChecks, SubPlanners
<1>8. CrossCheck => pc' # "planned"
  BY StageFacts DEF CrossCheck, Goto, CrossChecks
<1>9. CheckBudget => pc' # "planned"
  BY StageFacts DEF CheckBudget, Fail, Goto
<1>10. CheckStrict => pc' # "planned"
  BY StageFacts DEF CheckStrict, Fail, Goto
<1>11. Cancel => pc' # "planned"
  BY DEF Cancel
<1>12. ~UNCHANGED vars
  BY DEF vars
<1>13. ValidatePlan
  BY <1>1, <1>2, <1>3, <1>4, <1>5, <1>6, <1>7, <1>8, <1>9, <1>10, <1>11, <1>12
     DEF Next, Step
<1> QED
  BY <1>13 DEF ValidatePlan, Fail, Goto

LEMMA StaysPlanned ==
  ASSUME [Next]_vars, pc = "planned"
  PROVE  UNCHANGED vars
BY DEF Next, Step, Begin, IndexEntity, IndexDone, CheckReferences, BeginSignal, PlanEntity,
       FinishSubPlanner, CrossCheck, CheckBudget, CheckStrict, ValidatePlan, Cancel,
       EntityKinds, Signals, SubPlanners, CrossChecks, Final

LEMMA NextSound == PlanIsSound /\ [Next]_vars => PlanIsSound'
<1> SUFFICES ASSUME PlanIsSound, [Next]_vars, pc' = "planned"
             PROVE  PlanIsSound'
  BY DEF PlanIsSound
<1>1. CASE pc = "planned"
  BY <1>1, StaysPlanned DEF PlanIsSound, vars, AllItems
<1>2. CASE pc # "planned"
  <2>1. ValidatePlan /\ AllItems' = AllItems
    BY <1>2, EntersPlanned DEF AllItems
  <2>2. /\ ~\E x, y \in AllItems : x # y /\ StableID(x) = StableID(y)
        /\ ~\E x \in AllItems : EntityKind(x.target.id) # x.target.kind
    BY <2>1 DEF ValidatePlan, Fail, Goto
  <2> QED
    BY <2>1, <2>2 DEF PlanIsSound
<1> QED
  BY <1>1, <1>2

\* Every plan handed over has unique IDs, and one target ID names one entity:
\* ValidatePlan alone guarantees it, whatever the cross-check has looked at.
THEOREM Soundness == Spec => []PlanIsSound
BY InitSound, NextSound, PTL DEF Spec
------------------------------------------------------------------------------
(* The budget of the metrics *)

BudgetInv == pc \in Closing => WithinLimits(plan["metrics"], input.policy)

LEMMA NextBudget == BudgetInv /\ [Next]_vars => BudgetInv'
<1> SUFFICES ASSUME BudgetInv, [Next]_vars PROVE BudgetInv'
  OBVIOUS
<1> USE DEF BudgetInv, Closing
<1>1. CASE Begin
  BY <1>1, StageFacts DEF Begin, Stopped, Fail, Goto
<1>2. CASE IndexEntity
  BY <1>2 DEF IndexEntity, Stopped, Fail, Goto, EntityKinds
<1>3. CASE IndexDone
  BY <1>3, StageFacts DEF IndexDone, Goto, EntityKinds, Indexing
<1>4. CASE CheckReferences
  BY <1>4, StageFacts DEF CheckReferences, Goto
<1>5. CASE BeginSignal
  BY <1>5, StageFacts DEF BeginSignal, Stopped, Fail, Goto, Signals, CrossChecks, SubPlanners
<1>6. CASE PlanEntity
  BY <1>6 DEF PlanEntity, Stopped, Fail, Goto, SubPlanners
<1>7. CASE FinishSubPlanner
  BY <1>7, StageFacts DEF FinishSubPlanner, Fail, Goto, Signals, CrossChecks, SubPlanners
<1>8. CASE CrossCheck
  BY <1>8, StageFacts DEF CrossCheck, Goto, CrossChecks
<1>9. CASE CheckBudget
  <2>1. CASE violations # {} \/ ~WithinLimits(plan["metrics"], input.policy)
    BY <1>9, <2>1 DEF CheckBudget, Fail, Goto
  <2>2. CASE ~(violations # {} \/ ~WithinLimits(plan["metrics"], input.policy))
    BY <1>9, <2>2 DEF CheckBudget
  <2> QED
    BY <2>1, <2>2
<1>10. CASE CheckStrict
  BY <1>10, StageFacts DEF CheckStrict, Fail, Goto
<1>11. CASE ValidatePlan
  BY <1>11, StageFacts DEF ValidatePlan, Fail, Goto
<1>12. CASE Cancel
  BY <1>12 DEF Cancel
<1>13. CASE UNCHANGED vars
  BY <1>13 DEF vars
<1> QED
  BY <1>1, <1>2, <1>3, <1>4, <1>5, <1>6, <1>7, <1>8, <1>9, <1>10, <1>11, <1>12, <1>13
     DEF Next, Step

\* A plan that leaves the planner keeps the instrument and series limits that
\* endpoint and dependency metrics share.
THEOREM Budget == Spec => []WithinBudget
<1>1. Init => BudgetInv
  BY DEF Init, BudgetInv, Closing
<1>2. BudgetInv => WithinBudget
  BY DEF BudgetInv, WithinBudget, Closing
<1> QED
  BY <1>1, <1>2, NextBudget, PTL DEF Spec
------------------------------------------------------------------------------
(* Cancellation *)

LEMMA CancelledStep ==
  ASSUME Next, cancelled, pc \in Early
  PROVE  pc' \in Early \cup {"failed"}
<1> USE DEF Early, Signals, EntityKinds
<1>1. CASE Begin
  BY <1>1 DEF Begin, Stopped, Fail, Goto
<1>2. CASE IndexEntity
  BY <1>2 DEF IndexEntity, Stopped, Fail, Goto
<1>3. CASE IndexDone
  BY <1>3, StageFacts DEF IndexDone, Goto, Indexing
<1>4. CASE CheckReferences
  BY <1>4, StageFacts DEF CheckReferences, Goto
<1>5. CASE BeginSignal
  BY <1>5 DEF BeginSignal, Stopped, Fail, Goto
<1>6. CASE PlanEntity
  BY <1>6 DEF PlanEntity, Stopped, Fail, Goto
<1>7. CASE FinishSubPlanner
  <2>1. \A s \in SubPlanners : SignalOf[s] # "logging" => After[s] \in Early
    BY DEF SubPlanners, SignalOf, After
  <2>2. pc \in SubPlanners /\ SignalOf[pc] # "logging"
    BY <1>7 DEF FinishSubPlanner, SubPlanners
  <2> QED
    BY <1>7, <2>1, <2>2 DEF FinishSubPlanner, Fail, Goto
<1>8. CASE CrossCheck \/ CheckBudget \/ CheckStrict \/ ValidatePlan
  BY <1>8 DEF CrossCheck, CheckBudget, CheckStrict, ValidatePlan, CrossChecks, SubPlanners
<1>9. CASE Cancel
  BY <1>9 DEF Cancel
<1> QED
  BY <1>1, <1>2, <1>3, <1>4, <1>5, <1>6, <1>7, <1>8, <1>9 DEF Next, Step

\* A call that is cancelled before its last signal begins never gets a plan.
THEOREM Cancellation == Spec => EarlyCancellationFails
<1>1. [Next]_vars => [cancelled /\ pc \in Early => pc' \in Early \cup {"failed"}]_vars
  BY CancelledStep
<1> QED
  BY <1>1, PTL DEF Spec, EarlyCancellationFails
------------------------------------------------------------------------------
(* Validation of the document *)

LEMMA DocumentFacts ==
  ASSUME input \in [doc : Documents, policy : Policies, wired : Wirings], NEW k \in EntityKinds
  PROVE  /\ input.doc[k] \in Seq(EntityFields[k])
         /\ Len(input.doc[k]) \in Nat
         /\ DOMAIN input.doc[k] = 1..Len(input.doc[k])
<1>1. input.doc[k] \in Seq(EntityFields[k])
  BY DocumentsAssumption
<1> QED
  BY <1>1

LEMMA FieldFacts ==
  ASSUME NEW k \in EntityKinds, NEW e \in EntityFields[k]
  PROVE  e.id \in Nat
<1>1. CASE k = "function"
  BY <1>1 DEF EntityFields
<1>2. CASE k = "endpoint"
  BY <1>2 DEF EntityFields
<1>3. CASE k = "dependency"
  BY <1>3 DEF EntityFields
<1>4. CASE k = "edge"
  BY <1>4 DEF EntityFields
<1> QED
  BY <1>1, <1>2, <1>3, <1>4 DEF EntityKinds

\* How much of the list of a kind the index covers.
Until == [function |-> {"start", "function"}, endpoint |-> {"start", "function", "endpoint"},
          dependency |-> {"start", "function", "endpoint", "dependency"},
          edge |-> {"start"} \cup EntityKinds]
Covered(k) ==
  IF pc = k THEN at - 1 ELSE IF pc \in Until[k] THEN 0 ELSE Len(input.doc[k])

\* The first n entities of a kind are in the index, each under an ID of its own.
Indexed(k, n) ==
  /\ index[k] = {input.doc[k][i].id : i \in 1..n}
  /\ \A i \in 1..n : input.doc[k][i].id # NoId
  /\ \A i, j \in 1..n : input.doc[k][i].id = input.doc[k][j].id => i = j

IndexInv ==
  /\ input \in [doc : Documents, policy : Policies, wired : Wirings]
  /\ index \in [EntityKinds -> SUBSET Nat]
  /\ at \in Nat \ {0}
  /\ pc \in EntityKinds => at <= Len(input.doc[pc]) + 1
  /\ (pc \in Indexing /\ violations = {}) => \A k \in EntityKinds : Indexed(k, Covered(k))
  /\ pc \notin Indexing \cup {"failed"} => WellFormed(input.doc)

LEMMA InitIndexed == Init => IndexInv
<1> SUFFICES ASSUME Init PROVE IndexInv
  OBVIOUS
<1>1. pc \notin EntityKinds /\ pc \in Indexing
  BY DEF Init, EntityKinds, Indexing
<1>2. ASSUME NEW k \in EntityKinds PROVE Indexed(k, Covered(k))
  <2>1. Covered(k) = 0 /\ index[k] = {}
    BY DEF Init, Covered, Until, EntityKinds
  <2> QED
    BY <2>1 DEF Indexed
<1> QED
  BY <1>1, <1>2 DEF Init, IndexInv

\* With no violation and the whole document indexed, every reference resolves.
LEMMA CheckedDocument ==
  ASSUME IndexInv, pc = "references", violations = {}, Dangling(input.doc, index) = {},
         Unspecified(input.doc) = {}
  PROVE  WellFormed(input.doc)
<1> DEFINE doc == input.doc
<1>1. \A k \in EntityKinds : Indexed(k, Len(doc[k]))
  BY DEF IndexInv, Indexing, Covered, Until, EntityKinds
<1>2. \A k \in EntityKinds : DOMAIN doc[k] = 1..Len(doc[k])
  BY DocumentFacts DEF IndexInv
<1>3. ASSUME NEW k \in EntityKinds
      PROVE  /\ \A id : Named(doc, k, id) <=> id \in index[k]
             /\ ~Named(doc, k, NoId)
             /\ \A i, j \in DOMAIN doc[k] : doc[k][i].id = doc[k][j].id => i = j
  BY <1>1, <1>2, <1>3 DEF Indexed, Named, Range
<1>4. ASSUME NEW k \in EntityKinds, NEW e \in Range(doc[k])
      PROVE  Unresolved(k, e, index) = {}
  <2>1. e.id # NoId
    BY <1>3, <1>4 DEF Named
  <2>2. Violation("GEN_DANGLING_REFERENCE", e.id) \notin Dangling(doc, index)
    OBVIOUS
  <2>3. ~(e \in {x \in Range(doc[k]) : x.id # NoId /\ Unresolved(k, x, index) # {}})
    BY <2>2 DEF Dangling
  <2> QED
    BY <2>1, <2>3
<1>5. \A f \in Range(doc.function) :
        /\ \A id \in f.endpoints : Named(doc, "endpoint", id)
        /\ \A id \in f.dependencies : Named(doc, "dependency", id)
        /\ \A id \in f.functions : Named(doc, "function", id)
  <2> SUFFICES ASSUME NEW f \in Range(doc.function)
               PROVE  /\ \A id \in f.endpoints : id \in index["endpoint"]
                      /\ \A id \in f.dependencies : id \in index["dependency"]
                      /\ \A id \in f.functions : id \in index["function"]
    BY <1>3 DEF EntityKinds
  <2>1. Unresolved("function", f, index) = {}
    BY <1>4 DEF EntityKinds
  <2> QED
    BY <2>1 DEF Unresolved
<1>6. \A k \in {"endpoint", "dependency"} : \A e \in Range(doc[k]) : Named(doc, "function", e.fn)
  <2> SUFFICES ASSUME NEW k \in {"endpoint", "dependency"}, NEW e \in Range(doc[k])
               PROVE  e.fn \in index["function"]
    BY <1>3 DEF EntityKinds
  <2>1. Unresolved(k, e, index) = {}
    BY <1>4 DEF EntityKinds
  <2> QED
    BY <2>1 DEF Unresolved
<1>7. \A c \in Range(doc.edge) : /\ Named(doc, "function", c.caller)
                                 /\ c.specified
                                 /\ c.resolved => Named(doc, "function", c.callee)
  <2> SUFFICES ASSUME NEW c \in Range(doc.edge)
               PROVE  /\ c.caller \in index["function"] /\ c.specified
                      /\ c.resolved => c.callee \in index["function"]
    BY <1>3 DEF EntityKinds
  <2>1. Unresolved("edge", c, index) = {}
    BY <1>4 DEF EntityKinds
  <2>2. c.specified
    <3>1. c.id # NoId
      BY <1>3 DEF Named, EntityKinds
    <3>2. Violation("GEN_INVALID_IR", c.id) \notin Unspecified(doc)
      OBVIOUS
    <3> QED
      BY <3>1, <3>2 DEF Unspecified
  <2> QED
    BY <2>1, <2>2 DEF Unresolved, Callees
<1> QED
  BY <1>3, <1>5, <1>6, <1>7 DEF WellFormed

LEMMA IndexEntityStep == IndexInv /\ IndexEntity => IndexInv'
<1> SUFFICES ASSUME IndexInv, IndexEntity PROVE IndexInv'
  OBVIOUS
<1>1. CASE Stopped
  BY <1>1 DEF IndexEntity, IndexInv, Stopped, Fail, Goto, Indexing, EntityKinds
<1>2. CASE ~Stopped
  <2> DEFINE id == input.doc[pc][at].id
  <2>1. /\ pc \in EntityKinds /\ at <= Len(input.doc[pc])
        /\ pc' = pc /\ at' = at + 1 /\ input' = input
    BY <1>2 DEF IndexEntity
  <2>2. Len(input.doc[pc]) \in Nat /\ id \in Nat
    <3>1. input.doc[pc] \in Seq(EntityFields[pc]) /\ Len(input.doc[pc]) \in Nat
      BY <2>1, DocumentFacts DEF IndexInv
    <3>2. input.doc[pc][at] \in EntityFields[pc]
      BY <2>1, <3>1 DEF IndexInv
    <3> QED
      BY <2>1, <3>1, <3>2, FieldFacts
  <2>3. CASE id = NoId \/ id \in index[pc]
    <3>1. violations' # {} /\ index' = index
      BY <1>2, <2>3 DEF IndexEntity
    <3> QED
      BY <2>1, <2>2, <3>1 DEF IndexInv, Indexing
  <2>4. CASE ~(id = NoId \/ id \in index[pc])
    <3>1. violations' = violations /\ index' = [index EXCEPT ![pc] = @ \cup {id}]
      BY <1>2, <2>4 DEF IndexEntity
    <3>2. ASSUME violations = {}, NEW k \in EntityKinds PROVE Indexed(k, Covered(k))'
      <4>1. Indexed(k, Covered(k))
        BY <2>1, <3>2 DEF IndexInv, Indexing
      <4>2. CASE k = pc
        <5>1. Covered(k) = at - 1 /\ Covered(k)' = at
          BY <2>1, <4>2 DEF Covered, IndexInv
        <5>2. 1..at = (1..(at - 1)) \cup {at}
          BY DEF IndexInv
        <5>3. index'[k] = {input.doc[k][i].id : i \in 1..at}
          BY <2>1, <3>1, <4>1, <4>2, <5>1, <5>2 DEF IndexInv, Indexed
        <5>4. \A i \in 1..(at - 1) : input.doc[k][i].id # id
          BY <2>4, <4>1, <4>2, <5>1 DEF Indexed
        <5>5. \A i \in 1..at : input.doc[k][i].id # NoId
          BY <2>4, <4>1, <4>2, <5>1, <5>2 DEF Indexed
        <5>6. ASSUME NEW i \in 1..at, NEW j \in 1..at, input.doc[k][i].id = input.doc[k][j].id
              PROVE  i = j
          <6>1. CASE i = at \/ j = at
            BY <4>2, <5>2, <5>4, <5>6, <6>1
          <6>2. CASE i \in 1..(at - 1) /\ j \in 1..(at - 1)
            BY <4>1, <5>1, <5>6, <6>2 DEF Indexed
          <6> QED
            BY <5>2, <6>1, <6>2
        <5> QED
          BY <2>1, <5>1, <5>3, <5>5, <5>6 DEF Indexed
      <4>3. CASE k # pc
        <5>1. Covered(k)' = Covered(k) /\ index'[k] = index[k]
          BY <2>1, <3>1, <4>3 DEF Covered, IndexInv
        <5> QED
          BY <2>1, <4>1, <5>1 DEF Indexed
      <4> QED
        BY <4>2, <4>3
    <3> QED
      BY <2>1, <2>2, <3>1, <3>2 DEF IndexInv, Indexing
  <2> QED
    BY <2>3, <2>4
<1> QED
  BY <1>1, <1>2

LEMMA IndexDoneStep == IndexInv /\ IndexDone => IndexInv'
<1> SUFFICES ASSUME IndexInv, IndexDone PROVE IndexInv'
  OBVIOUS
<1>1. /\ pc \in EntityKinds /\ at > Len(input.doc[pc])
      /\ pc' = After[pc] /\ at' = 1
      /\ UNCHANGED <<input, index, violations>>
  BY DEF IndexDone, Goto
<1>2. Len(input.doc[pc]) \in Nat /\ at = Len(input.doc[pc]) + 1
  BY <1>1, DocumentFacts DEF IndexInv
<1>3. \A k \in EntityKinds : Covered(k)' = Covered(k)
  BY <1>1, <1>2 DEF Covered, Until, After, EntityKinds
<1>4. pc' \in Indexing
  BY <1>1, StageFacts
<1>5. pc' \in EntityKinds => at' <= Len(input'.doc[pc']) + 1
  BY <1>1, DocumentFacts DEF IndexInv
<1> QED
  BY <1>1, <1>3, <1>4, <1>5 DEF IndexInv, Indexed, Indexing

LEMMA NextIndexed == IndexInv /\ [Next]_vars => IndexInv'
<1> SUFFICES ASSUME IndexInv, [Next]_vars PROVE IndexInv'
  OBVIOUS
<1> DEFINE Later(s) == s \notin Indexing
<1>1. CASE Begin
  <2>1. CASE pc' = "failed" /\ at' = 1
    BY <1>1, <2>1 DEF Begin, IndexInv, Stopped, Fail, Indexing, EntityKinds
  <2>2. CASE ~(pc' = "failed" /\ at' = 1)
    <3>1. pc = "start" /\ pc' = "function" /\ at' = 1 /\ UNCHANGED <<input, index, violations>>
      BY <1>1, <2>2, StageFacts DEF Begin, Stopped, Fail, Goto
    <3>2. \A k \in EntityKinds : Covered(k)' = Covered(k)
      BY <3>1 DEF Covered, Until, EntityKinds
    <3>3. at' <= Len(input'.doc["function"]) + 1
      BY <3>1, DocumentFacts DEF IndexInv, EntityKinds
    <3> QED
      BY <3>1, <3>2, <3>3 DEF IndexInv, Indexed, Indexing, EntityKinds
  <2> QED
    BY <2>1, <2>2
<1>2. CASE IndexEntity
  BY <1>2, IndexEntityStep
<1>3. CASE IndexDone
  BY <1>3, IndexDoneStep
<1>4. CASE CheckReferences
  <2>1. CASE violations \cup Dangling(input.doc, index) \cup Unspecified(input.doc) # {}
    BY <1>4, <2>1 DEF CheckReferences, Goto, IndexInv, Indexing, EntityKinds
  <2>2. CASE violations \cup Dangling(input.doc, index) \cup Unspecified(input.doc) = {}
    <3>1. WellFormed(input.doc)
      BY <1>4, <2>2, CheckedDocument DEF CheckReferences
    <3>2. pc' = "metrics" /\ at' = 1 /\ UNCHANGED <<input, index>>
      BY <1>4, <2>2, StageFacts DEF CheckReferences, Goto
    <3> QED
      BY <3>1, <3>2 DEF IndexInv, Indexing, EntityKinds
  <2> QED
    BY <2>1, <2>2
<1>5. ASSUME BeginSignal \/ PlanEntity \/ FinishSubPlanner \/ CrossCheck \/ CheckBudget
               \/ CheckStrict \/ ValidatePlan
      PROVE  /\ pc \notin Indexing \cup {"failed"} /\ pc' \notin Indexing
             /\ at' \in Nat \ {0} /\ UNCHANGED <<input, index>>
  <2> USE StageFacts DEF IndexInv, Indexing, EntityKinds, Stopped, Fail, Goto, Signals,
          SubPlanners, CrossChecks
  <2>1. CASE BeginSignal
    BY <2>1 DEF BeginSignal
  <2>2. CASE PlanEntity
    BY <2>2 DEF PlanEntity
  <2>3. CASE FinishSubPlanner
    BY <2>3 DEF FinishSubPlanner
  <2>4. CASE CrossCheck
    BY <2>4 DEF CrossCheck
  <2>5. CASE CheckBudget
    BY <2>5 DEF CheckBudget
  <2>6. CASE CheckStrict
    BY <2>6 DEF CheckStrict
  <2>7. CASE ValidatePlan
    BY <2>7 DEF ValidatePlan
  <2> QED
    BY <1>5, <2>1, <2>2, <2>3, <2>4, <2>5, <2>6, <2>7
<1>6. CASE BeginSignal \/ PlanEntity \/ FinishSubPlanner \/ CrossCheck \/ CheckBudget
             \/ CheckStrict \/ ValidatePlan
  BY <1>5, <1>6 DEF IndexInv, Indexing
<1>7. CASE Cancel \/ UNCHANGED vars
  <2>1. UNCHANGED <<input, pc, at, index, violations>>
    BY <1>7 DEF Cancel, vars
  <2> QED
    BY <2>1 DEF IndexInv, Indexed, Covered
<1> QED
  BY <1>1, <1>2, <1>3, <1>4, <1>6, <1>7 DEF Next, Step

\* A document is planned only if its IDs are unique by kind and its references
\* resolve, however long its lists are.
THEOREM Validation == Spec => []InvalidDocumentsRefused
<1>1. IndexInv => InvalidDocumentsRefused
  BY DEF IndexInv, InvalidDocumentsRefused, Indexing, EntityKinds
<1> QED
  BY <1>1, InitIndexed, NextIndexed, PTL DEF Spec
-----------------------------------------------------------------------------
(* The complete plan or none *)

\* The place of a stage in the call.
Rank == [start |-> 0, function |-> 1, endpoint |-> 2, dependency |-> 3, edge |-> 4,
         references |-> 5, metrics |-> 6, endpoint_metrics |-> 7, dependency_metrics |-> 8,
         tracing |-> 9, root_spans |-> 10, child_spans |-> 11, internal_spans |-> 12,
         logging |-> 13, endpoint_logs |-> 14, dependency_logs |-> 15, cross_metrics |-> 16,
         cross_tracing |-> 17, cross_logging |-> 18, budget |-> 19, strict |-> 20,
         validate |-> 21, planned |-> 22, failed |-> 23]

\* The sub-planners of a signal that have finished at a stage.
Behind(signal, stage) == {t \in SubPlanners : SignalOf[t] = signal /\ Rank[t] < Rank[stage]}

\* What the plan holds of each signal before the call is over.
PlanAt(in, stage) ==
  [signal \in Signals |->
     IF signal \notin in.policy.signals THEN {}
     ELSE UNION {Whole(s, in) : s \in Behind(signal, stage)}]

\* What the first n entities of a sub-planner's list have yielded.
Yielded(s, in, n) == UNION {PlanOf(s, in, Entities(s, in)[i]).items : i \in 1..n}

PartInv ==
  IF pc \in SubPlanners
    THEN /\ SignalOf[pc] \in input.policy.signals
         /\ at <= Len(Entities(pc, input)) + 1
         /\ part.items = Yielded(pc, input, at - 1)
    ELSE part = Nothing

AnswerInv ==
  /\ IndexInv
  /\ pc \in Stages
  /\ pc # "failed" => plan = PlanAt(input, pc) /\ PartInv

LEMMA ListFacts ==
  ASSUME IndexInv, NEW s \in SubPlanners
  PROVE  /\ Len(Entities(s, input)) \in Nat
         /\ DOMAIN Entities(s, input) = 1..Len(Entities(s, input))
<1>1. SourceOf[s] \in EntityKinds
  BY DEF SourceOf, EntityKinds
<1> QED
  BY <1>1, DocumentFacts DEF Entities, IndexInv

\* A stage that is no sub-planner's has nothing of its own behind it.
LEMMA BehindFacts ==
  /\ \A signal \in Signals, s \in Indexing \ {"references"} :
       Behind(signal, After[s]) = Behind(signal, s)
  /\ \A signal \in Signals : Behind(signal, "metrics") = Behind(signal, "references")
  /\ \A signal \in Signals : Behind(signal, "start") = {}
  /\ \A signal \in Signals, s \in Signals :
       /\ Behind(signal, First[s]) = Behind(signal, s)
       /\ signal # s => Behind(signal, After[s]) = Behind(signal, s)
  /\ \A signal \in Signals, s \in SubPlanners :
       Behind(signal, After[s]) =
         Behind(signal, s) \cup (IF SignalOf[s] = signal THEN {s} ELSE {})
  /\ \A signal \in Signals, s \in CrossChecks \cup {"budget", "strict", "validate", "planned"} :
       Behind(signal, s) = {t \in SubPlanners : SignalOf[t] = signal}
<1> USE DEF Behind, Rank, SubPlanners, SignalOf, Signals
<1>1. \A signal \in Signals, s \in Indexing \ {"references"} :
        Behind(signal, After[s]) = Behind(signal, s)
  BY DEF After, Indexing, EntityKinds
<1>2. \A signal \in Signals : Behind(signal, "metrics") = Behind(signal, "references")
  OBVIOUS
<1>3. \A signal \in Signals : Behind(signal, "start") = {}
  OBVIOUS
<1>4. \A signal \in Signals, s \in Signals :
        /\ Behind(signal, First[s]) = Behind(signal, s)
        /\ signal # s => Behind(signal, After[s]) = Behind(signal, s)
  BY DEF After, First
<1>5. \A signal \in Signals, s \in SubPlanners :
        Behind(signal, After[s]) =
          Behind(signal, s) \cup (IF SignalOf[s] = signal THEN {s} ELSE {})
  BY DEF After
<1>6. \A signal \in Signals, s \in CrossChecks \cup {"budget", "strict", "validate", "planned"} :
        Behind(signal, s) = {t \in SubPlanners : SignalOf[t] = signal}
  BY DEF CrossChecks
<1> QED
  BY <1>1, <1>2, <1>3, <1>4, <1>5, <1>6
------------------------------------------------------------------------------
(* The invariant *)

LEMMA InitAnswer == Init => AnswerInv
<1> SUFFICES ASSUME Init PROVE AnswerInv
  OBVIOUS
<1>1. pc = "start" /\ pc \in Stages /\ pc \notin SubPlanners
  BY DEF Init, Stages, SubPlanners
<1>2. plan = PlanAt(input, "start")
  BY BehindFacts DEF Init, EmptyPlan, PlanAt
<1> QED
  BY <1>1, <1>2, InitIndexed DEF AnswerInv, PartInv, Init

LEMMA StageTypes ==
  /\ \A k \in EntityKinds : After[k] \in Stages \ SubPlanners
  /\ \A s \in Signals : After[s] \in Stages \ SubPlanners /\ First[s] \in Stages
  /\ \A s \in Signals : SignalOf[First[s]] = s
  /\ \A s \in SubPlanners : /\ SignalOf[s] \in Signals /\ After[s] \in Stages
                            /\ After[s] \in SubPlanners => SignalOf[After[s]] = SignalOf[s]
  /\ \A c \in CrossChecks : After[c] \in Stages
  /\ {"function", "metrics", "budget", "strict", "validate", "planned", "failed"}
       \subseteq Stages \ SubPlanners
BY DEF After, First, SignalOf, Stages, Final, EntityKinds, Signals, SubPlanners, CrossChecks

\* A step that leaves the plan alone, to a stage with the same behind it.
LEMMA KeepsPlan ==
  ASSUME AnswerInv, pc # "failed", UNCHANGED <<input, plan>>,
         \A signal \in input.policy.signals \cap Signals : Behind(signal, pc') = Behind(signal, pc)
  PROVE  plan' = PlanAt(input', pc')
<1>1. plan = PlanAt(input, pc)
  BY DEF AnswerInv
<1>2. PlanAt(input', pc') = PlanAt(input, pc)
  <2>1. ASSUME NEW signal \in Signals
        PROVE  PlanAt(input, pc')[signal] = PlanAt(input, pc)[signal]
    <3>1. CASE signal \in input.policy.signals
      <4>1. Behind(signal, pc') = Behind(signal, pc)
        BY <3>1
      <4> QED
        BY <4>1 DEF PlanAt
    <3>2. CASE signal \notin input.policy.signals
      BY <3>2 DEF PlanAt
    <3> QED
      BY <3>1, <3>2
  <2>2. PlanAt(input, pc') = [signal \in Signals |-> PlanAt(input, pc')[signal]]
    BY DEF PlanAt
  <2>3. PlanAt(input, pc) = [signal \in Signals |-> PlanAt(input, pc)[signal]]
    BY DEF PlanAt
  <2>4. PlanAt(input', pc') = PlanAt(input, pc')
    OBVIOUS
  <2> QED
    BY <2>1, <2>2, <2>3, <2>4
<1> QED
  BY <1>1, <1>2

LEMMA PlanEntityAnswer ==
  ASSUME AnswerInv, PlanEntity, ~Stopped
  PROVE  PartInv' /\ plan' = PlanAt(input', pc')
<1> DEFINE n == Len(Entities(pc, input))
<1>1. /\ pc \in SubPlanners /\ pc' = pc /\ at <= n /\ at' = at + 1
      /\ UNCHANGED <<input, plan>>
      /\ part' = Plus(part, PlanOf(pc, input, Entities(pc, input)[at]))
  BY DEF PlanEntity
<1>2. PartInv /\ pc # "failed" /\ n \in Nat /\ at \in Nat \ {0}
  BY <1>1, ListFacts DEF AnswerInv, IndexInv, SubPlanners
<1>3. 1..at = (1..(at - 1)) \cup {at}
  BY <1>2
<1>4. part'.items = Yielded(pc, input, at)
  <2>1. part'.items = part.items \cup PlanOf(pc, input, Entities(pc, input)[at]).items
    BY <1>1 DEF Plus
  <2>2. Yielded(pc, input, at) = Yielded(pc, input, at - 1) \cup PlanOf(pc, input, Entities(pc, input)[at]).items
    BY <1>3 DEF Yielded
  <2> QED
    BY <1>1, <1>2, <2>1, <2>2 DEF PartInv
<1>5. Yielded(pc', input', at' - 1) = Yielded(pc, input, at)
  BY <1>1, <1>2 DEF Yielded
<1>6. PartInv'
  BY <1>1, <1>2, <1>4, <1>5 DEF PartInv
<1> QED
  BY <1>1, <1>2, <1>6, KeepsPlan

LEMMA FinishAnswer ==
  ASSUME AnswerInv, FinishSubPlanner, pc' # "failed"
  PROVE  PartInv' /\ plan' = PlanAt(input', pc')
<1> DEFINE s == pc
           signal == SignalOf[s]
           named == IF s \in Disambiguated THEN Disambiguate(part.items) ELSE part.items
<1>1. /\ s \in SubPlanners /\ at > Len(Entities(s, input))
      /\ plan' = [plan EXCEPT ![signal] = @ \cup named]
      /\ part' = Nothing /\ pc' = After[s] /\ at' = 1 /\ input' = input
  BY DEF FinishSubPlanner, Fail, Goto
<1>2. /\ PartInv /\ plan = PlanAt(input, s) /\ signal \in Signals /\ signal \in input.policy.signals
      /\ at \in Nat \ {0}
  BY <1>1, StageTypes DEF AnswerInv, IndexInv, PartInv, SubPlanners
<1>3. named = Whole(s, input)
  <2>1. at - 1 = Len(Entities(s, input))
    BY <1>1, <1>2, ListFacts DEF PartInv, AnswerInv
  <2>2. Yielded(s, input, at - 1) = UNION {PlanOf(s, input, e).items : e \in Range(Entities(s, input))}
    <3>1. Range(Entities(s, input)) = {Entities(s, input)[i] : i \in 1..(at - 1)}
      BY <1>1, <2>1, ListFacts DEF AnswerInv, Range
    <3> QED
      BY <3>1 DEF Yielded
  <2> QED
    BY <1>1, <1>2, <2>2 DEF PartInv, Whole
<1>4. plan' = PlanAt(input', pc')
  <2>1. PlanAt(input', pc') = PlanAt(input, After[s])
    BY <1>1 DEF PlanAt
  <2>2. plan' = [plan EXCEPT ![signal] = @ \cup Whole(s, input)]
    BY <1>1, <1>3
  <2>3. ASSUME NEW sig \in Signals PROVE plan'[sig] = PlanAt(input, After[s])[sig]
    <3>1. Behind(sig, After[s]) = Behind(sig, s) \cup (IF signal = sig THEN {s} ELSE {})
      BY <1>1, BehindFacts
    <3>2. CASE sig = signal
      <4> DEFINE done == {Whole(t, input) : t \in Behind(sig, s)}
      <4>1. plan'[sig] = (UNION done) \cup Whole(s, input)
        BY <1>2, <2>2, <3>2 DEF PlanAt
      <4>2. Behind(sig, After[s]) = Behind(sig, s) \cup {s}
        BY <3>1, <3>2
      <4>3. {Whole(t, input) : t \in Behind(sig, After[s])} = done \cup {Whole(s, input)}
        BY <4>2
      <4>4. PlanAt(input, After[s])[sig] = UNION {Whole(t, input) : t \in Behind(sig, After[s])}
        BY <1>2, <3>2 DEF PlanAt
      <4> QED
        BY <4>1, <4>3, <4>4
    <3>3. CASE sig # signal
      <4>1. Behind(sig, After[s]) = Behind(sig, s)
        BY <3>1, <3>3
      <4> QED
        BY <1>2, <2>2, <3>3, <4>1 DEF PlanAt
    <3> QED
      BY <3>2, <3>3
  <2> QED
    BY <1>2, <2>1, <2>2, <2>3 DEF PlanAt
<1>5. PartInv'
  <2>1. CASE After[s] \in SubPlanners
    <3>1. Len(Entities(After[s], input)) \in Nat
      BY <2>1, ListFacts DEF AnswerInv
    <3>2. part'.items = {} /\ Yielded(After[s], input, 0) = {}
      BY <1>1 DEF Nothing, Yielded
    <3>3. SignalOf[After[s]] \in input.policy.signals
      BY <1>1, <1>2, <2>1, StageTypes
    <3>4. Yielded(pc', input', at' - 1) = Yielded(After[s], input, 0)
      BY <1>1 DEF Yielded
    <3> QED
      BY <1>1, <2>1, <3>1, <3>2, <3>3, <3>4 DEF PartInv
  <2>2. CASE After[s] \notin SubPlanners
    BY <1>1, <2>2 DEF PartInv
  <2> QED
    BY <2>1, <2>2
<1> QED
  BY <1>4, <1>5

LEMMA BeginSignalAnswer ==
  ASSUME AnswerInv, BeginSignal, pc' # "failed"
  PROVE  PartInv' /\ plan' = PlanAt(input', pc')
<1>1. /\ pc \in Signals /\ pc \notin SubPlanners /\ at' = 1
      /\ UNCHANGED <<input, part, plan>> /\ part = Nothing
  BY DEF BeginSignal, Stopped, Fail, Goto, AnswerInv, PartInv, Signals, SubPlanners
<1>2. CASE pc \notin input.policy.signals
  <2>1. pc' = After[pc] /\ pc' \notin SubPlanners
    BY <1>1, <1>2, StageTypes DEF BeginSignal, Stopped, Fail, Goto
  <2>2. \A signal \in input.policy.signals \cap Signals :
          Behind(signal, pc') = Behind(signal, pc)
    BY <1>1, <1>2, <2>1, BehindFacts
  <2> QED
    BY <1>1, <2>1, <2>2, KeepsPlan DEF PartInv, Signals
<1>3. CASE pc \in input.policy.signals
  <2>1. pc' = First[pc]
    BY <1>1, <1>3 DEF BeginSignal, Stopped, Fail, Goto
  <2>2. \A signal \in input.policy.signals \cap Signals :
          Behind(signal, pc') = Behind(signal, pc)
    BY <1>1, <2>1, BehindFacts
  <2>3. pc' \in SubPlanners /\ SignalOf[pc'] \in input.policy.signals
    BY <1>1, <1>3, <2>1, StageFacts, StageTypes
  <2>4. Len(Entities(pc', input)) \in Nat
    BY <2>3, ListFacts DEF AnswerInv
  <2>5. Yielded(pc', input, 0) = {} /\ part.items = {}
    BY <1>1 DEF Yielded, Nothing
  <2> QED
    BY <1>1, <2>2, <2>3, <2>4, <2>5, KeepsPlan DEF PartInv, Signals
<1> QED
  BY <1>2, <1>3

\* What the stages that plan nothing leave alone.
Same == /\ pc \notin SubPlanners \cup {"failed"} /\ pc' \notin SubPlanners
        /\ UNCHANGED <<input, part, plan, diagnostics, skipped>>
        /\ \A signal \in Signals : Behind(signal, pc') = Behind(signal, pc)

LEMMA OtherStays ==
  ASSUME pc' # "failed",
         Begin \/ IndexEntity \/ IndexDone \/ CheckReferences \/ CrossCheck \/ CheckBudget
           \/ CheckStrict \/ ValidatePlan
  PROVE  Same
<1> USE DEF Same
<1>1. Begin => Same
  BY StageTypes, StageFacts, BehindFacts
     DEF Begin, Stopped, Fail, Goto, SubPlanners, Indexing
<1>2. IndexEntity => Same
  BY DEF IndexEntity, Stopped, Fail, Goto, SubPlanners, EntityKinds
<1>3. IndexDone => Same
  BY StageTypes, BehindFacts DEF IndexDone, Goto, EntityKinds, Indexing, SubPlanners
<1>4. CheckReferences => Same
  BY StageFacts, StageTypes, BehindFacts DEF CheckReferences, Goto, SubPlanners
<1>5. CrossCheck => Same
  <2> SUFFICES ASSUME CrossCheck PROVE Same
    OBVIOUS
  <2>1. /\ pc \in CrossChecks /\ pc' \in {After[pc], "budget"}
        /\ UNCHANGED <<input, part, plan, diagnostics, skipped>>
    BY DEF CrossCheck, Goto
  <2>2. pc' \in CrossChecks \cup {"budget"}
    BY <2>1, StageFacts
  <2>3. \A signal \in Signals : Behind(signal, pc') = Behind(signal, pc)
    BY <2>1, <2>2, BehindFacts
  <2>4. pc \notin SubPlanners \cup {"failed"} /\ pc' \notin SubPlanners
    BY <2>1, <2>2 DEF CrossChecks, SubPlanners
  <2> QED
    BY <2>1, <2>3, <2>4
<1>6. CheckBudget => /\ pc = "budget" /\ pc' = "strict"
                     /\ UNCHANGED <<input, part, plan, diagnostics, skipped>>
  BY StageFacts DEF CheckBudget, Fail, Goto
<1>7. CheckStrict => /\ pc = "strict" /\ pc' = "validate"
                     /\ UNCHANGED <<input, part, plan, diagnostics, skipped>>
  BY StageFacts DEF CheckStrict, Fail, Goto
<1>8. ValidatePlan => /\ pc = "validate" /\ pc' = "planned"
                      /\ UNCHANGED <<input, part, plan, diagnostics, skipped>>
  BY StageFacts DEF ValidatePlan, Fail, Goto
<1>9. CheckBudget \/ CheckStrict \/ ValidatePlan => Same
  <2> DEFINE Late == {"budget", "strict", "validate", "planned"}
  <2>1. Late \cap (SubPlanners \cup {"failed"}) = {}
    BY DEF SubPlanners
  <2>2. \A s \in Late : \A signal \in Signals :
          Behind(signal, s) = {t \in SubPlanners : SignalOf[t] = signal}
    BY BehindFacts
  <2> QED
    BY <1>6, <1>7, <1>8, <2>1, <2>2
<1>10. Same
  BY <1>1, <1>2, <1>3, <1>4, <1>5, <1>9
<1> QED
  BY <1>10

LEMMA OtherAnswer ==
  ASSUME AnswerInv, pc' # "failed",
         Begin \/ IndexEntity \/ IndexDone \/ CheckReferences \/ CrossCheck \/ CheckBudget
           \/ CheckStrict \/ ValidatePlan
  PROVE  PartInv' /\ plan' = PlanAt(input', pc')
<1>1. Same
  BY OtherStays
<1> QED
  BY <1>1, KeepsPlan DEF Same, AnswerInv, PartInv

LEMMA StageStep == AnswerInv /\ [Next]_vars => pc' \in Stages
<1> SUFFICES ASSUME AnswerInv, [Next]_vars PROVE pc' \in Stages
  OBVIOUS
<1> USE StageFacts, StageTypes DEF Stopped, Fail, Goto
<1>1. CASE Begin
  BY <1>1 DEF Begin
<1>2. CASE IndexEntity
  BY <1>2 DEF IndexEntity, AnswerInv
<1>3. CASE IndexDone
  BY <1>3 DEF IndexDone
<1>4. CASE CheckReferences
  BY <1>4 DEF CheckReferences
<1>5. CASE BeginSignal
  BY <1>5 DEF BeginSignal
<1>6. CASE PlanEntity
  BY <1>6 DEF PlanEntity, AnswerInv
<1>7. CASE FinishSubPlanner
  BY <1>7 DEF FinishSubPlanner
<1>8. CASE CrossCheck
  BY <1>8 DEF CrossCheck
<1>9. CASE CheckBudget
  BY <1>9 DEF CheckBudget
<1>10. CASE CheckStrict
  BY <1>10 DEF CheckStrict
<1>11. CASE ValidatePlan
  BY <1>11 DEF ValidatePlan
<1>12. CASE Cancel
  BY <1>12 DEF Cancel, AnswerInv
<1>13. CASE UNCHANGED vars
  BY <1>13 DEF vars, AnswerInv
<1> QED
  BY <1>1, <1>2, <1>3, <1>4, <1>5, <1>6, <1>7, <1>8, <1>9, <1>10, <1>11, <1>12, <1>13
     DEF Next, Step

LEMMA NextAnswer == AnswerInv /\ [Next]_vars => AnswerInv'
<1> SUFFICES ASSUME AnswerInv, [Next]_vars PROVE AnswerInv'
  OBVIOUS
<1>1. IndexInv' /\ pc' \in Stages
  BY NextIndexed, StageStep DEF AnswerInv
<1>2. ASSUME pc' # "failed" PROVE PartInv' /\ plan' = PlanAt(input', pc')
  <2>1. CASE BeginSignal
    BY <1>2, <2>1, BeginSignalAnswer
  <2>2. CASE PlanEntity
    <3>1. ~Stopped
      BY <1>2 DEF Stopped, Fail, Goto
    <3> QED
      BY <2>2, <3>1, PlanEntityAnswer
  <2>3. CASE FinishSubPlanner
    BY <1>2, <2>3, FinishAnswer
  <2>4. CASE Begin \/ IndexEntity \/ IndexDone \/ CheckReferences \/ CrossCheck \/ CheckBudget
               \/ CheckStrict \/ ValidatePlan
    BY <1>2, <2>4, OtherAnswer
  <2>5. CASE Cancel \/ UNCHANGED vars
    <3>1. UNCHANGED <<input, pc, at, part, plan>>
      BY <2>5 DEF Cancel, vars
    <3> QED
      BY <1>2, <3>1 DEF AnswerInv, PartInv
  <2> QED
    BY <2>1, <2>2, <2>3, <2>4, <2>5 DEF Next, Step
<1> QED
  BY <1>1, <1>2 DEF AnswerInv
------------------------------------------------------------------------------
(* The refinement *)

\* With every sub-planner behind it the plan is complete.
LEMMA PlannedIsComplete ==
  ASSUME NEW in, WellFormed(in.doc)
  PROVE  PlanAt(in, "planned") = CompletePlan(in)
<1>1. \A signal \in Signals : Behind(signal, "planned") = {t \in SubPlanners : SignalOf[t] = signal}
  BY BehindFacts
<1> QED
  BY <1>1 DEF PlanAt, CompletePlan

LEMMA StaysFailed ==
  ASSUME [Next]_vars, pc = "failed"
  PROVE  UNCHANGED vars
BY DEF Next, Step, Begin, IndexEntity, IndexDone, CheckReferences, BeginSignal, PlanEntity,
       FinishSubPlanner, CrossCheck, CheckBudget, CheckStrict, ValidatePlan, Cancel,
       EntityKinds, Signals, SubPlanners, CrossChecks, Final

\* The answer of the refinement mapping.
Given == IF pc = "planned" THEN [kind |-> "result", result |-> plan]
         ELSE IF pc = "failed" THEN [kind |-> "refusal"] ELSE [kind |-> "none"]

LEMMA InputStays == [Next]_vars => input' = input
BY DEF Next, Step, Begin, IndexEntity, IndexDone, CheckReferences, BeginSignal, PlanEntity,
       FinishSubPlanner, CrossCheck, CheckBudget, CheckStrict, ValidatePlan, Cancel, vars

LEMMA AnswerStep ==
  ASSUME AnswerInv, AnswerInv', [Next]_vars
  PROVE  [Call!Reply]_<<input, Given>>
<1>1. input' = input
  BY InputStays
<1>2. CASE pc \in {"planned", "failed"}
  <2>1. UNCHANGED vars
    BY <1>2, StaysPlanned, StaysFailed
  <2> QED
    BY <2>1 DEF vars, Given
<1>3. CASE pc \notin {"planned", "failed"} /\ pc' = "planned"
  <2>1. plan' = CompletePlan(input)
    <3>1. WellFormed(input'.doc)
      BY <1>3 DEF AnswerInv, IndexInv, Indexing, EntityKinds
    <3>2. plan' = PlanAt(input', "planned")
      BY <1>3 DEF AnswerInv
    <3> QED
      BY <1>1, <3>1, <3>2, PlannedIsComplete
  <2> QED
    BY <1>1, <1>3, <2>1 DEF Given, Call!Reply, Call!NoAnswer, Call!Result
<1>4. CASE pc \notin {"planned", "failed"} /\ pc' = "failed"
  BY <1>1, <1>4 DEF Given, Call!Reply, Call!NoAnswer, Call!Refusal
<1>5. CASE pc \notin {"planned", "failed"} /\ pc' \notin {"planned", "failed"}
  BY <1>1, <1>5 DEF Given
<1> QED
  BY <1>2, <1>3, <1>4, <1>5

\* Wherever the caller cancels and whatever fails, the caller of Plan gets the
\* complete plan of the enabled signals or no plan.
THEOREM Completeness == Spec => CompleteOrNothing
<1>1. Init => Call!Init
  BY DEF Init, Call!Init, Call!NoAnswer
<1>2. AnswerInv /\ AnswerInv' /\ [Next]_vars => [Call!Reply]_<<input, Given>>
  BY AnswerStep
<1> QED
  BY <1>1, <1>2, InitAnswer, NextAnswer, PTL DEF Spec, CompleteOrNothing, Call!Spec, Given
------------------------------------------------------------------------------
(* What one entity yields *)

LEMMA EntityFacts ==
  ASSUME IndexInv, NEW s \in SubPlanners, NEW e \in Range(Entities(s, input))
  PROVE  e \in Range(input.doc[SourceOf[s]]) /\ e \in EntityFields[SourceOf[s]] /\ e.id \in Nat
<1>1. e \in Range(input.doc[SourceOf[s]])
  BY DEF Entities, Range
<1>2. input.doc[SourceOf[s]] \in Seq(EntityFields[SourceOf[s]])
  BY SubPlannerFacts, DocumentFacts DEF IndexInv
<1>3. e \in EntityFields[SourceOf[s]]
  BY <1>1, <1>2 DEF Range
<1> QED
  BY <1>1, <1>3, SubPlannerFacts, FieldFacts

------------------------------------------------------------------------------
(* Distinct names *)

\* In a finished plan the signal and the kind of target tell the sub-planner.
LEMMA PlannedItems ==
  ASSUME AnswerInv, pc = "planned", NEW s \in SubPlanners, NEW x \in plan[SignalOf[s]],
         x.target.kind = SourceOf[s]
  PROVE  x \in Whole(s, input) /\ SignalOf[s] \in input.policy.signals
<1>1. plan = PlanAt(input, "planned") /\ SignalOf[s] \in Signals
  BY SubPlannerFacts DEF AnswerInv
<1>2. SignalOf[s] \in input.policy.signals
  BY <1>1 DEF PlanAt
<1>3. x \in UNION {Whole(t, input) : t \in Behind(SignalOf[s], "planned")}
  BY <1>1, <1>2 DEF PlanAt
<1>4. PICK t \in SubPlanners : SignalOf[t] = SignalOf[s] /\ x \in Whole(t, input)
  BY <1>3 DEF Behind
<1>5. PICK e, y : /\ e \in Range(Entities(t, input)) /\ y \in PlanOf(t, input, e).items
                  /\ x = Renamed(y, x.suffix)
  <2>1. \E e, y :
          /\ e \in Range(Entities(t, input)) /\ y \in PlanOf(t, input, e).items
          /\ x = Renamed(y, x.suffix)
          /\ t \notin Disambiguated => x.suffix = NoId
          /\ t \in Disambiguated =>
               x.suffix = IF Yields(UNION {PlanOf(t, input, d).items :
                                             d \in Range(Entities(t, input))}, y)
                            THEN e.id ELSE NoId
    BY <1>4, WholeItems
  <2> QED
    BY <2>1
<1>6. y = [signal |-> SignalOf[t], target |-> Target(SourceOf[t], e.id),
           purpose |-> y.purpose, base |-> y.base, suffix |-> NoId]
  BY <1>5, PlanOfItems DEF ItemsOf
<1>7. x.target.kind = SourceOf[t]
  BY <1>5, <1>6 DEF Target, Renamed
<1> QED
  BY <1>2, <1>4, <1>7, SubPlannerFacts

\* Two items of one family with one name are one: neither or both have a suffix,
\* and both times their entities have one ID.
LEMMA NamesApart ==
  ASSUME IndexInv, WellFormed(input.doc), NEW s \in Disambiguated,
         NEW x \in Whole(s, input), NEW y \in Whole(s, input), NameOf(x) = NameOf(y)
  PROVE  x = y
<1> DEFINE items == UNION {PlanOf(s, input, d).items : d \in Range(Entities(s, input))}
<1>1. s \in SubPlanners
  BY SubPlannerFacts
<1>2. PICK e, v :
        /\ e \in Range(Entities(s, input)) /\ v \in PlanOf(s, input, e).items
        /\ x = Renamed(v, x.suffix)
        /\ x.suffix = IF Yields(items, v) THEN e.id ELSE NoId
  BY <1>1, WholeItems
<1>3. PICK f, w :
        /\ f \in Range(Entities(s, input)) /\ w \in PlanOf(s, input, f).items
        /\ y = Renamed(w, y.suffix)
        /\ y.suffix = IF Yields(items, w) THEN f.id ELSE NoId
  BY <1>1, WholeItems
<1>4. /\ v = [signal |-> SignalOf[s], target |-> Target(SourceOf[s], e.id),
               purpose |-> v.purpose, base |-> v.base, suffix |-> NoId]
      /\ w = [signal |-> SignalOf[s], target |-> Target(SourceOf[s], f.id),
               purpose |-> w.purpose, base |-> w.base, suffix |-> NoId]
  BY <1>1, <1>2, <1>3, PlanOfItems DEF ItemsOf
<1>5. v.target.id = e.id /\ w.target.id = f.id
  BY <1>4 DEF Target
<1>6. x.base = v.base /\ y.base = w.base /\ v.base = w.base /\ x.suffix = y.suffix
  <2>1. x.base = v.base /\ y.base = w.base
    BY <1>2, <1>3 DEF Renamed
  <2>2. x.base = y.base /\ x.suffix = y.suffix
    BY DEF NameOf
  <2> QED
    BY <2>1, <2>2
<1>7. /\ e \in Range(input.doc[SourceOf[s]]) /\ f \in Range(input.doc[SourceOf[s]])
      /\ e.id \in Nat /\ f.id \in Nat /\ SourceOf[s] \in EntityKinds
  BY <1>1, <1>2, <1>3, EntityFacts, SubPlannerFacts
<1>8. e.id # NoId /\ f.id # NoId /\ (e.id = f.id => e = f)
  BY <1>7 DEF WellFormed, Named, Range
<1>9. e.id = f.id
  <2>1. CASE Yields(items, v) \/ Yields(items, w)
    BY <1>2, <1>3, <1>6, <1>8, <2>1
  <2>2. CASE ~Yields(items, v) /\ ~Yields(items, w)
    <3>1. v \in items /\ w \in items
      BY <1>2, <1>3
    <3>2. ~(f.id < e.id) /\ ~(e.id < f.id)
      BY <1>5, <1>6, <2>2, <3>1 DEF Yields
    <3> QED
      BY <1>7, <3>2
  <2> QED
    BY <2>1, <2>2
<1>10. v = w
  BY <1>1, <1>2, <1>3, <1>6, <1>8, <1>9, PlanOfItems DEF ItemsOf
<1> QED
  BY <1>2, <1>3, <1>6, <1>10 DEF Renamed

\* No two dependency metrics and no two spans of one family share a name, in any
\* plan of any document.
THEOREM Names == Spec => []DistinctNames
<1>1. AnswerInv => DistinctNames
  <2> SUFFICES ASSUME AnswerInv, pc = "planned", NEW s \in Disambiguated,
                      NEW x \in plan[SignalOf[s]], NEW y \in plan[SignalOf[s]],
                      x.target.kind = SourceOf[s], y.target.kind = SourceOf[s],
                      NameOf(x) = NameOf(y)
               PROVE  x = y
    BY DEF DistinctNames
  <2>1. x \in Whole(s, input) /\ y \in Whole(s, input)
    BY PlannedItems, SubPlannerFacts
  <2>2. IndexInv /\ WellFormed(input.doc)
    BY DEF AnswerInv, IndexInv, Indexing, EntityKinds
  <2> QED
    BY <2>1, <2>2, NamesApart
<1> QED
  BY <1>1, InitAnswer, NextAnswer, PTL DEF Spec
------------------------------------------------------------------------------
(* Strict mode *)

\* Every entity of a sub-planner is planned without a warning, under its own name.
Exact(s, in) ==
  /\ \A e \in Range(Entities(s, in)) : PlanOf(s, in, e).diagnostics = {}
  /\ s \in Disambiguated =>
       LET items == UNION {PlanOf(s, in, e).items : e \in Range(Entities(s, in))}
       IN  \A y \in items : ~Yields(items, y)

\* As long as nothing was reported, what was planned up to here is exact.
QuietPart ==
  (pc \in SubPlanners /\ part.diagnostics = {}) =>
    \A i \in 1..(at - 1) : PlanOf(pc, input, Entities(pc, input)[i]).diagnostics = {}
QuietPlan ==
  (pc # "failed" /\ diagnostics = {}) =>
    \A signal \in input.policy.signals \cap Signals : \A s \in Behind(signal, pc) : Exact(s, input)
StrictGate == (pc \in {"validate", "planned"} /\ input.policy.strict) => diagnostics = {}

StrictInv == AnswerInv /\ QuietPart /\ QuietPlan /\ StrictGate

LEMMA InitStrict == Init => StrictInv
<1> SUFFICES ASSUME Init PROVE StrictInv
  OBVIOUS
<1>1. pc = "start" /\ pc \notin SubPlanners
  BY DEF Init, SubPlanners
<1> QED
  BY <1>1, InitAnswer, BehindFacts DEF StrictInv, QuietPart, QuietPlan, StrictGate

LEMMA PlanEntityStrict ==
  ASSUME StrictInv, PlanEntity, pc' # "failed"
  PROVE  QuietPart' /\ QuietPlan' /\ StrictGate'
<1>1. /\ pc \in SubPlanners /\ pc' = pc /\ at' = at + 1
      /\ UNCHANGED <<input, diagnostics>>
      /\ part' = Plus(part, PlanOf(pc, input, Entities(pc, input)[at]))
  BY DEF PlanEntity, Stopped, Fail, Goto
<1>2. at \in Nat \ {0} /\ 1..at = (1..(at - 1)) \cup {at} /\ at' - 1 = at
  BY <1>1 DEF StrictInv, AnswerInv, IndexInv
<1>3. QuietPart'
  <2> SUFFICES ASSUME part'.diagnostics = {}, NEW i \in 1..at
               PROVE  PlanOf(pc, input, Entities(pc, input)[i]).diagnostics = {}
    BY <1>1, <1>2 DEF QuietPart
  <2>1. part.diagnostics = {} /\ PlanOf(pc, input, Entities(pc, input)[at]).diagnostics = {}
    BY <1>1 DEF Plus
  <2> QED
    BY <1>1, <1>2, <2>1 DEF StrictInv, QuietPart
<1>4. QuietPlan'
  BY <1>1 DEF StrictInv, QuietPlan, SubPlanners
<1>5. StrictGate'
  BY <1>1 DEF StrictGate, SubPlanners
<1> QED
  BY <1>3, <1>4, <1>5

LEMMA FinishStrict ==
  ASSUME StrictInv, FinishSubPlanner, pc' # "failed"
  PROVE  QuietPart' /\ QuietPlan' /\ StrictGate'
<1> DEFINE s == pc
           collisions == IF s \in Disambiguated THEN Collisions(SignalOf[s], part.items) ELSE {}
           items == UNION {PlanOf(s, input, e).items : e \in Range(Entities(s, input))}
<1>1. /\ s \in SubPlanners /\ at > Len(Entities(s, input))
      /\ diagnostics' = diagnostics \cup part.diagnostics \cup collisions
      /\ part' = Nothing /\ pc' = After[s] /\ at' = 1 /\ input' = input
  BY DEF FinishSubPlanner, Fail, Goto
<1>2. at \in Nat \ {0} /\ PartInv /\ pc # "failed"
  BY <1>1 DEF StrictInv, AnswerInv, IndexInv, SubPlanners
<1>3. at - 1 = Len(Entities(s, input))
  BY <1>1, <1>2, ListFacts DEF PartInv, StrictInv, AnswerInv
<1>4. Range(Entities(s, input)) = {Entities(s, input)[i] : i \in 1..(at - 1)}
  BY <1>1, <1>3, ListFacts DEF StrictInv, AnswerInv, Range
<1>5. part.items = items
  BY <1>1, <1>2, <1>4 DEF PartInv, Yielded
<1>6. QuietPart'
  <2>1. 1..(at' - 1) = {}
    BY <1>1
  <2> QED
    BY <2>1 DEF QuietPart
<1>7. StrictGate'
  BY <1>1, StageFacts DEF StrictGate, SubPlanners, Signals, CrossChecks
<1>8. QuietPlan'
  <2> SUFFICES ASSUME diagnostics' = {}, NEW signal \in input.policy.signals \cap Signals,
                      NEW t \in Behind(signal, After[s])
               PROVE  Exact(t, input)
    BY <1>1 DEF QuietPlan, Exact
  <2>1. diagnostics = {} /\ part.diagnostics = {} /\ collisions = {}
    BY <1>1
  <2>2. CASE t = s
    <3>1. \A e \in Range(Entities(s, input)) : PlanOf(s, input, e).diagnostics = {}
      BY <1>1, <1>4, <2>1 DEF StrictInv, QuietPart
    <3>2. ASSUME s \in Disambiguated PROVE \A y \in items : ~Yields(items, y)
      <4> HIDE DEF items
      <4>1. Collisions(SignalOf[s], items) = {}
        BY <1>5, <2>1, <3>2
      <4> SUFFICES ASSUME NEW y \in items, Yields(items, y) PROVE FALSE
        OBVIOUS
      <4>2. Warning("GEN_NAME_COLLISION", SignalOf[s], y.target.id) \in Collisions(SignalOf[s], items)
        BY DEF Collisions
      <4> QED
        BY <4>1, <4>2
    <3> QED
      BY <2>2, <3>1, <3>2 DEF Exact
  <2>3. CASE t # s
    <3>1. Behind(signal, After[s]) = Behind(signal, s) \cup (IF SignalOf[s] = signal THEN {s} ELSE {})
      BY <1>1, BehindFacts
    <3>2. t \in Behind(signal, s)
      BY <2>3, <3>1
    <3> QED
      BY <1>2, <2>1, <3>2 DEF StrictInv, QuietPlan
  <2> QED
    BY <2>2, <2>3
<1> QED
  BY <1>6, <1>7, <1>8

LEMMA BeginSignalStrict ==
  ASSUME StrictInv, BeginSignal, pc' # "failed"
  PROVE  QuietPart' /\ QuietPlan' /\ StrictGate'
<1>1. /\ pc \in Signals /\ at' = 1 /\ UNCHANGED <<input, diagnostics>>
      /\ \/ pc \notin input.policy.signals /\ pc' = After[pc]
         \/ pc \in input.policy.signals /\ pc' = First[pc]
  BY DEF BeginSignal, Stopped, Fail, Goto
<1>2. \A signal \in input.policy.signals \cap Signals : Behind(signal, pc') = Behind(signal, pc)
  BY <1>1, BehindFacts
<1>3. QuietPlan'
  <2>1. pc # "failed"
    BY <1>1 DEF Signals
  <2> SUFFICES ASSUME diagnostics = {}, NEW signal \in input.policy.signals \cap Signals,
                      NEW t \in Behind(signal, pc')
               PROVE  Exact(t, input)
    BY <1>1 DEF QuietPlan, Exact
  <2> QED
    BY <1>2, <2>1 DEF StrictInv, QuietPlan
<1>4. QuietPart'
  <2>1. 1..(at' - 1) = {}
    BY <1>1
  <2> QED
    BY <2>1 DEF QuietPart
<1>5. StrictGate'
  BY <1>1, StageFacts DEF StrictGate, SubPlanners, Signals, CrossChecks
<1> QED
  BY <1>3, <1>4, <1>5

LEMMA OtherStrict ==
  ASSUME StrictInv, pc' # "failed",
         Begin \/ IndexEntity \/ IndexDone \/ CheckReferences \/ CrossCheck \/ CheckBudget
           \/ CheckStrict \/ ValidatePlan
  PROVE  QuietPart' /\ QuietPlan' /\ StrictGate'
<1>1. Same
  BY OtherStays
<1>2. QuietPart'
  BY <1>1 DEF Same, QuietPart
<1>3. QuietPlan'
  <2> SUFFICES ASSUME diagnostics = {}, NEW signal \in input.policy.signals \cap Signals,
                      NEW t \in Behind(signal, pc')
               PROVE  Exact(t, input)
    BY <1>1 DEF Same, QuietPlan, Exact
  <2> QED
    BY <1>1 DEF Same, StrictInv, QuietPlan
<1>4. StrictGate'
  <2> SUFFICES ASSUME pc' \in {"validate", "planned"}, input.policy.strict
               PROVE  diagnostics = {}
    BY <1>1 DEF Same, StrictGate
  <2>1. CASE CheckStrict
    BY <2>1 DEF CheckStrict, Fail, Goto
  <2>2. CASE ValidatePlan
    BY <2>2 DEF ValidatePlan, StrictInv, StrictGate
  <2>3. CASE Begin \/ IndexEntity \/ IndexDone \/ CheckReferences \/ CrossCheck \/ CheckBudget
    <3>1. Begin => pc' = "function"
      BY StageFacts DEF Begin, Stopped, Fail, Goto
    <3>2. IndexEntity \/ IndexDone => pc' \in Indexing
      BY StageFacts DEF IndexEntity, IndexDone, Stopped, Fail, Goto, Indexing
    <3>3. CheckReferences => pc' = "metrics"
      BY StageFacts DEF CheckReferences, Goto
    <3>4. CrossCheck => pc' \in CrossChecks \cup {"budget"}
      BY StageFacts DEF CrossCheck, Goto
    <3>5. CheckBudget => pc' = "strict"
      BY StageFacts DEF CheckBudget, Fail, Goto
    <3> QED
      BY <2>3, <3>1, <3>2, <3>3, <3>4, <3>5 DEF Indexing, EntityKinds, CrossChecks
  <2> QED
    BY <2>1, <2>2, <2>3
<1> QED
  BY <1>2, <1>3, <1>4

LEMMA NextStrict == StrictInv /\ [Next]_vars => StrictInv'
<1> SUFFICES ASSUME StrictInv, [Next]_vars PROVE StrictInv'
  OBVIOUS
<1>1. AnswerInv'
  BY NextAnswer DEF StrictInv
<1>2. CASE pc' = "failed"
  BY <1>1, <1>2 DEF StrictInv, QuietPart, QuietPlan, StrictGate, SubPlanners
<1>3. CASE pc' # "failed"
  <2>1. CASE PlanEntity
    BY <1>1, <1>3, <2>1, PlanEntityStrict DEF StrictInv
  <2>2. CASE FinishSubPlanner
    BY <1>1, <1>3, <2>2, FinishStrict DEF StrictInv
  <2>3. CASE BeginSignal
    BY <1>1, <1>3, <2>3, BeginSignalStrict DEF StrictInv
  <2>4. CASE Begin \/ IndexEntity \/ IndexDone \/ CheckReferences \/ CrossCheck \/ CheckBudget
               \/ CheckStrict \/ ValidatePlan
    BY <1>1, <1>3, <2>4, OtherStrict DEF StrictInv
  <2>5. CASE Cancel \/ UNCHANGED vars
    <3>1. UNCHANGED <<input, pc, at, part, diagnostics>>
      BY <2>5 DEF Cancel, vars
    <3> QED
      BY <1>1, <3>1 DEF StrictInv, QuietPart, QuietPlan, StrictGate
  <2> QED
    BY <2>1, <2>2, <2>3, <2>4, <2>5 DEF Next, Step
<1> QED
  BY <1>2, <1>3

\* Under --strict a plan leaves out, shortens and renames nothing of what the
\* enabled signals were asked to plan.
THEOREM Strictness == Spec => []StrictPlansAreExact
<1>1. StrictInv => StrictPlansAreExact
  <2> SUFFICES ASSUME StrictInv, pc = "planned", input.policy.strict, NEW s \in SubPlanners,
                      SignalOf[s] \in input.policy.signals
               PROVE  /\ \A e \in Range(Entities(s, input)) : PlanOf(s, input, e).diagnostics = {}
                      /\ s \in Disambiguated =>
                           \A x \in plan[SignalOf[s]] : x.target.kind = SourceOf[s] => x.suffix = NoId
    BY DEF StrictPlansAreExact
  <2>1. diagnostics = {} /\ AnswerInv /\ QuietPlan
    BY DEF StrictInv, StrictGate
  <2>2. SignalOf[s] \in Signals /\ s \in Behind(SignalOf[s], "planned")
    BY BehindFacts, SubPlannerFacts
  <2>3. Exact(s, input)
    BY <2>1, <2>2 DEF QuietPlan
  <2>4. ASSUME s \in Disambiguated, NEW x \in plan[SignalOf[s]], x.target.kind = SourceOf[s]
        PROVE  x.suffix = NoId
    <3> DEFINE items == UNION {PlanOf(s, input, d).items : d \in Range(Entities(s, input))}
    <3>1. x \in Whole(s, input)
      BY <2>1, <2>4, PlannedItems
    <3>2. PICK e, y : /\ e \in Range(Entities(s, input)) /\ y \in PlanOf(s, input, e).items
                      /\ x.suffix = IF Yields(items, y) THEN e.id ELSE NoId
      BY <2>4, <3>1, WholeItems
    <3>3. ~Yields(items, y)
      BY <2>3, <2>4, <3>2 DEF Exact
    <3> QED
      BY <3>2, <3>3
  <2> QED
    BY <2>3, <2>4 DEF Exact
<1> QED
  BY <1>1, InitStrict, NextStrict, PTL DEF Spec
------------------------------------------------------------------------------
(* Types *)

ResultsOver(words) ==
  [items : SUBSET ItemsOver(words), diagnostics : SUBSET Diagnostics, skipped : Nat]

LEMMA ResultsType ==
  ASSUME NEW words, NEW items \in SUBSET ItemsOver(words), NEW found \in SUBSET Diagnostics,
         NEW n \in Nat
  PROVE  [items |-> items, diagnostics |-> found, skipped |-> n] \in ResultsOver(words)
BY DEF ResultsOver

LEMMA TypedResult ==
  ASSUME NEW words, NEW r \in ResultsOver(words)
  PROVE  /\ r = [items |-> r.items, diagnostics |-> r.diagnostics, skipped |-> r.skipped]
         /\ r.items \subseteq ItemsOver(words) /\ r.diagnostics \subseteq Diagnostics
         /\ r.skipped \in Nat
BY DEF ResultsOver

LEMMA ConstantsTyped ==
  /\ {"metrics", "tracing", "logging"} \subseteq Signals
  /\ {"endpoint", "dependency", "edge"} \subseteq EntityKinds
  /\ {"root", "child", "started", "completed", "failed"} \subseteq Purposes
  /\ \A policy : Instruments(policy) \subseteq Purposes
BY DEF Signals, EntityKinds, Purposes, Instruments

LEMMA ItemTyped ==
  ASSUME NEW words, NEW signal \in Signals, NEW kind \in EntityKinds, NEW e, e.id \in Nat,
         NEW purpose \in Purposes, NEW base \in Seq(words)
  PROVE  Item(signal, kind, e, purpose, base) \in ItemsOver(words)
BY DEF Item, ItemsOver, Target, NoId

LEMMA WarningTyped ==
  ASSUME NEW signal \in Signals, NEW id \in Nat
  PROVE  /\ Warning("GEN_UNSUPPORTED_ENTITY", signal, id) \in Diagnostics
         /\ Warning("GEN_INCOMPLETE_TARGET", signal, id) \in Diagnostics
         /\ Warning("GEN_NAME_COLLISION", signal, id) \in Diagnostics
         /\ Warning("GEN_SENSITIVE_VALUE_DROPPED", signal, id) \in Diagnostics
BY DEF Warning, Diagnostics, Codes

LEMMA OutcomeTyped ==
  ASSUME NEW words, NEW signal \in Signals, NEW e, e.id \in Nat
  PROVE  /\ Skip("GEN_INCOMPLETE_TARGET", signal, e) \in ResultsOver(words)
         /\ Unsupported(signal, e) \in ResultsOver(words)
         /\ \A items \in SUBSET ItemsOver(words) : \A incomplete :
              Planned(signal, e, items, incomplete) \in ResultsOver(words)
<1>1. {} \in SUBSET ItemsOver(words) /\ 0 \in Nat /\ 1 \in Nat
  OBVIOUS
<1>2. Skip("GEN_INCOMPLETE_TARGET", signal, e) \in ResultsOver(words)
  BY <1>1, WarningTyped, ResultsType DEF Skip
<1>3. Unsupported(signal, e) \in ResultsOver(words)
  BY <1>1, WarningTyped, ResultsType DEF Skip, Unsupported
<1>4. ASSUME NEW items \in SUBSET ItemsOver(words), NEW incomplete
      PROVE  Planned(signal, e, items, incomplete) \in ResultsOver(words)
  <2>1. Warning("GEN_INCOMPLETE_TARGET", signal, e.id) \in Diagnostics
    BY WarningTyped
  <2>2. (IF incomplete THEN {Warning("GEN_INCOMPLETE_TARGET", signal, e.id)} ELSE {})
          \in SUBSET Diagnostics
    BY <2>1
  <2> QED
    BY <1>1, <2>2, ResultsType DEF Planned
<1> QED
  BY <1>2, <1>3, <1>4

LEMMA NothingTyped == \A words : Nothing \in ResultsOver(words)
BY DEF Nothing, ResultsOver

LEMMA RedactingTyped ==
  ASSUME NEW words, NEW policy, NEW r \in ResultsOver(words), NEW e, e.id \in Nat
  PROVE  Redacting(policy, r, e) \in ResultsOver(words)
<1>1. CASE policy.redacts /\ r.items # {}
  <2> DEFINE w == Warning("GEN_SENSITIVE_VALUE_DROPPED", "logging", e.id)
             q == [items |-> r.items, diagnostics |-> r.diagnostics, skipped |-> r.skipped]
             more == r.diagnostics \cup {w}
  <2>1. w \in Diagnostics
    BY ConstantsTyped, WarningTyped
  <2>2. r = q /\ more \subseteq Diagnostics
    BY <2>1, TypedResult
  <2>3. [items |-> r.items, diagnostics |-> more, skipped |-> r.skipped] \in ResultsOver(words)
    BY <2>2, TypedResult, ResultsType
  <2>4. [q EXCEPT !.diagnostics = more]
          = [items |-> r.items, diagnostics |-> more, skipped |-> r.skipped]
    <3> HIDE DEF more
    <3> QED
      OBVIOUS
  <2>5. Redacting(policy, r, e) = [r EXCEPT !.diagnostics = more]
    BY <1>1 DEF Redacting
  <2> HIDE DEF q, more
  <2> QED
    BY <2>2, <2>3, <2>4, <2>5
<1>2. CASE ~(policy.redacts /\ r.items # {})
  BY <1>2 DEF Redacting
<1> QED
  BY <1>1, <1>2

LEMMA TuplesTyped ==
  ASSUME NEW words, NEW a \in words, NEW b \in words, NEW c \in words, NEW d \in words,
         NEW e \in words
  PROVE  /\ <<a>> \in Seq(words) /\ <<a, b>> \in Seq(words)
         /\ <<a, b, c, d>> \in Seq(words) /\ <<a, b, c, d, e>> \in Seq(words)
OBVIOUS

LEMMA ConstantWords ==
  ASSUME NEW doc
  PROVE  /\ EndpointKinds \cup DependencyKinds \cup Purposes \cup {"op", "unknown"} \subseteq Words(doc)
         /\ \A k \in DependencyKinds : System[k] \in Words(doc) /\ SpanSystem[k] \in Words(doc)
<1>1. DOMAIN System = DependencyKinds /\ DOMAIN SpanSystem = DependencyKinds
  BY DEF DependencyKinds, SpanSystem
<1>2. \A k \in DependencyKinds : System[k] \in Range(System) /\ SpanSystem[k] \in Range(SpanSystem)
  BY <1>1 DEF Range
<1> QED
  BY <1>2 DEF Words

\* The words of an entity, and of the function it names.
LEMMA FunctionWords ==
  ASSUME NEW id, Named(input.doc, "function", id)
  PROVE  /\ FunctionOf(input.doc, id).name \in Words(input.doc)
         /\ FunctionOf(input.doc, id).norm \in Words(input.doc)
<1>1. FunctionOf(input.doc, id) \in Range(input.doc.function)
  BY DEF FunctionOf, Named
<1> QED
  BY <1>1 DEF Words

LEMMA EntityWords ==
  ASSUME WellFormed(input.doc), NEW s \in SubPlanners, NEW e \in Range(Entities(s, input))
  PROVE  /\ SourceOf[s] = "endpoint" =>
              /\ e.op \in Words(input.doc) /\ e.route \in Words(input.doc)
              /\ Named(input.doc, "function", e.fn)
         /\ SourceOf[s] = "dependency" =>
              /\ e.op \in Words(input.doc)
              /\ Named(input.doc, "function", e.fn)
         /\ SourceOf[s] = "edge" =>
              (e.resolved => Named(input.doc, "function", e.callee))
<1>1. e \in Range(input.doc[SourceOf[s]])
  BY DEF Entities, Range
<1>2. CASE SourceOf[s] = "endpoint"
  BY <1>1, <1>2 DEF Words, WellFormed
<1>3. CASE SourceOf[s] = "dependency"
  BY <1>1, <1>3 DEF Words, WellFormed
<1>4. CASE SourceOf[s] = "edge"
  BY <1>1, <1>4 DEF WellFormed
<1> QED
  BY <1>2, <1>3, <1>4

LEMMA PlanOfTyped ==
  ASSUME IndexInv, WellFormed(input.doc), NEW s \in SubPlanners,
         NEW e \in Range(Entities(s, input))
  PROVE  PlanOf(s, input, e) \in ResultsOver(Words(input.doc))
<1> DEFINE W == Words(input.doc)
           norm == FunctionOf(input.doc, e.fn).norm
<1>1. e.id \in Nat
  BY EntityFacts
<1>2. /\ SourceOf[s] = "endpoint" =>
           e.op \in W /\ e.route \in W /\ norm \in W /\ FunctionOf(input.doc, e.fn).name \in W
      /\ SourceOf[s] = "dependency" => e.op \in W /\ norm \in W
      /\ SourceOf[s] = "edge" => (e.resolved => FunctionOf(input.doc, e.callee).name \in W)
  BY EntityWords, FunctionWords
<1>3. /\ \A k \in EndpointKinds \cup DependencyKinds \cup Purposes \cup {"op", "unknown"} : k \in W
      /\ \A k \in DependencyKinds : System[k] \in W /\ SpanSystem[k] \in W
  BY ConstantWords
<1> HIDE DEF W, norm
<1>4. CASE s = "endpoint_metrics"
  <2>1. PlanOf(s, input, e) = EndpointMetrics(input.doc, input.policy, e) /\ SourceOf[s] = "endpoint"
    BY <1>4, Zenon DEF PlanOf, SourceOf, SubPlanners
  <2>2. CASE e.kind \notin EndpointKinds
    BY <1>1, <2>1, <2>2, OutcomeTyped, ConstantsTyped DEF EndpointMetrics, W
  <2>3. CASE e.kind \in EndpointKinds
    <3> DEFINE operation == EndpointOperation(input.doc, e)
    <3>1. operation \in W
      BY <1>2, <1>3, <2>1, <2>3 DEF EndpointOperation, norm
    <3> HIDE DEF operation
    <3>2. ASSUME NEW p \in Instruments(input.policy)
          PROVE  Item("metrics", "endpoint", e, p, <<norm, operation, e.kind, p>>) \in ItemsOver(W)
      <4>1. p \in Purposes /\ "metrics" \in Signals /\ "endpoint" \in EntityKinds
        BY ConstantsTyped
      <4>2. <<norm, operation, e.kind, p>> \in Seq(W)
        BY <1>2, <1>3, <2>1, <2>3, <3>1, <4>1, TuplesTyped
      <4> QED
        BY <1>1, <4>1, <4>2, ItemTyped
    <3> QED
      BY <1>1, <2>1, <2>3, <3>2, OutcomeTyped, ConstantsTyped
         DEF EndpointMetrics, W, norm, operation
  <2> QED
    BY <2>2, <2>3
<1>5. CASE s = "dependency_metrics"
  <2>1. PlanOf(s, input, e) = DependencyMetrics(input.doc, input.policy, e) /\ SourceOf[s] = "dependency"
    BY <1>5, Zenon DEF PlanOf, SourceOf, SubPlanners
  <2>2. CASE e.kind \notin DependencyKinds
    BY <1>1, <2>1, <2>2, OutcomeTyped, ConstantsTyped DEF DependencyMetrics, W
  <2>3. CASE e.kind \in DependencyKinds
    <3> DEFINE operation == DependencyOperation(e)
    <3>1. operation \in W /\ System[e.kind] \in W /\ "op" \in W
      BY <1>2, <1>3, <2>1, <2>3 DEF DependencyOperation
    <3> HIDE DEF operation
    <3>2. ASSUME NEW p \in Instruments(input.policy)
          PROVE  Item("metrics", "dependency", e, p, <<norm, operation, System[e.kind], p, "op">>)
                   \in ItemsOver(W)
      <4>1. p \in Purposes /\ "metrics" \in Signals /\ "dependency" \in EntityKinds
        BY ConstantsTyped
      <4>2. <<norm, operation, System[e.kind], p, "op">> \in Seq(W)
        BY <1>2, <1>3, <2>1, <3>1, <4>1, TuplesTyped
      <4> QED
        BY <1>1, <4>1, <4>2, ItemTyped
    <3> QED
      BY <1>1, <2>1, <2>3, <3>2, OutcomeTyped, ConstantsTyped
         DEF DependencyMetrics, W, norm, operation
  <2> QED
    BY <2>2, <2>3
<1>6. CASE s = "root_spans"
  <2>1. PlanOf(s, input, e) = RootSpan(input.doc, e) /\ SourceOf[s] = "endpoint"
    BY <1>6, Zenon DEF PlanOf, SourceOf, SubPlanners
  <2>2. CASE e.kind \notin EndpointKinds
    BY <1>1, <2>1, <2>2, OutcomeTyped, ConstantsTyped DEF RootSpan, W
  <2>3. CASE e.kind \in EndpointKinds
    <3> DEFINE base == IF EndpointIncomplete(e) THEN <<FunctionOf(input.doc, e.fn).name>>
                       ELSE IF e.kind = "http" THEN <<SpanMethod(e.op), e.route>>
                       ELSE <<e.kind, e.op>>
    <3>0. SpanMethod(e.op) \in W
      BY <1>2, <1>3, <2>1 DEF SpanMethod, EndpointKinds
    <3>1. base \in Seq(W)
      BY <1>2, <1>3, <2>1, <2>3, <3>0, TuplesTyped
    <3> HIDE DEF base
    <3>2. Item("tracing", "endpoint", e, "root", base) \in ItemsOver(W)
      BY <1>1, <3>1, ConstantsTyped, ItemTyped
    <3> QED
      BY <1>1, <2>1, <2>3, <3>2, OutcomeTyped, ConstantsTyped DEF RootSpan, W, base
  <2> QED
    BY <2>2, <2>3
<1>7. CASE s = "child_spans"
  <2>1. PlanOf(s, input, e) = ChildSpan(e) /\ SourceOf[s] = "dependency"
    BY <1>7, Zenon DEF PlanOf, SourceOf, SubPlanners
  <2>2. CASE e.kind \notin DependencyKinds
    BY <1>1, <2>1, <2>2, OutcomeTyped, ConstantsTyped DEF ChildSpan, W
  <2>3. CASE e.kind \in DependencyKinds
    <3>1. SpanSystem[e.kind] \in W
      BY <1>3, <2>3
    <3>2. SpanOperation(e) \in W
      BY <1>2, <1>3, <2>1 DEF SpanOperation, SpanMethod, DependencyOperation, EndpointKinds
    <3>3. <<SpanSystem[e.kind], SpanOperation(e)>> \in Seq(W)
      BY <3>1, <3>2, TuplesTyped
    <3>4. Item("tracing", "dependency", e, "child", <<SpanSystem[e.kind], SpanOperation(e)>>)
            \in ItemsOver(W)
      BY <1>1, <3>3, ConstantsTyped, ItemTyped
    <3> QED
      BY <1>1, <2>1, <2>3, <3>4, OutcomeTyped, ConstantsTyped DEF ChildSpan, W
  <2> QED
    BY <2>2, <2>3
<1>8. CASE s = "internal_spans"
  <2>1. PlanOf(s, input, e) = InternalSpan(input.doc, e) /\ SourceOf[s] = "edge"
    BY <1>8, Zenon DEF PlanOf, SourceOf, SubPlanners
  <2>2. CASE ~e.resolved
    BY <1>1, <2>1, <2>2, OutcomeTyped, ConstantsTyped DEF InternalSpan, W
  <2>3. CASE e.resolved
    <3>1. <<FunctionOf(input.doc, e.callee).name>> \in Seq(W)
      BY <1>2, <2>1, <2>3, TuplesTyped
    <3>2. Item("tracing", "edge", e, "child", <<FunctionOf(input.doc, e.callee).name>>)
            \in ItemsOver(W)
      BY <1>1, <3>1, ConstantsTyped, ItemTyped
    <3> QED
      BY <1>1, <2>1, <2>3, <3>2, OutcomeTyped, ConstantsTyped DEF InternalSpan, W
  <2> QED
    BY <2>2, <2>3
<1>9. ASSUME NEW kind \in {"endpoint", "dependency"}, e.kind \in EndpointKinds \cup DependencyKinds,
             NEW purposes \in SUBSET Purposes
      PROVE  Events("logging", kind, e, purposes) \in SUBSET ItemsOver(W)
  <2> SUFFICES ASSUME NEW p \in purposes
               PROVE  Item("logging", kind, e, p, <<e.kind, p>>) \in ItemsOver(W)
    BY DEF Events
  <2>1. <<e.kind, p>> \in Seq(W)
    BY <1>3, <1>9, TuplesTyped
  <2> QED
    BY <1>1, <2>1, ConstantsTyped, ItemTyped
<1>10. CASE s = "endpoint_logs"
  <2>1. PlanOf(s, input, e) = EndpointLogs(input.policy, e)
    BY <1>10, Zenon DEF PlanOf, SubPlanners
  <2>2. CASE e.kind \notin EndpointKinds
    BY <1>1, <2>1, <2>2, OutcomeTyped, ConstantsTyped DEF EndpointLogs, W
  <2>3. CASE e.kind \in EndpointKinds
    <3> DEFINE purposes == (IF input.policy.startEvents THEN {"started"} ELSE {})
                             \cup (IF input.policy.completionEvents
                                     THEN {"completed", "failed"} ELSE {})
               r == Planned("logging", e, Events("logging", "endpoint", e, purposes), e.op = Missing)
    <3>1. purposes \in SUBSET Purposes
      BY DEF Purposes
    <3> HIDE DEF purposes
    <3>2. Events("logging", "endpoint", e, purposes) \in SUBSET ItemsOver(W)
      BY <1>9, <2>3, <3>1
    <3>3. r \in ResultsOver(W)
      BY <1>1, <3>2, OutcomeTyped, ConstantsTyped
    <3>4. PlanOf(s, input, e) = Redacting(input.policy, r, e)
      BY <2>1, <2>3 DEF EndpointLogs, purposes
    <3> HIDE DEF r
    <3> QED
      BY <1>1, <3>3, <3>4, RedactingTyped DEF W
  <2> QED
    BY <2>2, <2>3
<1>11. CASE s = "dependency_logs"
  <2>1. PlanOf(s, input, e) = DependencyLogs(input.policy, e)
    BY <1>11, Zenon DEF PlanOf, SubPlanners
  <2>2. CASE e.kind \notin DependencyKinds
    BY <1>1, <2>1, <2>2, OutcomeTyped, ConstantsTyped DEF DependencyLogs, W
  <2>3. CASE e.kind \in DependencyKinds /\ ~input.policy.dependencyErrors
    BY <2>1, <2>3, NothingTyped DEF DependencyLogs, W
  <2>4. CASE e.kind \in DependencyKinds /\ input.policy.dependencyErrors
    <3> DEFINE r == Planned("logging", e, Events("logging", "dependency", e, {"failed"}),
                            DependencyIncomplete(e))
    <3>1. Events("logging", "dependency", e, {"failed"}) \in SUBSET ItemsOver(W)
      BY <1>9, <2>4, ConstantsTyped
    <3>2. r \in ResultsOver(W)
      BY <1>1, <3>1, OutcomeTyped, ConstantsTyped
    <3>3. PlanOf(s, input, e) = Redacting(input.policy, r, e)
      BY <2>1, <2>4 DEF DependencyLogs
    <3> HIDE DEF r
    <3> QED
      BY <1>1, <3>2, <3>3, RedactingTyped DEF W
  <2> QED
    BY <2>2, <2>3, <2>4
<1> QED
  BY <1>4, <1>5, <1>6, <1>7, <1>8, <1>10, <1>11 DEF SubPlanners, W

\* The lengths of the lists the stages walk.
LEMMA WalkedFacts ==
  ASSUME IndexInv, NEW s
  PROVE  Len(Walked(s, input)) \in Nat /\ (s \notin EntityKinds \cup SubPlanners => Walked(s, input) = <<>>)
<1>1. CASE s \in EntityKinds
  BY <1>1, DocumentFacts DEF Walked, IndexInv
<1>2. CASE s \notin EntityKinds /\ s \in SubPlanners
  BY <1>2, ListFacts DEF Walked
<1>3. CASE s \notin EntityKinds /\ s \notin SubPlanners
  BY <1>3 DEF Walked
<1> QED
  BY <1>1, <1>2, <1>3

\* A step from one position to another: AnswerInv bounds it where a list is walked.
LEMMA PositionTyped ==
  ASSUME AnswerInv, AnswerInv', input' = input, pc' \in EntityKinds \cup SubPlanners \/ at' = 1
  PROVE  at' \in 1..(Len(Walked(pc', input')) + 1)
<1>1. Len(Walked(pc', input)) \in Nat
  BY WalkedFacts DEF AnswerInv
<1>2. at' \in Nat \ {0}
  BY DEF AnswerInv, IndexInv
<1>3. CASE at' = 1
  BY <1>1, <1>3
<1>4. CASE pc' \in EntityKinds
  <2>1. at' <= Len(input'.doc[pc']) + 1
    BY <1>4 DEF AnswerInv, IndexInv
  <2> QED
    BY <1>1, <1>2, <1>4, <2>1 DEF Walked
<1>5. CASE pc' \in SubPlanners
  <2>1. pc' # "failed" /\ pc' \notin EntityKinds
    BY <1>5 DEF SubPlanners, EntityKinds
  <2>2. at' <= Len(Entities(pc', input')) + 1
    BY <1>5, <2>1 DEF AnswerInv, PartInv
  <2> QED
    BY <1>1, <1>2, <1>5, <2>1, <2>2 DEF Walked
<1> QED
  BY <1>3, <1>4, <1>5

\* The part of the types that the stages after the index can change.
Shaped ==
  /\ part \in ResultsOver(Words(input.doc))
  /\ plan \in [Signals -> SUBSET ItemsOver(Words(input.doc))]
  /\ diagnostics \subseteq Diagnostics
  /\ skipped \in [Signals -> Nat]

Faults == [code : {"GEN_INVALID_IR", "GEN_DANGLING_REFERENCE"}, id : Nat]

LEMMA EmptyShapes ==
  /\ \A words : EmptyPlan \in [Signals -> SUBSET ItemsOver(words)]
  /\ \A words : Nothing \in ResultsOver(words)
BY NothingTyped DEF EmptyPlan

LEMMA InitTyped == Init => TypeOK
<1> SUFFICES ASSUME Init PROVE TypeOK
  OBVIOUS
<1>1. pc = "start" /\ at = 1 /\ pc \in Stages
  BY DEF Init, Stages
<1>2. IndexInv
  BY InitIndexed
<1>3. Len(Walked(pc, input)) \in Nat
  BY <1>2, WalkedFacts
<1>4. at \in 1..(Len(Walked(pc, input)) + 1)
  BY <1>1, <1>3
<1> QED
  BY <1>1, <1>4, EmptyShapes DEF Init, TypeOK, ResultsOver

LEMMA PlanEntityTyped ==
  ASSUME AnswerInv, Shaped, PlanEntity
  PROVE  Shaped'
<1>1. CASE Stopped
  BY <1>1, EmptyShapes DEF PlanEntity, Stopped, Fail, Shaped
<1>2. CASE ~Stopped
  <2> DEFINE W == Words(input.doc)
             more == PlanOf(pc, input, Entities(pc, input)[at])
  <2>1. /\ pc \in SubPlanners /\ at <= Len(Entities(pc, input))
        /\ part' = Plus(part, more) /\ UNCHANGED <<input, plan, diagnostics, skipped>>
    BY <1>2 DEF PlanEntity
  <2>2. IndexInv /\ WellFormed(input.doc) /\ at \in Nat \ {0}
    BY <2>1 DEF AnswerInv, IndexInv, Indexing, EntityKinds, SubPlanners
  <2>3. Entities(pc, input)[at] \in Range(Entities(pc, input))
    BY <2>1, <2>2, ListFacts DEF Range
  <2>4. more \in ResultsOver(W)
    BY <2>1, <2>2, <2>3, PlanOfTyped
  <2>5. part \in ResultsOver(W)
    BY DEF Shaped
  <2> HIDE DEF more, W
  <2>6. /\ part.items \cup more.items \in SUBSET ItemsOver(W)
        /\ part.diagnostics \cup more.diagnostics \in SUBSET Diagnostics
        /\ part.skipped + more.skipped \in Nat
    BY <2>4, <2>5, TypedResult
  <2>7. part' \in ResultsOver(W)
    BY <2>1, <2>6, ResultsType DEF Plus
  <2> QED
    BY <2>1, <2>7 DEF Shaped, W
<1> QED
  BY <1>1, <1>2

LEMMA NamedTyped ==
  ASSUME NEW words, NEW items \in SUBSET ItemsOver(words)
  PROVE  /\ Disambiguate(items) \in SUBSET ItemsOver(words)
         /\ \A signal \in Signals : Collisions(signal, items) \in SUBSET Diagnostics
<1>1. ASSUME NEW x \in items
      PROVE  [x EXCEPT !.suffix = IF Yields(items, x) THEN x.target.id ELSE NoId] \in ItemsOver(words)
  <2> DEFINE n == IF Yields(items, x) THEN x.target.id ELSE NoId
  <2>1. x \in ItemsOver(words) /\ n \in Nat
    BY DEF ItemsOver, NoId
  <2> HIDE DEF n
  <2>2. [x EXCEPT !.suffix = n] \in ItemsOver(words)
    BY <2>1 DEF ItemsOver
  <2> QED
    BY <2>2 DEF n
<1>2. ASSUME NEW signal \in Signals, NEW x \in items
      PROVE  Warning("GEN_NAME_COLLISION", signal, x.target.id) \in Diagnostics
  <2>1. x.target.id \in Nat
    BY DEF ItemsOver
  <2> QED
    BY <2>1, WarningTyped
<1> QED
  BY <1>1, <1>2 DEF Disambiguate, Collisions

LEMMA FinishTyped ==
  ASSUME Shaped, FinishSubPlanner
  PROVE  Shaped'
<1> DEFINE W == Words(input.doc)
           signal == SignalOf[pc]
           named == IF pc \in Disambiguated THEN Disambiguate(part.items) ELSE part.items
           collisions == IF pc \in Disambiguated THEN Collisions(signal, part.items) ELSE {}
<1>1. CASE Fail
  BY <1>1, EmptyShapes DEF FinishSubPlanner, Fail, Shaped
<1>2. CASE ~Fail
  <2>1. /\ pc \in SubPlanners /\ input' = input /\ part' = Nothing
        /\ plan' = [plan EXCEPT ![signal] = @ \cup named]
        /\ diagnostics' = diagnostics \cup part.diagnostics \cup collisions
        /\ skipped' = [skipped EXCEPT ![signal] = @ + part.skipped]
    BY <1>2 DEF FinishSubPlanner
  <2>2. /\ part.items \in SUBSET ItemsOver(W) /\ part.diagnostics \subseteq Diagnostics
        /\ part.skipped \in Nat
    BY TypedResult DEF Shaped
  <2>3. signal \in Signals
    BY <2>1, SubPlannerFacts
  <2> HIDE DEF W
  <2>4. named \in SUBSET ItemsOver(W) /\ collisions \in SUBSET Diagnostics
    BY <2>2, <2>3, NamedTyped
  <2> HIDE DEF signal, named, collisions
  <2>5. plan' \in [Signals -> SUBSET ItemsOver(W)]
    BY <2>1, <2>3, <2>4 DEF Shaped, W
  <2>6. skipped' \in [Signals -> Nat]
    BY <2>1, <2>2, <2>3 DEF Shaped
  <2>7. diagnostics' \subseteq Diagnostics
    BY <2>1, <2>2, <2>4 DEF Shaped
  <2> QED
    BY <2>1, <2>5, <2>6, <2>7, EmptyShapes DEF Shaped, W
<1> QED
  BY <1>1, <1>2

LEMMA ViolationsTyped ==
  ASSUME AnswerInv, Shaped, violations \subseteq Faults, Next
  PROVE  violations' \subseteq Faults
<1>1. \A n \in Nat : /\ Violation("GEN_INVALID_IR", n) \in Faults
                      /\ Violation("GEN_DANGLING_REFERENCE", n) \in Faults
  BY DEF Violation, Faults
<1>2. CASE IndexEntity
  <2>1. CASE Stopped
    BY <1>2, <2>1 DEF IndexEntity, Stopped, Fail
  <2>2. CASE ~Stopped
    <3>1. pc \in EntityKinds /\ at <= Len(input.doc[pc]) /\ at \in Nat \ {0} /\ IndexInv
      BY <1>2 DEF IndexEntity, AnswerInv, IndexInv
    <3>2. input.doc[pc][at] \in EntityFields[pc]
      BY <3>1, DocumentFacts DEF IndexInv
    <3>3. input.doc[pc][at].id \in Nat
      BY <3>1, <3>2, FieldFacts
    <3>4. violations' \in {violations, violations \cup {Violation("GEN_INVALID_IR", input.doc[pc][at].id)}}
      BY <1>2, <2>2 DEF IndexEntity
    <3> QED
      BY <1>1, <3>3, <3>4
  <2> QED
    BY <2>1, <2>2
<1>3. CASE CheckReferences
  <2>1. ASSUME NEW k \in EntityKinds, NEW e \in Range(input.doc[k]) PROVE e.id \in Nat
    <3>1. input.doc[k] \in Seq(EntityFields[k])
      BY DocumentFacts DEF AnswerInv, IndexInv
    <3>2. e \in EntityFields[k]
      BY <2>1, <3>1 DEF Range
    <3> QED
      BY <3>2, FieldFacts
  <2>2. ASSUME NEW v \in Dangling(input.doc, index) PROVE v \in Faults
    <3>1. PICK k \in EntityKinds : \E e \in Range(input.doc[k]) :
            v = Violation("GEN_DANGLING_REFERENCE", e.id)
      BY <2>2 DEF Dangling
    <3> QED
      BY <1>1, <2>1, <3>1
  <2>3. ASSUME NEW v \in Unspecified(input.doc) PROVE v \in Faults
    <3>1. PICK e \in Range(input.doc["edge"]) : v = Violation("GEN_INVALID_IR", e.id)
      BY <2>3 DEF Unspecified
    <3>2. e.id \in Nat
      BY <2>1 DEF EntityKinds
    <3> QED
      BY <1>1, <3>1, <3>2
  <2> QED
    BY <1>3, <2>2, <2>3 DEF CheckReferences
<1>4. CASE CrossCheck
  <2> DEFINE items == plan[Checked[pc]]
             bad == Mismatched(items) \cup Duplicated(items)
  <2>1. Checked[pc] \in Signals
    BY <1>4 DEF CrossCheck, CrossChecks, Checked, Signals
  <2>2. \A x \in items : x.target.id \in Nat
    BY <2>1 DEF Shaped, ItemsOver
  <2> HIDE DEF items
  <2>3. bad \subseteq Faults
    BY <1>1, <2>2 DEF Mismatched, Duplicated
  <2>4. violations' \subseteq violations \cup bad
    BY <1>4 DEF CrossCheck, items
  <2> QED
    BY <2>3, <2>4
<1>5. CASE ~(IndexEntity \/ CheckReferences \/ CrossCheck)
  <2>1. violations' = violations
    BY <1>5 DEF Next, Step, Begin, IndexDone, BeginSignal, PlanEntity, FinishSubPlanner,
                CheckBudget, CheckStrict, ValidatePlan, Cancel, Stopped, Fail
  <2> QED
    BY <2>1
<1> QED
  BY <1>2, <1>3, <1>4, <1>5

\* No other step changes the shape of what is planned.
LEMMA ShapeStays ==
  ASSUME AnswerInv, Shaped, [Next]_vars
  PROVE  Shaped'
<1>1. CASE PlanEntity
  BY <1>1, PlanEntityTyped
<1>2. CASE FinishSubPlanner
  BY <1>2, FinishTyped
<1>3. CASE ~(PlanEntity \/ FinishSubPlanner)
  <2>1. /\ UNCHANGED <<input, diagnostics, skipped>>
        /\ \/ UNCHANGED <<part, plan>>
           \/ part' = Nothing /\ plan' = EmptyPlan
    BY <1>3 DEF Next, Step, Begin, IndexEntity, IndexDone, CheckReferences, BeginSignal, CrossCheck,
                CheckBudget, CheckStrict, ValidatePlan, Cancel, Stopped, Fail, vars
  <2> QED
    BY <2>1, EmptyShapes DEF Shaped
<1> QED
  BY <1>1, <1>2, <1>3

LEMMA PositionStep ==
  ASSUME AnswerInv, AnswerInv', TypeOK, [Next]_vars
  PROVE  at' \in 1..(Len(Walked(pc', input')) + 1)
<1>1. input' = input
  BY InputStays
<1>2. CASE UNCHANGED <<pc, at>>
  BY <1>1, <1>2 DEF TypeOK
<1>3. CASE ~UNCHANGED <<pc, at>>
  <2>1. CASE ~(IndexEntity \/ PlanEntity)
    <3>1. at' = 1
      BY <1>3, <2>1 DEF Next, Step, Begin, IndexDone, CheckReferences, BeginSignal, FinishSubPlanner,
         CrossCheck, CheckBudget, CheckStrict, ValidatePlan, Cancel, Stopped, Fail, Goto, vars
    <3> QED
      BY <1>1, <3>1, PositionTyped
  <2>2. CASE pc' \in EntityKinds \cup SubPlanners \/ at' = 1
    BY <1>1, <2>2, PositionTyped
  <2>3. IndexEntity \/ PlanEntity => pc' \in EntityKinds \cup SubPlanners \/ at' = 1
    BY DEF IndexEntity, PlanEntity, Stopped, Fail, Goto
  <2> QED
    BY <2>1, <2>2, <2>3
<1> QED
  BY <1>2, <1>3

LEMMA NextTyped == AnswerInv /\ AnswerInv' /\ TypeOK /\ [Next]_vars => TypeOK'
<1> SUFFICES ASSUME AnswerInv, AnswerInv', TypeOK, [Next]_vars PROVE TypeOK'
  OBVIOUS
<1>1. Shaped
  BY DEF TypeOK, Shaped, ResultsOver
<1>2. Shaped'
  BY <1>1, ShapeStays
<1>3. violations' \subseteq Faults
  <2>1. violations \subseteq Faults
    BY DEF TypeOK, Faults
  <2> QED
    BY <1>1, <2>1, ViolationsTyped DEF vars
<1>4. at' \in 1..(Len(Walked(pc', input')) + 1)
  BY PositionStep
<1>5. cancelled' \in BOOLEAN
  BY DEF TypeOK, Next, Step, Begin, IndexEntity, IndexDone, CheckReferences, BeginSignal, PlanEntity,
         FinishSubPlanner, CrossCheck, CheckBudget, CheckStrict, ValidatePlan, Cancel, vars
<1>6. /\ input' \in [doc : Documents, policy : Policies, wired : Wirings]
      /\ pc' \in Stages /\ index' \in [EntityKinds -> SUBSET Nat]
  BY DEF AnswerInv, IndexInv
<1> QED
  BY <1>2, <1>3, <1>4, <1>5, <1>6 DEF TypeOK, Shaped, Faults, ResultsOver

\* Type correctness of the planner for every document, policy and wiring: a name
\* is made of words of the document and of the mapping tables, and no stage
\* leaves the list it walks.
THEOREM TypeCorrect == Spec => []TypeOK
BY InitTyped, NextTyped, InitAnswer, NextAnswer, PTL DEF Spec
==============================================================================
