------------------------------- MODULE Planner -------------------------------
(***************************************************************************)
(* Planner.Plan (generator/planner/planner.go): validation of the analysed *)
(* document, the enabled signal sub-planners, the checks across them, and  *)
(* a plan or an error.  The caller's context may be cancelled at any       *)
(* moment; the code looks at it at each entity and between the stages, and *)
(* pc and at say where it is.                                              *)
(***************************************************************************)
EXTENDS Plans

CONSTANTS Documents, Policies, Wirings   \* documents, policies, sets of signals with a planner

ASSUME DocumentsAssumption ==
  \A d \in Documents, k \in EntityKinds : d[k] \in Seq(EntityFields[k])

ASSUME WiringsAssumption == \A w \in Wirings : w \subseteq Signals

ASSUME PoliciesAssumption == \A p \in Policies : p.signals \subseteq Signals

VARIABLES
  input,        \* document, policy and wiring of this call
  cancelled,    \* the context is done
  pc, at,       \* stage, and position in the list the stage walks
  index,        \* IDs seen, by kind of entity
  violations,   \* of the document or of the merged plan
  part,         \* result of the sub-planner at work
  plan,         \* items by signal
  diagnostics,  \* warnings of the finished sub-planners
  skipped       \* report.Skipped

vars == <<input, cancelled, pc, at, index, violations, part, plan, diagnostics, skipped>>

CrossChecks == {"cross_metrics", "cross_tracing", "cross_logging"}
Final == {"planned", "failed"}
Stages == {"start", "references", "budget", "strict", "validate"} \cup EntityKinds
            \cup Signals \cup SubPlanners \cup CrossChecks \cup Final

\* The stage that follows, and the first sub-planner of a signal.
After == [start |-> "function", function |-> "endpoint", endpoint |-> "dependency",
          dependency |-> "edge", edge |-> "references", references |-> "metrics",
          metrics |-> "tracing", tracing |-> "logging", logging |-> "cross_metrics",
          endpoint_metrics |-> "dependency_metrics", dependency_metrics |-> "tracing",
          root_spans |-> "child_spans", child_spans |-> "internal_spans",
          internal_spans |-> "logging", endpoint_logs |-> "dependency_logs",
          dependency_logs |-> "cross_metrics", cross_metrics |-> "cross_tracing",
          cross_tracing |-> "cross_logging", cross_logging |-> "budget",
          budget |-> "strict", strict |-> "validate", validate |-> "planned"]
First == [metrics |-> "endpoint_metrics", tracing |-> "root_spans", logging |-> "endpoint_logs"]

Checked == [cross_metrics |-> "metrics", cross_tracing |-> "tracing", cross_logging |-> "logging"]

\* The list stage s walks, if it walks one.
Walked(s, in) ==
  IF s \in EntityKinds THEN in.doc[s] ELSE IF s \in SubPlanners THEN Entities(s, in) ELSE <<>>

EmptyPlan == [s \in Signals |-> {}]
AllItems == UNION Range(plan)
------------------------------------------------------------------------------
Init ==
  /\ input \in [doc : Documents, policy : Policies, wired : Wirings]
  /\ cancelled = FALSE
  /\ pc = "start" /\ at = 1
  /\ index = [k \in EntityKinds |-> {}]
  /\ violations = {}
  /\ part = Nothing
  /\ plan = EmptyPlan
  /\ diagnostics = {}
  /\ skipped = [s \in Signals |-> 0]

Goto(stage) == pc' = stage /\ at' = 1

\* Every error returns a nil plan.
Fail ==
  /\ Goto("failed")
  /\ plan' = EmptyPlan /\ part' = Nothing
  /\ UNCHANGED <<index, violations, diagnostics, skipped>>

\* A look at the context that finds it done.
Stopped == cancelled /\ Fail

\* The caller cancels.
Cancel ==
  /\ pc \notin Final /\ ~cancelled
  /\ cancelled' = TRUE
  /\ UNCHANGED <<input, pc, at, index, violations, part, plan, diagnostics, skipped>>
------------------------------------------------------------------------------
(* Validation of the document *)

\* A document of another schema version is refused before it is walked.
Begin ==
  /\ pc = "start"
  /\ \/ Stopped
     \/ ~cancelled /\ input.doc.schema # "v1" /\ Fail
     \/ /\ ~cancelled /\ input.doc.schema = "v1"
        /\ Goto(After[pc])
        /\ UNCHANGED <<index, violations, part, plan, diagnostics, skipped>>
  /\ UNCHANGED <<input, cancelled>>

\* One entity enters the index of its kind.
IndexEntity ==
  /\ pc \in EntityKinds /\ at <= Len(input.doc[pc])
  /\ \/ Stopped
     \/ LET id == input.doc[pc][at].id
        IN  /\ ~cancelled
            /\ IF id = NoId \/ id \in index[pc]
                 THEN /\ violations' = violations \cup {Violation("GEN_INVALID_IR", id)}
                      /\ UNCHANGED index
                 ELSE /\ index' = [index EXCEPT ![pc] = @ \cup {id}]
                      /\ UNCHANGED violations
            /\ at' = at + 1
            /\ UNCHANGED <<pc, part, plan, diagnostics, skipped>>
  /\ UNCHANGED <<input, cancelled>>

\* Mutant: the position in one list is carried over to the next.
IndexDoneInPlace ==
  /\ pc \in EntityKinds /\ at > Len(input.doc[pc])
  /\ pc' = After[pc] /\ UNCHANGED at
  /\ UNCHANGED <<input, cancelled, index, violations, part, plan, diagnostics, skipped>>

IndexDone ==
  /\ pc \in EntityKinds /\ at > Len(input.doc[pc])
  /\ Goto(After[pc])
  /\ UNCHANGED <<input, cancelled, index, violations, part, plan, diagnostics, skipped>>

\* Mutant: what a function refers to is not looked up.
CheckReferencesOfUsers ==
  /\ pc = "references"
  /\ violations' = violations \cup Dangling([input.doc EXCEPT !.function = <<>>], index)
                                \cup Unspecified(input.doc)
  /\ IF violations' # {} THEN Goto("failed") ELSE Goto(After[pc])
  /\ UNCHANGED <<input, cancelled, index, part, plan, diagnostics, skipped>>

CheckReferences ==
  /\ pc = "references"
  /\ violations' = violations \cup Dangling(input.doc, index) \cup Unspecified(input.doc)
  /\ IF violations' # {} THEN Goto("failed") ELSE Goto(After[pc])
  /\ UNCHANGED <<input, cancelled, index, part, plan, diagnostics, skipped>>
------------------------------------------------------------------------------
(* The sub-planners *)

\* Mutant: the context is not looked at between the signals.
BeginSignalUnchecked ==
  /\ pc \in Signals
  /\ \/ pc \in input.policy.signals \ input.wired /\ Fail
     \/ /\ \/ pc \notin input.policy.signals /\ Goto(After[pc])
           \/ pc \in input.policy.signals \cap input.wired /\ Goto(First[pc])
        /\ UNCHANGED <<index, violations, part, plan, diagnostics, skipped>>
  /\ UNCHANGED <<input, cancelled>>

\* A look at the context, then the sub-planners of the signal if it is enabled.
BeginSignal ==
  /\ pc \in Signals
  /\ \/ Stopped
     \/ ~cancelled /\ pc \in input.policy.signals \ input.wired /\ Fail
     \/ /\ ~cancelled
        /\ \/ pc \notin input.policy.signals /\ Goto(After[pc])
           \/ pc \in input.policy.signals \cap input.wired /\ Goto(First[pc])
        /\ UNCHANGED <<index, violations, part, plan, diagnostics, skipped>>
  /\ UNCHANGED <<input, cancelled>>

Plus(result, more) ==
  [items |-> result.items \cup more.items,
   diagnostics |-> result.diagnostics \cup more.diagnostics,
   skipped |-> result.skipped + more.skipped]

\* Mutant: a sub-planner that is cancelled hands over what it has.
PlanEntityPartial ==
  /\ pc \in SubPlanners /\ at <= Len(Entities(pc, input))
  /\ IF cancelled THEN at' = Len(Entities(pc, input)) + 1 /\ UNCHANGED part
     ELSE at' = at + 1 /\ part' = Plus(part, PlanOf(pc, input, Entities(pc, input)[at]))
  /\ UNCHANGED <<input, cancelled, pc, index, violations, plan, diagnostics, skipped>>

\* Mutant: a skipped entity leaves no trace.
PlanEntitySilently ==
  /\ pc \in SubPlanners /\ at <= Len(Entities(pc, input))
  /\ \/ Stopped
     \/ /\ ~cancelled
        /\ LET result == PlanOf(pc, input, Entities(pc, input)[at])
           IN  part' = IF result.skipped = 1 THEN part ELSE Plus(part, result)
        /\ at' = at + 1
        /\ UNCHANGED <<pc, index, violations, plan, diagnostics, skipped>>
  /\ UNCHANGED <<input, cancelled>>

PlanEntity ==
  /\ pc \in SubPlanners /\ at <= Len(Entities(pc, input))
  /\ \/ Stopped
     \/ /\ ~cancelled
        /\ part' = Plus(part, PlanOf(pc, input, Entities(pc, input)[at]))
        /\ at' = at + 1
        /\ UNCHANGED <<pc, index, violations, plan, diagnostics, skipped>>
  /\ UNCHANGED <<input, cancelled>>

\* The end of a sub-planner: collisions among its own names, its own budget,
\* and the merge of its result into the plan and the report.
FinishSubPlanner ==
  LET signal == SignalOf[pc]
      named == IF pc \in Disambiguated THEN Disambiguate(part.items) ELSE part.items
      collisions == IF pc \in Disambiguated THEN Collisions(signal, part.items) ELSE {}
  IN  /\ pc \in SubPlanners /\ at > Len(Entities(pc, input))
      /\ \/ /\ signal = "metrics" /\ ~WithinLimits(named, input.policy)
            /\ Fail
         \/ /\ signal = "metrics" => WithinLimits(named, input.policy)
            /\ plan' = [plan EXCEPT ![signal] = @ \cup named]
            /\ diagnostics' = diagnostics \cup part.diagnostics \cup collisions
            /\ skipped' = [skipped EXCEPT ![signal] = @ + part.skipped]
            /\ part' = Nothing
            /\ Goto(After[pc])
            /\ UNCHANGED <<index, violations>>
      /\ UNCHANGED <<input, cancelled>>
------------------------------------------------------------------------------
(* Checks across the sub-planners *)

\* Index.Kind looks for a function first, then an endpoint, a dependency, an edge.
KindOf(id) ==
  IF id \in index["function"] THEN "function"
  ELSE IF id \in index["endpoint"] THEN "endpoint"
  ELSE IF id \in index["dependency"] THEN "dependency"
  ELSE IF id \in index["edge"] THEN "edge" ELSE Missing

Mismatched(items) ==
  {Violation("GEN_DANGLING_REFERENCE", x.target.id) :
     x \in {y \in items : KindOf(y.target.id) # y.target.kind}}

Duplicated(items) ==
  {Violation("GEN_INVALID_IR", x.target.id) :
     x \in {y \in items : \E z \in items \ {y} : StableID(z) = StableID(y)}}

\* The items of one signal are checked; a context found done on the way ends
\* the check with the violations found up to there, and is not an error.
CrossCheck ==
  /\ pc \in CrossChecks
  /\ LET items == plan[Checked[pc]]
         bad == Mismatched(items) \cup Duplicated(items)
     IN  \/ /\ ~cancelled
            /\ violations' = violations \cup bad
            /\ Goto(After[pc])
            /\ UNCHANGED cancelled
         \/ /\ cancelled' = TRUE
            /\ IF cancelled THEN UNCHANGED violations
               ELSE \E found \in SUBSET bad : violations' = violations \cup found
            /\ Goto("budget")
  /\ UNCHANGED <<input, index, part, plan, diagnostics, skipped>>

\* Mutant: the limits are only those of each sub-planner.
CheckBudgetOfParts ==
  /\ pc = "budget"
  /\ IF violations # {} THEN Fail
     ELSE Goto(After[pc]) /\ UNCHANGED <<index, violations, part, plan, diagnostics, skipped>>
  /\ UNCHANGED <<input, cancelled>>

\* Violations end the call; endpoint and dependency metrics share one budget.
CheckBudget ==
  /\ pc = "budget"
  /\ IF violations # {} \/ ~WithinLimits(plan["metrics"], input.policy) THEN Fail
     ELSE Goto(After[pc]) /\ UNCHANGED <<index, violations, part, plan, diagnostics, skipped>>
  /\ UNCHANGED <<input, cancelled>>

\* Strict mode turns any warning into an error.
CheckStrict ==
  /\ pc = "strict"
  /\ IF input.policy.strict /\ diagnostics # {} THEN Fail
     ELSE Goto(After[pc]) /\ UNCHANGED <<index, violations, part, plan, diagnostics, skipped>>
  /\ UNCHANGED <<input, cancelled>>

\* The index of ValidateGenerationPlan: a later kind overwrites an earlier one.
EntityKind(id) ==
  LET Has(kind) == \E e \in Range(input.doc[kind]) : e.id = id
  IN  IF Has("edge") THEN "edge" ELSE IF Has("dependency") THEN "dependency"
      ELSE IF Has("function") THEN "function" ELSE IF Has("endpoint") THEN "endpoint"
      ELSE Missing

\* Mutant: the last look at the plan trusts its targets.
ValidatePlanIDs ==
  /\ pc = "validate"
  /\ IF \E x, y \in AllItems : x # y /\ StableID(x) = StableID(y) THEN Fail
     ELSE Goto(After[pc]) /\ UNCHANGED <<index, violations, part, plan, diagnostics, skipped>>
  /\ UNCHANGED <<input, cancelled>>

\* The last look at the plan, which no cancellation skips.
ValidatePlan ==
  /\ pc = "validate"
  /\ IF \/ \E x, y \in AllItems : x # y /\ StableID(x) = StableID(y)
        \/ \E x \in AllItems : EntityKind(x.target.id) # x.target.kind
       THEN Fail
       ELSE Goto(After[pc]) /\ UNCHANGED <<index, violations, part, plan, diagnostics, skipped>>
  /\ UNCHANGED <<input, cancelled>>
------------------------------------------------------------------------------
Step ==
  \/ Begin \/ IndexEntity \/ IndexDone \/ CheckReferences
  \/ BeginSignal \/ PlanEntity \/ FinishSubPlanner
  \/ CrossCheck \/ CheckBudget \/ CheckStrict \/ ValidatePlan

Next == Step \/ Cancel

Spec == Init /\ [][Next]_vars
------------------------------------------------------------------------------
(* Properties *)

Purposes == {"count", "duration", "in_flight", "duration_summary", "root", "child",
             "started", "completed", "failed"}
Codes == {"GEN_UNSUPPORTED_ENTITY", "GEN_INCOMPLETE_TARGET", "GEN_NAME_COLLISION",
          "GEN_SENSITIVE_VALUE_DROPPED"}

\* The words a name is made of: texts of the document and constants of the mapping.
Words(doc) ==
  (UNION {{f.name, f.norm} : f \in Range(doc.function)})
    \cup (UNION {{e.op, e.route} : e \in Range(doc.endpoint)})
    \cup {d.op : d \in Range(doc.dependency)}
    \cup Range(System) \cup Range(SpanSystem) \cup EndpointKinds \cup DependencyKinds
    \cup Purposes \cup {"op", "unknown"}

ItemsOver(words) ==
  [signal : Signals, target : [kind : EntityKinds, id : Nat], purpose : Purposes,
   base : Seq(words), suffix : Nat]
Diagnostics == [code : Codes, signal : Signals, target : Nat]

\* Types of the planner's state, its position within the list the stage walks, and
\* names made of what the document and the mapping tables hold.
TypeOK ==
  LET items == SUBSET ItemsOver(Words(input.doc)) IN
  /\ input \in [doc : Documents, policy : Policies, wired : Wirings]
  /\ cancelled \in BOOLEAN
  /\ pc \in Stages /\ at \in 1..(Len(Walked(pc, input)) + 1)
  /\ index \in [EntityKinds -> SUBSET Nat]
  /\ violations \subseteq [code : {"GEN_INVALID_IR", "GEN_DANGLING_REFERENCE"}, id : Nat]
  /\ part \in [items : items, diagnostics : SUBSET Diagnostics, skipped : Nat]
  /\ plan \in [Signals -> items] /\ diagnostics \subseteq Diagnostics
  /\ skipped \in [Signals -> Nat]

\* Every plan handed to the renderers has unique IDs, and one target ID names
\* one entity throughout, although IDs are only unique by kind in the document
\* and a cancellation may cut the cross-check short.
PlanIsSound ==
  pc = "planned" =>
    \A x, y \in AllItems :
      /\ StableID(x) = StableID(y) => x = y
      /\ x.target.id = y.target.id => x.target.kind = y.target.kind

\* The two metrics sub-planners together stay within the limits of the policy.
WithinBudget == pc = "planned" => WithinLimits(plan["metrics"], input.policy)

\* In strict mode a plan covers every entity of the enabled signals, none of
\* them skipped, incomplete, stripped of a field or renamed.
StrictPlansAreExact ==
  (pc = "planned" /\ input.policy.strict) =>
    \A s \in SubPlanners : SignalOf[s] \in input.policy.signals =>
      /\ \A e \in Range(Entities(s, input)) : PlanOf(s, input, e).diagnostics = {}
      /\ s \in Disambiguated =>
           \A x \in plan[SignalOf[s]] : x.target.kind = SourceOf[s] => x.suffix = NoId

\* No two dependency metrics and no two spans of one family share a name.
DistinctNames ==
  \A s \in Disambiguated : pc = "planned" =>
    \A x, y \in plan[SignalOf[s]] :
      (x.target.kind = SourceOf[s] /\ y.target.kind = SourceOf[s] /\ NameOf(x) = NameOf(y))
        => x = y

\* A plan is made only of a document whose IDs are unique and whose references
\* resolve: names are looked up in it without a further check.
InvalidDocumentsRefused == pc = "planned" => WellFormed(input.doc)

Call == INSTANCE Answer WITH
  Requests <- [doc : Documents, policy : Policies, wired : Wirings],
  Complete <- CompletePlan,
  request <- input,
  answer <- IF pc = "planned" THEN [kind |-> "result", result |-> plan]
            ELSE IF pc = "failed" THEN [kind |-> "refusal"] ELSE [kind |-> "none"]

\* Whatever the moment of a cancellation and whatever fails, the caller gets the
\* complete plan of all enabled signals or no plan at all.
CompleteOrNothing == Call!Spec

Early == {"start", "references"} \cup EntityKinds \cup Signals
           \cup {s \in SubPlanners : SignalOf[s] # "logging"}

\* A cancellation before the last signal begins is never lost.
EarlyCancellationFails ==
  [][cancelled /\ pc \in Early => pc' \in Early \cup {"failed"}]_vars
==============================================================================
