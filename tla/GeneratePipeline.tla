--------------------------- MODULE GeneratePipeline ---------------------------
(***************************************************************************)
(* The middle of executeGenerate (cmd/si-cli/generate.go): the plan is made *)
(* and every enabled signal is rendered in memory, each renderer validating *)
(* its document first, before the commit stage (module FileCommit) touches  *)
(* a file.                                                                  *)
(***************************************************************************)
EXTENDS Planner

VARIABLES
  rendered,   \* signals whose bytes are ready
  result      \* "running", "ready" for the commit stage, or "failed"

pipelineVars == <<vars, rendered, result>>

PipelineInit == Init /\ rendered = {} /\ result = "running"

\* planDocument runs to its end; an error ends the command.
Plan ==
  /\ result = "running" /\ Step
  /\ result' = IF pc' = "failed" THEN "failed" ELSE "running"
  /\ UNCHANGED rendered

CancelPlan == Cancel /\ UNCHANGED <<rendered, result>>

\* What the document validation of a signal's renderer asks of its items.
Valid(signal, items) ==
  /\ \A x, y \in items : StableID(x) = StableID(y) => x = y
  /\ signal \in {"metrics", "tracing"} =>
       \A x, y \in items : NameOf(x) = NameOf(y) => x = y
  /\ signal = "logging" =>
       \A x, y \in items : (x.target = y.target /\ x.purpose = y.purpose) => x = y

\* One signal is rendered, or the command fails with nothing written.
Render ==
  /\ pc = "planned" /\ result = "running"
  /\ \E signal \in input.policy.signals \ rendered :
       IF Valid(signal, plan[signal])
         THEN rendered' = rendered \cup {signal} /\ UNCHANGED result
         ELSE rendered' = {} /\ result' = "failed"
  /\ UNCHANGED vars

\* Every enabled signal is rendered: the targets go to the commit stage (a dry
\* run ends here).
HandOver ==
  /\ pc = "planned" /\ result = "running" /\ rendered = input.policy.signals
  /\ result' = "ready"
  /\ UNCHANGED <<vars, rendered>>

\* The process has ended or entered the commit stage.
Ended == result # "running" /\ UNCHANGED pipelineVars

PipelineNext == Plan \/ CancelPlan \/ Render \/ HandOver \/ Ended

PipelineSpec == PipelineInit /\ [][PipelineNext]_pipelineVars
------------------------------------------------------------------------------
(* Properties *)

\* Names that collide within a signal are told apart by the planner, so that a
\* plan never fails to render for having one name twice.
PlansRender == ~(pc = "planned" /\ result = "failed")
==============================================================================
