\* Two items of one signal with one name: the run finds the plan the renderer rejects.
SPECIFICATION PipelineSpec
CONSTANTS
  Buckets = 2
  Quantiles = 1
  Documents <- MCDocuments
  Policies <- MCPolicies
  Wirings <- MCWirings
INVARIANTS
  PlansRender
