\* Documents of up to two entities a kind, seven policies, a cancellation at any moment.
SPECIFICATION PipelineSpec
CONSTANTS
  Buckets = 2
  Quantiles = 1
  Documents <- MCDocuments
  Policies <- MCPolicies
  Wirings <- MCWirings
INVARIANTS
  TypeOK
  PlanIsSound
  WithinBudget
  StrictPlansAreExact
  DistinctNames
  InvalidDocumentsRefused
PROPERTIES
  CompleteOrNothing
  EarlyCancellationFails
