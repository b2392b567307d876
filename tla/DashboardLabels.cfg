\* An endpoint registered with a method but without a route the analyzer can read.
SPECIFICATION Spec
CONSTANTS
  Buckets = 2
  Quantiles = 1
  Uncontrolled <- MCUncontrolled
  MaxBreakdown = 2
  MaxOverviewQueries = 18
  MaxPanelsPerCategory = 14
  MaxQueriesPerCategory = 15
  MaxTargets = 3
  Inputs <- MCInputs
  Hash <- MCHash
INVARIANT
  QueriesReachTheirSeries
CHECK_DEADLOCK FALSE
