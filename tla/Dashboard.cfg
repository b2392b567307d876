\* Documents of up to four entities, every row, every limit, and hashes that collide.
SPECIFICATION Spec
CONSTANTS
  Buckets = 2
  Quantiles = 1
  Uncontrolled <- MCUncontrolled
  MaxBreakdown = 2
  MaxOverviewQueries = 18
  MaxPanelsPerCategory = 14
  MaxQueriesPerCategory = 15
  MaxTargets = 3
  Inputs <- MCInputs
  Hash <- MCHash
INVARIANTS
  TypeOK
  NothingOverlaps
  FailuresAreExplained
  EverythingIsShown
  CompleteQueriesReachTheirSeries
  StrictDashboardsAreComplete
PROPERTIES
  Terminates
CHECK_DEADLOCK FALSE
