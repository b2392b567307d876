\* Every pair of calls in one function and in two, chains, assignments, loader results, configurations.
SPECIFICATION Spec
CONSTANTS
  Inputs <- MCInputs
INVARIANTS
  TypeOK
  FailsOnlyOnTwins
  NothingIsLostSilently
  DocumentsArePlannable
  TargetsAreHeld
CHECK_DEADLOCK FALSE
