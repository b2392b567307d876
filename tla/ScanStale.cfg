\* A variable with a request, or a connection, is given another that cannot be read.
SPECIFICATION Spec
CONSTANTS
  Inputs <- Overwritten
INVARIANT
  TargetsAreNotMadeUp
CHECK_DEADLOCK FALSE
