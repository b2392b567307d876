\* Two calls of one chain, such as reflect.TypeOf(x).Elem().Name().
SPECIFICATION Spec
CONSTANTS
  Inputs <- Chains
INVARIANT
  UnresolvedCallsDoNotInterrupt
CHECK_DEADLOCK FALSE
