\* Three runs at once on an empty directory, nothing fails.
SPECIFICATION Spec
CONSTANTS
  p1 = p1
  p2 = p2
  p3 = p3
  Proc = {p1, p2, p3}
  User = User
  N = 1
  Forced = {p1, p2, p3}
  Mode = "concurrent"
  FaultPoints = {}
  MaxFaults = 0
  MaxCrashes = 0
SYMMETRY Symmetry
INVARIANTS
  MutualExclusion
