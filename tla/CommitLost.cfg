\* One run whose renames may fail.
SPECIFICATION Spec
CONSTANTS
  p1 = p1
  Proc = {p1}
  User = User
  N = 2
  Forced = {p1}
  Mode = "serial"
  FaultPoints = {"replace"}
  MaxFaults = 1
  MaxCrashes = 0
INVARIANTS
  FailedRunRestoresOrReports
