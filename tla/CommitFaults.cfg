\* Four runs one after the other, the first without --force; any call may fail.
SPECIFICATION Spec
CONSTANTS
  p1 = p1
  p2 = p2
  p3 = p3
  p4 = p4
  Proc = {p1, p2, p3, p4}
  User = User
  N = 2
  Forced = {p2, p3, p4}
  Mode = "serial"
  FaultPoints <- Calls
  MaxFaults = 2
  MaxCrashes = 2
SYMMETRY Symmetry
INVARIANTS
  TypeOK
  NoTruncatedTarget
  RollbackRestores
  OriginalsRecoverable
  SuccessPublishesAll
  RefusalTouchesNothing
  NoResidue
  CrashCostsTwoRuns
