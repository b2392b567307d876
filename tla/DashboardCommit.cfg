\* Three concurrent runs, one of them without --force; any call may fail.
SPECIFICATION FairSpec
CONSTANTS
  p1 = p1
  p2 = p2
  p3 = p3
  Proc = {p1, p2, p3}
  Forced = {p1, p2}
  User = User
  Unsafe = Unsafe
  None = None
  Size = 2
  FaultPoints <- Calls
  MaxFaults = 2
  MaxCrashes = 1
INVARIANTS
  TypeOK
  MutualExclusion
  NeverTruncated
  SuccessIsDurable
  NoResidue
  FailedAfterPublishing
PROPERTIES
  OnlyOwnerUnlocks
  EveryRunEnds
  ReplacesAtomically
