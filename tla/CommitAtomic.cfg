\* Two runs at once; calls fail, but no rename and no crash.
SPECIFICATION FairSpec
CONSTANTS
  p1 = p1
  p2 = p2
  Proc = {p1, p2}
  User = User
  N = 2
  Forced = {p1}
  Mode = "concurrent"
  FaultPoints <- Recoverable
  MaxFaults = 2
  MaxCrashes = 0
INVARIANTS
  SoleWriterUntilRefusal
PROPERTIES
  PublishesAllOrNothing
  EveryRunEnds
