SPECIFICATION FairSpec
CONSTANTS
  Master <- Two
  Peers <- FullMesh
  Deference <- FirstDefers
  MaxTerm = 2
  MaxCrashes = 1
  MaxLate = 1
  None = None
CHECK_DEADLOCK FALSE
INVARIANTS TypeOK SchedulerOnlyWhenActive
PROPERTY LeaderEmerges
