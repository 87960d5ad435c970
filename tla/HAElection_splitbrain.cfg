SPECIFICATION FairSpec
CONSTANTS
  Master <- Two
  Peers <- FullMesh
  Deference <- NobodyDefers
  MaxTerm = 1
  MaxCrashes = 0
  MaxLate = 0
  None = None
CHECK_DEADLOCK FALSE
PROPERTY SplitBrainHeals
