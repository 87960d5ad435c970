SPECIFICATION PeerSpec
CONSTANTS
  ReplyFails = FALSE
  NJobs = 1
  NWorkers = 1
  Submissions <- RetriedJob
  Registrations <- SmallWorker
  MaxJobsPerWorker = 10
  Resource <- OneResource
  Clamped <- OneResource
  Tag <- NoTags
  HealthyAge = 1
  TimeoutAge = 0
  MaxAge = 0
  None = None
  MeshNode <- Nodes
  Slot <- Slots
  Nobody = Nobody
  MeshMaxTerm = 1
  MaxNet = 2
  MeshMaxCrashes = 1
  SyncMaster = {m1, m2}
  SyncWorker = {w1}
  SyncJob = {j1, j2}
  MaxPendingUpdates = 2
  MaxCopies = 2
  MaxPosted = 2
  SyncMaxAccepted = 2
  SyncMaxRestarts = 1
  Master = {m1, m2}
  NoMaster = NoMaster
  HAMaxCrashes = 2
CHECK_DEADLOCK FALSE
INVARIANTS MeshNotStuck 
PROPERTIES  AssignedIsResolved ItemsArriveOnce AgentFindsMaster
