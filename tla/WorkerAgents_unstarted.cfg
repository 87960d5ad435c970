SPECIFICATION AgentFairSpec
CONSTANTS
  ReplyFails = TRUE
  NJobs = 1
  NWorkers = 1
  Submissions <- RetriedJob
  Registrations <- SmallWorker
  MaxJobsPerWorker = 10
  Resource <- OneResource
  Clamped <- OneResource
  Tag <- NoTags
  HealthyAge = 1
  TimeoutAge = 0
  MaxAge = 0
  None = None
CHECK_DEADLOCK FALSE
PROPERTY AssignedIsStarted
