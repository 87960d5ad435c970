SPECIFICATION AgentSpec
CONSTANTS
  ReplyFails = FALSE
  NJobs = 1
  NWorkers = 2
  Submissions <- RetriedJob
  Registrations <- SmallWorker
  MaxJobsPerWorker = 10
  Resource <- OneResource
  Clamped <- OneResource
  Tag <- NoTags
  HealthyAge = 1
  TimeoutAge = 0
  MaxAge = 0
  None = None
CHECK_DEADLOCK FALSE
INVARIANTS RunningIsAttended StopLeavesNothing LiveProcessHasTask
