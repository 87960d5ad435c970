SPECIFICATION FairSpec
CONSTANTS
  NJobs = 2
  NWorkers = 1
  Submissions <- BigAndSmallJob
  Registrations <- SmallWorker
  MaxJobsPerWorker = 10
  Resource <- OneResource
  Clamped <- OneResource
  Tag <- NoTags
  HealthyAge = 1
  TimeoutAge = 0
  MaxAge = 1
  None = None
CHECK_DEADLOCK FALSE
PROPERTY NotPassedOverForever
