SPECIFICATION TimelySpec
CONSTANTS
  NJobs = 2
  NWorkers = 2
  Submissions <- RoundJobs
  Registrations <- RoundWorkers
  MaxJobsPerWorker = 3
  Resource <- TwoResources
  Clamped <- OneResource
  Tag <- GpuTag
  HealthyAge = 1
  TimeoutAge = 0
  MaxAge = 1
  None = None
CHECK_DEADLOCK FALSE
INVARIANTS RoundIsMaximal NoPriorityInversion NoOvercommit
