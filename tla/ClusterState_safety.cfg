SPECIFICATION Spec
CONSTANTS
  NJobs = 2
  NWorkers = 2
  Submissions <- OneKindOfJob
  Registrations <- SmallWorker
  MaxJobsPerWorker = 10
  Resource <- OneResource
  Clamped <- OneResource
  Tag <- NoTags
  HealthyAge = 1
  TimeoutAge = 0
  MaxAge = 0
  None = None
CHECK_DEADLOCK FALSE
INVARIANTS TypeOK AssignmentWhole ScheduledIsLeased AttemptHasOneWorker ScheduledIsListed RetriesSpent
PROPERTY ImplementsLifecycle
