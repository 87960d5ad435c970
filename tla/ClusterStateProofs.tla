------------------------- MODULE ClusterStateProofs -------------------------
(***************************************************************************)
(* Proofs about ClusterState, for any number of jobs and workers, any      *)
(* submissions and registrations, any scheduling policy and any limits.    *)
(***************************************************************************)
EXTENDS ClusterState, TLAPS

\* A job has a submission once it exists, a worker a registration.
RecordsExist ==
  /\ \A j \in Job : jstatus[j] # "ABSENT" => sub[j] \in Submissions
  /\ \A w \in registered : reg[w] \in Registrations

\* The scheduler works on jobs that are still waiting and on workers that are
\* still there, and has listed every job it chose a worker for.
RoundSound ==
  /\ \A j \in todo : jstatus[j] = "PENDING"
  /\ \A j \in Job : decided[j] # None =>
       /\ jstatus[j] = "PENDING"
       /\ decided[j] \in registered
       /\ active[decided[j]][j] > 0

\* A job is leased for its current attempt, and no attempt still to come has
\* been leased yet.
AttemptsOrdered ==
  /\ \A j \in Job : jlease[j] # None => jlease[j] = jretry[j]
  /\ \A l \in leases :
       /\ l.attempt <= jretry[l.job]
       /\ jstatus[l.job] \in {"ABSENT", "PENDING"} => l.attempt < jretry[l.job]

\* Only jobs that were submitted are listed anywhere.
ListedExist ==
  \A w \in Worker, j \in Job : active[w][j] > 0 => jstatus[j] # "ABSENT"

\* Jobs are assigned to workers that have registered, removed ones included.
AssignedToKnown == \A j \in Job : jworker[j] # None => reg[jworker[j]] # None

\* The inductive invariant.
MasterInv ==
  /\ TypeOK
  /\ RecordsExist
  /\ ListedExist
  /\ RoundSound
  /\ AttemptsOrdered
  /\ AssignmentWhole
  /\ ScheduledIsLeased
  /\ AttemptHasOneWorker
  /\ ScheduledIsListed
  /\ RetriesSpent

LEMMA InputFields ==
  /\ \A s \in Submissions : s.need \in Vector /\ s.maxRetries \in Nat
  /\ \A r \in Registrations : r.total \in Vector
BY InputsTyped DEF Submission, Registration

LEMMA AllocateTyped ==
  ASSUME NEW free \in Vector, NEW need \in Vector, FitsIn(need, free)
  PROVE  Allocate(free, need) \in Vector
BY DEF FitsIn, Allocate, Vector

LEMMA ReleaseTyped ==
  ASSUME NEW free \in Vector, NEW need \in Vector, NEW total \in Vector
  PROVE  Release(free, need, total) \in Vector
BY DEF Release, Vector

\* Freeing an assignment keeps the types, and deletes no lease but the job's.
LEMMA FreeAssignmentTyped ==
  ASSUME TypeOK, RecordsExist, NEW j \in Job, jstatus[j] # "ABSENT",
         FreeAssignment(j)
  PROVE  /\ avail' \in [Worker -> Vector]
         /\ active' \in [Worker -> [Job -> Nat]]
         /\ leases' \subseteq LeaseType
<1>1. sub[j].need \in Vector
  BY InputFields DEF RecordsExist
<1>2. avail' \in [Worker -> Vector]
  <2>1. CASE jworker[j] \in registered
    <3>1. reg[jworker[j]].total \in Vector
      BY <2>1, InputFields DEF RecordsExist
    <3>2. Release(avail[jworker[j]], sub[j].need, reg[jworker[j]].total)
            \in Vector
      BY <1>1, <2>1, <3>1, ReleaseTyped DEF TypeOK
    <3> QED BY <2>1, <3>2 DEF FreeAssignment, TypeOK
  <2>2. CASE jworker[j] \notin registered
    BY <2>2 DEF FreeAssignment, TypeOK
  <2> QED BY <2>1, <2>2
<1>3. active' \in [Worker -> [Job -> Nat]]
  <2>1. \A n \in Nat : RemoveOnce(n) \in Nat
    BY DEF RemoveOnce
  <2> QED BY <2>1 DEF FreeAssignment, TypeOK
<1>4. leases' \subseteq LeaseType
  BY DEF FreeAssignment, TypeOK
<1> QED BY <1>2, <1>3, <1>4

\* Whatever the short cut for a preferred worker, a candidate suits the job.
LEMMA CandidateSuits ==
  ASSUME NEW j, NEW w \in Candidates(j)
  PROVE  Suits(j, w)
BY DEF Candidates

LEMMA RegisterWorkerStep ==
  ASSUME MasterInv, NEW w \in Worker, NEW r \in Registrations,
         RegisterWorker(w, r)
  PROVE  MasterInv'
<1> USE NoneIsNew DEF MasterInv, TypeOK, JobStatus, Terminal, LeaseType, Idle,
          jobVars, workerVars, roundVars, RegisterWorker
<1>1. TypeOK'
  BY InputFields
<1>2. RecordsExist'
  BY DEF RecordsExist
<1>3. ListedExist'
  BY DEF ListedExist
<1>4. RoundSound'
  BY DEF RoundSound
<1>5. AttemptsOrdered'
  BY DEF AttemptsOrdered
<1>6. AssignmentWhole'
  BY DEF AssignmentWhole
<1>7. ScheduledIsLeased'
  BY DEF ScheduledIsLeased
<1>8. AttemptHasOneWorker'
  BY DEF AttemptHasOneWorker
<1>9. ScheduledIsListed'
  BY DEF ScheduledIsListed
<1>10. RetriesSpent'
  BY DEF RetriesSpent
<1> QED BY <1>1, <1>2, <1>3, <1>4, <1>5, <1>6, <1>7, <1>8, <1>9, <1>10

LEMMA HeartbeatStep ==
  ASSUME MasterInv, NEW w \in Worker, NEW overloaded \in BOOLEAN,
         Heartbeat(w, overloaded)
  PROVE  MasterInv'
<1> USE NoneIsNew DEF MasterInv, TypeOK, JobStatus, Terminal, LeaseType, Idle,
          jobVars, workerVars, roundVars, Heartbeat
<1>1. TypeOK'
  <2>1. 0 \in 0 .. MaxAge
    BY AgesAreNat
  <2> QED BY <2>1
<1>2. RecordsExist'
  BY DEF RecordsExist
<1>3. ListedExist'
  BY DEF ListedExist
<1>4. RoundSound'
  BY DEF RoundSound
<1>5. AttemptsOrdered'
  BY DEF AttemptsOrdered
<1>6. AssignmentWhole'
  BY DEF AssignmentWhole
<1>7. ScheduledIsLeased'
  BY DEF ScheduledIsLeased
<1>8. AttemptHasOneWorker'
  BY DEF AttemptHasOneWorker
<1>9. ScheduledIsListed'
  BY DEF ScheduledIsListed
<1>10. RetriesSpent'
  BY DEF RetriesSpent
<1> QED BY <1>1, <1>2, <1>3, <1>4, <1>5, <1>6, <1>7, <1>8, <1>9, <1>10

LEMMA RemoveWorkerStep ==
  ASSUME MasterInv, NEW w \in Worker, RemoveWorker(w)
  PROVE  MasterInv'
<1> USE NoneIsNew DEF MasterInv, TypeOK, JobStatus, Terminal, LeaseType, Idle,
          jobVars, workerVars, roundVars, RemoveWorker, IsTerminal, Terminal
<1>1. TypeOK'
  OBVIOUS
<1>2. RecordsExist'
  <2>1. \A j \in Job : active[w][j] > 0 => jstatus[j] # "ABSENT"
    BY DEF ListedExist
  <2> QED BY <2>1 DEF RecordsExist
<1>3. ListedExist'
  BY DEF ListedExist
<1>4. RoundSound'
  BY DEF RoundSound
<1>5. AttemptsOrdered'
  BY DEF AttemptsOrdered
<1>6. AssignmentWhole'
  BY DEF AssignmentWhole
<1>7. ScheduledIsLeased'
  BY DEF ScheduledIsLeased
<1>8. AttemptHasOneWorker'
  BY DEF AttemptHasOneWorker
<1>9. ScheduledIsListed'
  BY DEF ScheduledIsListed
<1>10. RetriesSpent'
  BY DEF RetriesSpent
<1> QED BY <1>1, <1>2, <1>3, <1>4, <1>5, <1>6, <1>7, <1>8, <1>9, <1>10

LEMMA GrowSilentStep ==
  ASSUME MasterInv, NEW w \in Worker, GrowSilent(w)
  PROVE  MasterInv'
<1> USE NoneIsNew DEF MasterInv, TypeOK, JobStatus, Terminal, LeaseType, Idle,
          jobVars, workerVars, roundVars, GrowSilent
<1>1. TypeOK'
  <2>1. age[w] + 1 \in 0 .. MaxAge
    BY AgesAreNat
  <2> QED BY <2>1
<1>2. RecordsExist'
  BY DEF RecordsExist
<1>3. ListedExist'
  BY DEF ListedExist
<1>4. RoundSound'
  BY DEF RoundSound
<1>5. AttemptsOrdered'
  BY DEF AttemptsOrdered
<1>6. AssignmentWhole'
  BY DEF AssignmentWhole
<1>7. ScheduledIsLeased'
  BY DEF ScheduledIsLeased
<1>8. AttemptHasOneWorker'
  BY DEF AttemptHasOneWorker
<1>9. ScheduledIsListed'
  BY DEF ScheduledIsListed
<1>10. RetriesSpent'
  BY DEF RetriesSpent
<1> QED BY <1>1, <1>2, <1>3, <1>4, <1>5, <1>6, <1>7, <1>8, <1>9, <1>10

LEMMA CheckWorkerHealthStep ==
  ASSUME MasterInv, CheckWorkerHealth
  PROVE  MasterInv'
<1> USE NoneIsNew DEF MasterInv, TypeOK, JobStatus, Terminal, LeaseType, Idle,
          jobVars, workerVars, roundVars, CheckWorkerHealth
<1>1. TypeOK'
  OBVIOUS
<1>2. RecordsExist'
  BY DEF RecordsExist
<1>3. ListedExist'
  BY DEF ListedExist
<1>4. RoundSound'
  BY DEF RoundSound
<1>5. AttemptsOrdered'
  BY DEF AttemptsOrdered
<1>6. AssignmentWhole'
  BY DEF AssignmentWhole
<1>7. ScheduledIsLeased'
  BY DEF ScheduledIsLeased
<1>8. AttemptHasOneWorker'
  BY DEF AttemptHasOneWorker
<1>9. ScheduledIsListed'
  BY DEF ScheduledIsListed
<1>10. RetriesSpent'
  BY DEF RetriesSpent
<1> QED BY <1>1, <1>2, <1>3, <1>4, <1>5, <1>6, <1>7, <1>8, <1>9, <1>10

LEMMA SubmitJobStep ==
  ASSUME MasterInv, NEW j \in Job, NEW s \in Submissions, SubmitJob(j, s)
  PROVE  MasterInv'
<1> USE NoneIsNew DEF MasterInv, TypeOK, JobStatus, Terminal, LeaseType, Idle,
          jobVars, workerVars, roundVars, SubmitJob
<1>1. TypeOK'
  OBVIOUS
<1>2. RecordsExist'
  BY DEF RecordsExist
<1>3. ListedExist'
  BY DEF ListedExist
<1>4. RoundSound'
  BY DEF RoundSound
<1>5. AttemptsOrdered'
  BY DEF AttemptsOrdered
<1>6. AssignmentWhole'
  BY DEF AssignmentWhole
<1>7. ScheduledIsLeased'
  BY DEF ScheduledIsLeased
<1>8. AttemptHasOneWorker'
  BY DEF AttemptHasOneWorker
<1>9. ScheduledIsListed'
  BY DEF ScheduledIsListed
<1>10. RetriesSpent'
  BY DEF RetriesSpent
<1> QED BY <1>1, <1>2, <1>3, <1>4, <1>5, <1>6, <1>7, <1>8, <1>9, <1>10

LEMMA StartJobStep ==
  ASSUME MasterInv, NEW j \in Job, NEW w \in Worker, StartJob(j, w)
  PROVE  MasterInv'
<1> USE NoneIsNew DEF MasterInv, TypeOK, JobStatus, Terminal, LeaseType, Idle,
          jobVars, workerVars, roundVars, StartJob
<1>1. TypeOK'
  OBVIOUS
<1>2. RecordsExist'
  <2>1. jworker[j] # None
    BY DEF Worker
  <2>2. jstatus[j] # "ABSENT"
    BY <2>1 DEF AssignmentWhole
  <2> QED BY <2>2 DEF RecordsExist
<1>3. ListedExist'
  BY DEF ListedExist
<1>4. RoundSound'
  BY DEF RoundSound
<1>5. AttemptsOrdered'
  BY DEF AttemptsOrdered
<1>6. AssignmentWhole'
  <2>1. jworker[j] # None
    BY DEF Worker
  <2> QED BY <2>1 DEF AssignmentWhole
<1>7. ScheduledIsLeased'
  BY DEF ScheduledIsLeased
<1>8. AttemptHasOneWorker'
  BY DEF AttemptHasOneWorker
<1>9. ScheduledIsListed'
  BY DEF ScheduledIsListed
<1>10. RetriesSpent'
  BY DEF RetriesSpent
<1> QED BY <1>1, <1>2, <1>3, <1>4, <1>5, <1>6, <1>7, <1>8, <1>9, <1>10

LEMMA CompleteJobStep ==
  ASSUME MasterInv, NEW j \in Job, NEW w \in Worker, NEW success \in BOOLEAN,
         CompleteJob(j, w, success)
  PROVE  MasterInv'
<1> USE NoneIsNew DEF MasterInv, TypeOK, JobStatus, Terminal, LeaseType, Idle,
          jobVars, workerVars, roundVars, CompleteJob, CanRetry, FreeAssignment
<1>1. TypeOK'
  <2>1. jstatus[j] # "ABSENT"
    BY DEF AssignmentWhole
  <2>2. /\ avail' \in [Worker -> Vector]
        /\ active' \in [Worker -> [Job -> Nat]]
        /\ leases' \subseteq LeaseType
    BY <2>1, FreeAssignmentTyped
  <2> QED BY <2>2
<1>2. RecordsExist'
  BY DEF RecordsExist, AssignmentWhole
<1>3. ListedExist'
  <2>1. \A n \in Nat : RemoveOnce(n) > 0 => n > 0
    BY DEF RemoveOnce
  <2> QED BY <2>1 DEF ListedExist
<1>4. RoundSound'
  BY DEF RoundSound
<1>5. AttemptsOrdered'
  BY DEF AttemptsOrdered
<1>6. AssignmentWhole'
  BY DEF AssignmentWhole
<1>7. ScheduledIsLeased'
  BY DEF ScheduledIsLeased
<1>8. AttemptHasOneWorker'
  BY DEF AttemptHasOneWorker
<1>9. ScheduledIsListed'
  BY DEF ScheduledIsListed
<1>10. RetriesSpent'
  <2>1. sub[j].maxRetries \in Nat /\ jretry[j] \in Nat
    BY InputFields DEF RecordsExist, AssignmentWhole
  <2> QED BY <2>1 DEF RetriesSpent
<1> QED BY <1>1, <1>2, <1>3, <1>4, <1>5, <1>6, <1>7, <1>8, <1>9, <1>10

LEMMA CancelJobStep ==
  ASSUME MasterInv, NEW j \in Job, CancelJob(j)
  PROVE  MasterInv'
<1> USE NoneIsNew DEF MasterInv, TypeOK, JobStatus, Terminal, LeaseType, Idle,
          jobVars, workerVars, roundVars, CancelJob, FreeAssignment, IsTerminal, Terminal
<1>1. TypeOK'
  <2>1. /\ avail' \in [Worker -> Vector]
        /\ active' \in [Worker -> [Job -> Nat]]
        /\ leases' \subseteq LeaseType
    BY FreeAssignmentTyped
  <2> QED BY <2>1
<1>2. RecordsExist'
  BY DEF RecordsExist
<1>3. ListedExist'
  <2>1. \A n \in Nat : RemoveOnce(n) > 0 => n > 0
    BY DEF RemoveOnce
  <2> QED BY <2>1 DEF ListedExist
<1>4. RoundSound'
  BY DEF RoundSound
<1>5. AttemptsOrdered'
  BY DEF AttemptsOrdered
<1>6. AssignmentWhole'
  BY DEF AssignmentWhole
<1>7. ScheduledIsLeased'
  BY DEF ScheduledIsLeased
<1>8. AttemptHasOneWorker'
  BY DEF AttemptHasOneWorker
<1>9. ScheduledIsListed'
  BY DEF ScheduledIsListed
<1>10. RetriesSpent'
  BY DEF RetriesSpent
<1> QED BY <1>1, <1>2, <1>3, <1>4, <1>5, <1>6, <1>7, <1>8, <1>9, <1>10

LEMMA BeginRoundStep ==
  ASSUME MasterInv, BeginRound
  PROVE  MasterInv'
<1> USE NoneIsNew DEF MasterInv, TypeOK, JobStatus, Terminal, LeaseType, Idle,
          jobVars, workerVars, roundVars, BeginRound, Pending
<1>1. TypeOK'
  OBVIOUS
<1>2. RecordsExist'
  BY DEF RecordsExist
<1>3. ListedExist'
  BY DEF ListedExist
<1>4. RoundSound'
  BY DEF RoundSound
<1>5. AttemptsOrdered'
  BY DEF AttemptsOrdered
<1>6. AssignmentWhole'
  BY DEF AssignmentWhole
<1>7. ScheduledIsLeased'
  BY DEF ScheduledIsLeased
<1>8. AttemptHasOneWorker'
  BY DEF AttemptHasOneWorker
<1>9. ScheduledIsListed'
  BY DEF ScheduledIsListed
<1>10. RetriesSpent'
  BY DEF RetriesSpent
<1> QED BY <1>1, <1>2, <1>3, <1>4, <1>5, <1>6, <1>7, <1>8, <1>9, <1>10

LEMMA PlaceStep ==
  ASSUME MasterInv, NEW j \in Job, NEW w \in Worker, Place(j, w)
  PROVE  MasterInv'
<1> USE NoneIsNew DEF MasterInv, TypeOK, JobStatus, Terminal, LeaseType, Idle,
          jobVars, workerVars, roundVars, Place, IsNext
<1>1. TypeOK'
  <2>1. sub[j].need \in Vector
    BY InputFields DEF RecordsExist, RoundSound
  <2>2. Allocate(avail[w], sub[j].need) \in Vector
    BY <2>1, AllocateTyped, CandidateSuits DEF Suits
  <2> QED BY <2>2
<1>2. RecordsExist'
  BY DEF RecordsExist
<1>3. ListedExist'
  BY DEF ListedExist, RoundSound
<1>4. RoundSound'
  <2>1. w \in registered
    BY CandidateSuits DEF Suits, CanAcceptJobs
  <2>2. active'[w][j] > 0
    OBVIOUS
  <2> QED BY <2>1, <2>2 DEF RoundSound
<1>5. AttemptsOrdered'
  BY DEF AttemptsOrdered
<1>6. AssignmentWhole'
  BY DEF AssignmentWhole
<1>7. ScheduledIsLeased'
  BY DEF ScheduledIsLeased
<1>8. AttemptHasOneWorker'
  BY DEF AttemptHasOneWorker
<1>9. ScheduledIsListed'
  BY DEF ScheduledIsListed
<1>10. RetriesSpent'
  BY DEF RetriesSpent
<1> QED BY <1>1, <1>2, <1>3, <1>4, <1>5, <1>6, <1>7, <1>8, <1>9, <1>10

LEMMA SkipStep ==
  ASSUME MasterInv, NEW j \in Job, Skip(j)
  PROVE  MasterInv'
<1> USE NoneIsNew DEF MasterInv, TypeOK, JobStatus, Terminal, LeaseType, Idle,
          jobVars, workerVars, roundVars, Skip
<1>1. TypeOK'
  OBVIOUS
<1>2. RecordsExist'
  BY DEF RecordsExist
<1>3. ListedExist'
  BY DEF ListedExist
<1>4. RoundSound'
  BY DEF RoundSound
<1>5. AttemptsOrdered'
  BY DEF AttemptsOrdered
<1>6. AssignmentWhole'
  BY DEF AssignmentWhole
<1>7. ScheduledIsLeased'
  BY DEF ScheduledIsLeased
<1>8. AttemptHasOneWorker'
  BY DEF AttemptHasOneWorker
<1>9. ScheduledIsListed'
  BY DEF ScheduledIsListed
<1>10. RetriesSpent'
  BY DEF RetriesSpent
<1> QED BY <1>1, <1>2, <1>3, <1>4, <1>5, <1>6, <1>7, <1>8, <1>9, <1>10

LEMMA ScheduleJobsStep ==
  ASSUME MasterInv, ScheduleJobs
  PROVE  MasterInv'
<1> USE NoneIsNew DEF MasterInv, TypeOK, JobStatus, Terminal, LeaseType, Idle,
          jobVars, workerVars, roundVars, ScheduleJobs, Chosen
<1>1. TypeOK'
  OBVIOUS
<1>2. RecordsExist'
  BY DEF RecordsExist, RoundSound
<1>3. ListedExist'
  <2>1. ASSUME NEW w \in Worker, NEW j \in Job, active'[w][j] > 0
        PROVE  jstatus'[j] # "ABSENT"
    <3>1. CASE decided[j] = w
      <4>1. decided[j] # None
        BY <3>1 DEF Worker
      <4> QED BY <4>1
    <3>2. CASE decided[j] # w
      BY <2>1, <3>2 DEF ListedExist
    <3> QED BY <3>1, <3>2
  <2> QED BY <2>1 DEF ListedExist
<1>4. RoundSound'
  BY DEF RoundSound
<1>5. AttemptsOrdered'
  BY DEF AttemptsOrdered
<1>6. AssignmentWhole'
  BY DEF AssignmentWhole
<1>7. ScheduledIsLeased'
  BY DEF ScheduledIsLeased
<1>8. AttemptHasOneWorker'
  <2>1. \A l \in leases : l.job \in Chosen => l.attempt < jretry[l.job]
    BY DEF RoundSound, AttemptsOrdered
  <2>2. \A l \in leases, j \in Chosen : l.job = j => l.attempt # jretry[j]
    BY <2>1
  <2>3. ASSUME NEW l \in leases', NEW m \in leases',
               l.job = m.job, l.attempt = m.attempt
        PROVE  l = m
    <3>1. CASE l \in leases /\ m \in leases
      BY <2>3, <3>1 DEF AttemptHasOneWorker
    <3>2. CASE l \notin leases /\ m \notin leases
      BY <2>3, <3>2
    <3>3. CASE l \in leases /\ m \notin leases
      BY <2>2, <2>3, <3>3
    <3>4. CASE l \notin leases /\ m \in leases
      BY <2>2, <2>3, <3>4
    <3> QED BY <3>1, <3>2, <3>3, <3>4
  <2> QED BY <2>3 DEF AttemptHasOneWorker
<1>9. ScheduledIsListed'
  <2>1. ASSUME NEW j \in Job, jstatus'[j] = "SCHEDULED"
        PROVE  jworker'[j] \in registered /\ active'[jworker'[j]][j] > 0
    <3>1. CASE j \in Chosen
      BY <3>1 DEF RoundSound
    <3>2. CASE j \notin Chosen
      BY <2>1, <3>2 DEF ScheduledIsListed
    <3> QED BY <3>1, <3>2
  <2> QED BY <2>1 DEF ScheduledIsListed
<1>10. RetriesSpent'
  BY DEF RetriesSpent
<1> QED BY <1>1, <1>2, <1>3, <1>4, <1>5, <1>6, <1>7, <1>8, <1>9, <1>10

LEMMA InitStep == Init => MasterInv
<1> SUFFICES ASSUME Init PROVE MasterInv
  OBVIOUS
<1> USE NoneIsNew DEF Init
<1>1. TypeOK
  BY DEF TypeOK, JobStatus, Vector
<1>2. RecordsExist
  BY DEF RecordsExist
<1>3. ListedExist
  BY DEF ListedExist
<1>4. RoundSound
  BY DEF RoundSound
<1>5. AttemptsOrdered
  BY DEF AttemptsOrdered
<1>6. AssignmentWhole
  BY DEF AssignmentWhole
<1>7. ScheduledIsLeased /\ AttemptHasOneWorker
  BY DEF ScheduledIsLeased, AttemptHasOneWorker
<1>8. ScheduledIsListed /\ RetriesSpent
  BY DEF ScheduledIsListed, RetriesSpent
<1> QED BY <1>1, <1>2, <1>3, <1>4, <1>5, <1>6, <1>7, <1>8 DEF MasterInv

LEMMA StutterStep ==
  ASSUME MasterInv, UNCHANGED vars
  PROVE  MasterInv'
<1> USE DEF vars, MasterInv
<1>1. TypeOK'
  BY DEF TypeOK
<1>2. RecordsExist' /\ ListedExist' /\ RoundSound'
  BY DEF RecordsExist, ListedExist, RoundSound
<1>3. AttemptsOrdered' /\ AssignmentWhole'
  BY DEF AttemptsOrdered, AssignmentWhole
<1>4. ScheduledIsLeased' /\ AttemptHasOneWorker'
  BY DEF ScheduledIsLeased, AttemptHasOneWorker
<1>5. ScheduledIsListed' /\ RetriesSpent'
  BY DEF ScheduledIsListed, RetriesSpent
<1> QED BY <1>1, <1>2, <1>3, <1>4, <1>5

LEMMA MasterInvStep == MasterInv /\ [Next]_vars => MasterInv'
<1> SUFFICES ASSUME MasterInv, [Next]_vars PROVE MasterInv'
  OBVIOUS
<1>1. CASE WorkerStep
  BY <1>1, RegisterWorkerStep, HeartbeatStep, RemoveWorkerStep,
     GrowSilentStep, CheckWorkerHealthStep DEF WorkerStep
<1>2. CASE JobStep
  BY <1>2, SubmitJobStep, StartJobStep, CompleteJobStep, CancelJobStep
     DEF JobStep
<1>3. CASE RoundStep
  BY <1>3, BeginRoundStep, PlaceStep, SkipStep, ScheduleJobsStep
     DEF RoundStep
<1>4. CASE UNCHANGED vars
  BY <1>4, StutterStep
<1> QED BY <1>1, <1>2, <1>3, <1>4 DEF Next

\* Workers keep their registration, and jobs go to registered workers.
LEMMA AssignedStayKnown ==
  ASSUME MasterInv, AssignedToKnown, [Next]_vars
  PROVE  AssignedToKnown'
<1>1. \A w \in registered : reg[w] # None
  BY NoneIsNew, InputsTyped DEF MasterInv, RecordsExist
<1>2. \A w \in Worker : reg[w] # None => reg'[w] = reg[w]
  BY DEF Next, WorkerStep, JobStep, RoundStep, RegisterWorker, Heartbeat,
         RemoveWorker, GrowSilent, CheckWorkerHealth, SubmitJob, StartJob,
         CompleteJob, CancelJob, BeginRound, Place, Skip, ScheduleJobs, vars,
         workerVars, MasterInv, TypeOK
<1>3. \A j \in Job : jworker'[j] \in {None, jworker[j]} \cup registered
  <2>1. \A j \in Chosen : decided[j] \in registered
    BY DEF Chosen, MasterInv, RoundSound
  <2> QED BY <2>1
          DEF Next, WorkerStep, JobStep, RoundStep, RegisterWorker, Heartbeat,
              RemoveWorker, GrowSilent, CheckWorkerHealth, SubmitJob, StartJob,
              CompleteJob, CancelJob, BeginRound, Place, Skip, ScheduleJobs, vars,
              jobVars, MasterInv, TypeOK
<1>4. \A j \in Job : jworker[j] # None => jworker[j] \in Worker
  BY DEF MasterInv, TypeOK
<1>5. registered \subseteq Worker
  BY DEF MasterInv, TypeOK
<1> QED BY <1>1, <1>2, <1>3, <1>4, <1>5 DEF AssignedToKnown

LEMMA MasterInvAlways == Spec => []MasterInv
<1> QED BY InitStep, MasterInvStep, PTL DEF Spec

\* Whatever workers and clients send, the state keeps its shape.
THEOREM TypeCorrect == Spec => []TypeOK
<1>1. MasterInv => TypeOK
  BY DEF MasterInv
<1> QED BY <1>1, MasterInvAlways, PTL

\* No history of schedule_job, complete_job, cancel_job and remove_worker
\* leaves a job with half an assignment.
THEOREM AssignmentsAreWhole == Spec => []AssignmentWhole
<1>1. MasterInv => AssignmentWhole
  BY DEF MasterInv
<1> QED BY <1>1, MasterInvAlways, PTL

\* schedule_job's lease is there for as long as the job is scheduled.
THEOREM ScheduledJobsAreLeased == Spec => []ScheduledIsLeased
<1>1. MasterInv => ScheduledIsLeased
  BY DEF MasterInv
<1> QED BY <1>1, MasterInvAlways, PTL

\* retry_count grows whenever a job goes back to the queue, so no two leases,
\* those left behind by removed workers included, are for the same attempt.
THEOREM AttemptsHaveOneWorker == Spec => []AttemptHasOneWorker
<1>1. MasterInv => AttemptHasOneWorker
  BY DEF MasterInv
<1> QED BY <1>1, MasterInvAlways, PTL

\* remove_worker finds every scheduled job of the worker it removes.
THEOREM ScheduledJobsAreListed == Spec => []ScheduledIsListed
<1>1. MasterInv => ScheduledIsListed
  BY DEF MasterInv
<1> QED BY <1>1, MasterInvAlways, PTL

\* complete_job gives a job up only when max_retries is reached.
THEOREM FailureIsLastResort == Spec => []RetriesSpent
<1>1. MasterInv => RetriesSpent
  BY DEF MasterInv
<1> QED BY <1>1, MasterInvAlways, PTL

----------------------------------------------------------------------------
\* The refinement of JobLifecycle.

LEMMA PhaseValues ==
  /\ Phase("ABSENT") = "absent"
  /\ Phase("PENDING") = "queued"
  /\ Phase("SCHEDULED") = "held" /\ Phase("RUNNING") = "held"
  /\ \A s \in Terminal : Phase(s) = "ended"
BY DEF Phase, Terminal

LEMMA LifecycleInit == Init => Lifecycle!Init
BY PhaseValues DEF Init, Lifecycle!Init

LEMMA JobsKept ==
  ASSUME UNCHANGED jobVars
  PROVE  UNCHANGED Lifecycle!jobs
BY DEF jobVars, Lifecycle!jobs

LEMMA RemoveWorkerAdvances ==
  ASSUME MasterInv, NEW w \in Worker, RemoveWorker(w)
  PROVE  Lifecycle!Next
<1> SUFFICES ASSUME NEW j \in Job PROVE Lifecycle!Advance(j)
  BY DEF Lifecycle!Next
<1> USE PhaseValues, NoneIsNew
    DEF MasterInv, TypeOK, JobStatus, Terminal, RemoveWorker, IsTerminal
<1>1. CASE active[w][j] > 0 /\ ~ IsTerminal(j)
  <2>1. jstatus[j] \in {"PENDING", "SCHEDULED", "RUNNING"}
    BY <1>1 DEF ListedExist
  <2>2. Phase(jstatus[j]) \in {"queued", "held"}
    BY <2>1
  <2>3. jstatus'[j] = "PENDING" /\ jworker'[j] = None
    BY <1>1
  <2>4. jretry'[j] > jretry[j]
    BY <1>1
  <2>5. Lifecycle!Requeue(j)
    BY <2>2, <2>3, <2>4 DEF Lifecycle!Requeue
  <2> QED BY <2>5 DEF Lifecycle!Advance
<1>2. CASE ~ (active[w][j] > 0 /\ ~ IsTerminal(j))
  <2>1. jstatus'[j] = jstatus[j] /\ jworker'[j] = jworker[j]
        /\ jretry'[j] = jretry[j]
    BY <1>2
  <2>2. Lifecycle!Rest(j)
    BY <2>1 DEF Lifecycle!Rest, Lifecycle!Keeps
  <2> QED BY <2>2 DEF Lifecycle!Advance
<1> QED BY <1>1, <1>2

\* An action on one job leaves the others at rest.
LEMMA OthersRest ==
  ASSUME NEW j \in Job, NEW i \in Job \ {j},
         jstatus'[i] = jstatus[i], jworker'[i] = jworker[i],
         jretry'[i] = jretry[i]
  PROVE  Lifecycle!Advance(i)
BY DEF Lifecycle!Advance, Lifecycle!Rest, Lifecycle!Keeps

LEMMA SubmitJobAdvances ==
  ASSUME MasterInv, NEW j \in Job, NEW s \in Submissions, SubmitJob(j, s)
  PROVE  Lifecycle!Next
<1> USE PhaseValues DEF MasterInv, TypeOK, SubmitJob
<1>1. Lifecycle!Submit(j)
  BY DEF Lifecycle!Submit, Lifecycle!Keeps
<1>2. \A i \in Job \ {j} : Lifecycle!Advance(i)
  BY OthersRest
<1> QED BY <1>1, <1>2 DEF Lifecycle!Next, Lifecycle!Advance

LEMMA StartJobAdvances ==
  ASSUME MasterInv, NEW j \in Job, NEW w \in Worker, StartJob(j, w)
  PROVE  Lifecycle!Next
<1> USE PhaseValues DEF MasterInv, TypeOK, JobStatus, StartJob
<1>1. jworker[j] # None
  BY NoneIsNew DEF Worker
<1>2. jstatus'[j] = "RUNNING" /\ Lifecycle!Keeps(j)
  BY DEF Lifecycle!Keeps
<1>3. ASSUME jstatus[j] \in Terminal
      PROVE  Lifecycle!Advance(j)
  <2>1. Lifecycle!Reopen(j)
    BY <1>1, <1>2, <1>3 DEF Lifecycle!Reopen
  <2> QED BY <2>1 DEF Lifecycle!Advance
<1>4. ASSUME jstatus[j] \in {"SCHEDULED", "RUNNING"}
      PROVE  Lifecycle!Advance(j)
  <2>1. Lifecycle!Rest(j)
    BY <1>2, <1>4 DEF Lifecycle!Rest
  <2> QED BY <2>1 DEF Lifecycle!Advance
<1>5. jstatus[j] \in Terminal \cup {"SCHEDULED", "RUNNING"}
  BY <1>1 DEF AssignmentWhole
<1>6. \A i \in Job \ {j} : Lifecycle!Advance(i)
  BY OthersRest
<1> QED BY <1>3, <1>4, <1>5, <1>6 DEF Lifecycle!Next

LEMMA CompleteJobAdvances ==
  ASSUME MasterInv, NEW j \in Job, NEW w \in Worker, NEW success \in BOOLEAN,
         CompleteJob(j, w, success)
  PROVE  Lifecycle!Next
<1> DEFINE again == ~ success /\ CanRetry(j)
<1> USE PhaseValues DEF MasterInv, TypeOK, JobStatus, CompleteJob, CanRetry
<1>1. jstatus[j] \notin {"ABSENT", "PENDING"}
  BY DEF AssignmentWhole
<1>2. ASSUME again
      PROVE  Lifecycle!Advance(j)
  <2>1. /\ jstatus'[j] = "PENDING" /\ jworker'[j] = None
        /\ jretry'[j] > jretry[j]
    BY <1>2
  <2>2. Phase(jstatus[j]) \in {"held", "ended"}
    BY <1>1
  <2>3. Lifecycle!Requeue(j)
    BY <2>1, <2>2 DEF Lifecycle!Requeue
  <2> QED BY <2>3 DEF Lifecycle!Advance
<1>3. ASSUME ~ again
      PROVE  Lifecycle!Advance(j)
  <2>1. jstatus'[j] \in Terminal /\ Lifecycle!Keeps(j)
    BY <1>3 DEF Lifecycle!Keeps, Terminal
  <2>2. CASE jstatus[j] \in Terminal
    <3>1. Lifecycle!Rest(j)
      BY <2>1, <2>2 DEF Lifecycle!Rest
    <3> QED BY <3>1 DEF Lifecycle!Advance
  <2>3. CASE jstatus[j] \in {"SCHEDULED", "RUNNING"}
    <3>1. Lifecycle!End(j)
      BY <2>1, <2>3 DEF Lifecycle!End
    <3> QED BY <3>1 DEF Lifecycle!Advance
  <2> QED BY <1>1, <2>2, <2>3
<1>4. \A i \in Job \ {j} : Lifecycle!Advance(i)
  BY OthersRest
<1>5. Lifecycle!Advance(j)
  BY <1>2, <1>3
<1> QED BY <1>4, <1>5 DEF Lifecycle!Next

LEMMA CancelJobAdvances ==
  ASSUME MasterInv, NEW j \in Job, CancelJob(j)
  PROVE  Lifecycle!Next
<1> USE PhaseValues DEF MasterInv, TypeOK, JobStatus, CancelJob
<1>1. jstatus[j] \in {"PENDING", "SCHEDULED", "RUNNING"}
  BY DEF IsTerminal
<1>2. jstatus'[j] \in Terminal
  BY DEF Terminal
<1>3. Lifecycle!End(j)
  BY <1>1, <1>2 DEF Lifecycle!End, Lifecycle!Keeps
<1>4. \A i \in Job \ {j} : Lifecycle!Advance(i)
  BY OthersRest
<1> QED BY <1>3, <1>4 DEF Lifecycle!Next, Lifecycle!Advance

LEMMA ScheduleJobsAdvances ==
  ASSUME MasterInv, ScheduleJobs
  PROVE  Lifecycle!Next
<1> SUFFICES ASSUME NEW j \in Job PROVE Lifecycle!Advance(j)
  BY DEF Lifecycle!Next
<1> USE PhaseValues DEF MasterInv, TypeOK, ScheduleJobs
<1>1. CASE decided[j] # None
  <2>1. jstatus[j] = "PENDING"
    BY <1>1 DEF RoundSound
  <2>2. jstatus'[j] = "SCHEDULED" /\ jworker'[j] = decided[j]
    BY <1>1 DEF Chosen
  <2>3. Lifecycle!Grant(j)
    BY <1>1, <2>1, <2>2 DEF Lifecycle!Grant
  <2> QED BY <2>3 DEF Lifecycle!Advance
<1>2. CASE decided[j] = None
  <2>1. jstatus'[j] = jstatus[j] /\ jworker'[j] = jworker[j]
        /\ jretry'[j] = jretry[j]
    BY <1>2 DEF Chosen
  <2>2. Lifecycle!Rest(j)
    BY <2>1 DEF Lifecycle!Rest, Lifecycle!Keeps
  <2> QED BY <2>2 DEF Lifecycle!Advance
<1> QED BY <1>1, <1>2

LEMMA LifecycleStep == MasterInv /\ [Next]_vars => [Lifecycle!Next]_Lifecycle!jobs
<1> SUFFICES ASSUME MasterInv, [Next]_vars
             PROVE  Lifecycle!Next \/ UNCHANGED Lifecycle!jobs
  OBVIOUS
<1>1. CASE WorkerStep
  <2>1. CASE \E w \in Worker : RemoveWorker(w)
    BY <2>1, RemoveWorkerAdvances
  <2>2. CASE ~ \E w \in Worker : RemoveWorker(w)
    <3>1. UNCHANGED jobVars
      BY <1>1, <2>2
         DEF WorkerStep, RegisterWorker, Heartbeat, GrowSilent,
             CheckWorkerHealth
    <3> QED BY <3>1, JobsKept
  <2> QED BY <2>1, <2>2
<1>2. CASE JobStep
  BY <1>2, SubmitJobAdvances, StartJobAdvances, CompleteJobAdvances,
     CancelJobAdvances DEF JobStep
<1>3. CASE RoundStep
  <2>1. CASE ScheduleJobs
    BY <2>1, ScheduleJobsAdvances
  <2>2. CASE ~ ScheduleJobs
    <3>1. UNCHANGED jobVars
      BY <1>3, <2>2 DEF RoundStep, BeginRound, Place, Skip
    <3> QED BY <3>1, JobsKept
  <2> QED BY <2>1, <2>2
<1>4. CASE UNCHANGED vars
  <2>1. UNCHANGED jobVars
    BY <1>4 DEF vars, jobVars
  <2> QED BY <2>1, JobsKept
<1> QED BY <1>1, <1>2, <1>3, <1>4 DEF Next

\* The master keeps the promise of JobLifecycle towards any clients: each of
\* its handlers, and each round of the scheduler, is one step of it per job.
THEOREM LifecycleImplemented == Spec => ImplementsLifecycle
<1> QED BY LifecycleInit, LifecycleStep, MasterInvAlways, PTL
        DEF Spec, ImplementsLifecycle, Lifecycle!Spec

=============================================================================
