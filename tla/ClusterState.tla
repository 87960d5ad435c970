---------------------------- MODULE ClusterState ----------------------------
(***************************************************************************)
(* The master of a cluster: the state store of master/state.py together    *)
(* with the scheduler that writes to it (scheduler/scheduler.py), as       *)
(* master/server.py wires them.  Every REST handler and every round of the *)
(* scheduler runs without an await on one event loop, so each is atomic;   *)
(* their order is arbitrary, and the callers are any HTTP clients: workers *)
(* that repeat, delay or reorder their reports included.                   *)
(*                                                                         *)
(* Jobs are numbered in the order they are submitted and workers in the    *)
(* order they register (both get fresh ids, and a worker that comes back   *)
(* is a new worker).  A lease id, fresh for every scheduling decision, is  *)
(* the pair of the job and its retry_count, which determine the decision.  *)
(* Left out: counters and events, which nothing reads back; timestamps but *)
(* for the age of the last heartbeat; Lease.expires_at, which nothing      *)
(* reads.                                                                  *)
(***************************************************************************)
EXTENDS Integers, FiniteSets, Functions

CONSTANTS
  NJobs, NWorkers,       \* how many jobs and workers ever exist
  Resource,              \* kinds of resource: cpu_cores, memory_mb, ...
  Clamped,               \* those release_resources caps at the total
  Tag,
  Submissions,           \* the JobSubmissions clients may send
  Registrations,         \* the WorkerRegistrations workers may send
  MaxJobsPerWorker,      \* max_concurrent_jobs_per_worker
  HealthyAge,            \* a heartbeat this old no longer shows health (30 s)
  TimeoutAge,            \* one older than this is a timeout
  MaxAge,                \* bound: ages are not told apart beyond this
  None

Job == 1 .. NJobs
Worker == 1 .. NWorkers
Vector == [Resource -> Nat]

Submission ==
  [need: Vector, prio: Nat, tags: SUBSET Tag, docker: BOOLEAN,
   prefer: Worker \cup {None}, maxRetries: Nat]
Registration == [total: Vector, tags: SUBSET Tag, docker: BOOLEAN]

ASSUME SizesAreNat == NJobs \in Nat /\ NWorkers \in Nat
ASSUME InputsTyped ==
  Submissions \subseteq Submission /\ Registrations \subseteq Registration
ASSUME NoneIsNew == None \notin Int \cup Submission \cup Registration
ASSUME AgesAreNat ==
  HealthyAge \in Nat /\ TimeoutAge \in Nat /\ MaxAge \in Nat

VARIABLES
  sub,           \* Job.submission
  jstatus,       \* Job.status; "ABSENT" before submission
  jworker,       \* Job.assigned_worker
  jlease,        \* Job.lease_id: the attempt it was granted for
  jretry,        \* Job.retry_count
  reg,           \* the registration a WorkerInfo was made from
  registered,    \* the keys of ClusterState._workers
  wstatus,       \* WorkerInfo.status
  avail,         \* WorkerInfo.available_resources
  active,        \* WorkerInfo.active_jobs: how often each job is listed
  age,           \* age of last_heartbeat, None before the first
  leases,        \* ClusterState._leases
  todo,          \* the round under way: pending jobs not yet considered
  decided        \* ... and the worker chosen for those considered

jobVars == <<sub, jstatus, jworker, jlease, jretry>>
workerVars == <<reg, registered, wstatus, avail, active, age>>
roundVars == <<todo, decided>>
vars == <<sub, jstatus, jworker, jlease, jretry, reg, registered, wstatus,
          avail, active, age, leases, todo, decided>>

Terminal == {"COMPLETED", "FAILED", "CANCELLED"}
JobStatus == {"ABSENT", "PENDING", "SCHEDULED", "RUNNING"} \cup Terminal
LeaseType == [job: Job, attempt: Nat, worker: Worker]

TypeOK ==
  /\ sub \in [Job -> Submissions \cup {None}]
  /\ jstatus \in [Job -> JobStatus]
  /\ jworker \in [Job -> Worker \cup {None}]
  /\ jlease \in [Job -> Nat \cup {None}]
  /\ jretry \in [Job -> Nat]
  /\ reg \in [Worker -> Registrations \cup {None}]
  /\ registered \subseteq Worker
  /\ wstatus \in [Worker -> {"READY", "BUSY", "OFFLINE"}]
  /\ avail \in [Worker -> Vector]
  /\ active \in [Worker -> [Job -> Nat]]
  /\ age \in [Worker -> (0 .. MaxAge) \cup {None}]
  /\ leases \subseteq LeaseType
  /\ todo \subseteq Job
  /\ decided \in [Job -> Worker \cup {None}]

Init ==
  /\ sub = [j \in Job |-> None]
  /\ jstatus = [j \in Job |-> "ABSENT"]
  /\ jworker = [j \in Job |-> None]
  /\ jlease = [j \in Job |-> None]
  /\ jretry = [j \in Job |-> 0]
  /\ reg = [w \in Worker |-> None]
  /\ registered = {}
  /\ wstatus = [w \in Worker |-> "READY"]
  /\ avail = [w \in Worker |-> [r \in Resource |-> 0]]
  /\ active = [w \in Worker |-> [j \in Job |-> 0]]
  /\ age = [w \in Worker |-> None]
  /\ leases = {}
  /\ todo = {}
  /\ decided = [j \in Job |-> None]

----------------------------------------------------------------------------
\* Helpers on resources (models/resources.py, models/worker.py).

FitsIn(need, free) == \A r \in Resource : need[r] <= free[r]

\* The names that end in _Dropped, _Forgotten, _Unguarded, ... are faulty
\* variants of the definition that follows them: each is a slip the code could
\* contain, and some property must notice it.
Allocate_Forgotten(free, need) == free

\* allocate_resources, called only when the request fits.
Allocate(free, need) == [r \in Resource |-> free[r] - need[r]]

\* release_resources: capped at the worker's total for some resources only.
Release(free, need, total) ==
  [r \in Resource |->
     IF r \in Clamped /\ free[r] + need[r] > total[r]
     THEN total[r] ELSE free[r] + need[r]]

\* len(worker.active_jobs)
ActiveCount(w) == SumFunction(active[w])

RemoveOnce_Unguarded(n) == n - 1

\* active_jobs.remove(job), which drops one occurrence if there is one.
RemoveOnce(n) == IF n > 0 THEN n - 1 ELSE 0

\* Predicates on workers.
IsHealthy(w) == wstatus[w] # "OFFLINE" /\ age[w] # None /\ age[w] < HealthyAge
CanAcceptJobs_Unregistered(w) == IsHealthy(w)
CanAcceptJobs(w) == w \in registered /\ IsHealthy(w)
TimedOut(w) ==
  /\ w \in registered
  /\ wstatus[w] # "OFFLINE" /\ age[w] # None /\ age[w] > TimeoutAge

IsTerminal_NotCancelled(j) == jstatus[j] \in {"COMPLETED", "FAILED"}
IsTerminal(j) == jstatus[j] \in Terminal

CanRetry_OneShort(j) == jretry[j] + 1 < sub[j].maxRetries
CanRetry(j) == jretry[j] < sub[j].maxRetries

\* No round of the scheduler is under way.
Idle == todo = {} /\ decided = [j \in Job |-> None]

----------------------------------------------------------------------------
\* Workers.

RegisterWorker(w, r) ==
  /\ Idle
  /\ reg[w] = None /\ \A v \in Worker : v < w => reg[v] # None
  /\ reg' = [reg EXCEPT ![w] = r]
  /\ registered' = registered \cup {w}
  /\ avail' = [avail EXCEPT ![w] = r.total]
  /\ UNCHANGED <<jobVars, wstatus, active, age, leases, roundVars>>

\* update_worker_heartbeat: also revives a worker marked OFFLINE.
Heartbeat(w, overloaded) ==
  /\ Idle
  /\ w \in registered
  /\ age' = [age EXCEPT ![w] = 0]
  /\ wstatus' = [wstatus EXCEPT ![w] =
                   IF overloaded \/ ActiveCount(w) > 0 THEN "BUSY" ELSE "READY"]
  /\ UNCHANGED <<jobVars, reg, registered, avail, active, leases, roundVars>>

\* remove_worker: every listing of a job that has not ended sends it back to
\* the queue, wherever the job is now, and counts as one retry.
RemoveWorker(w) ==
  LET back == {j \in Job : active[w][j] > 0 /\ ~ IsTerminal(j)}
  IN  /\ Idle
      /\ w \in registered
      /\ registered' = registered \ {w}
      /\ jstatus' = [j \in Job |-> IF j \in back THEN "PENDING" ELSE jstatus[j]]
      /\ jworker' = [j \in Job |-> IF j \in back THEN None ELSE jworker[j]]
      /\ jlease' = [j \in Job |-> IF j \in back THEN None ELSE jlease[j]]
      /\ jretry' = [j \in Job |-> IF j \in back THEN jretry[j] + active[w][j]
                                  ELSE jretry[j]]
      /\ UNCHANGED <<sub, reg, wstatus, avail, active, age, leases, roundVars>>

\* check_worker_health: marks the silent workers and does nothing else.
CheckWorkerHealth ==
  /\ Idle
  /\ \E w \in Worker : TimedOut(w)
  /\ wstatus' = [w \in Worker |-> IF TimedOut(w) THEN "OFFLINE" ELSE wstatus[w]]
  /\ UNCHANGED <<jobVars, reg, registered, avail, active, age, leases,
                 roundVars>>

\* Time passes since a worker's last heartbeat.
GrowSilent(w) ==
  /\ Idle
  /\ w \in registered
  /\ age[w] # None /\ age[w] < MaxAge
  /\ age' = [age EXCEPT ![w] = @ + 1]
  /\ UNCHANGED <<jobVars, reg, registered, wstatus, avail, active, leases,
                 roundVars>>

----------------------------------------------------------------------------
\* Jobs.

SubmitJob(j, s) ==
  /\ Idle
  /\ jstatus[j] = "ABSENT" /\ \A i \in Job : i < j => jstatus[i] # "ABSENT"
  /\ sub' = [sub EXCEPT ![j] = s]
  /\ jstatus' = [jstatus EXCEPT ![j] = "PENDING"]
  /\ UNCHANGED <<jworker, jlease, jretry, workerVars, leases, roundVars>>

StartJob_AnyWorker(j, w) ==
  /\ Idle
  /\ jstatus[j] # "ABSENT"
  /\ jstatus' = [jstatus EXCEPT ![j] = "RUNNING"]
  /\ UNCHANGED <<sub, jworker, jlease, jretry, workerVars, leases, roundVars>>

\* start_job: whatever the status, if the worker is the assigned one.
StartJob(j, w) ==
  /\ Idle
  /\ jworker[j] = w
  /\ jstatus' = [jstatus EXCEPT ![j] = "RUNNING"]
  /\ UNCHANGED <<sub, jworker, jlease, jretry, workerVars, leases, roundVars>>

FreeAssignment_DropsWorkersLeases(j) ==
  /\ avail' = IF jworker[j] \in registered
              THEN [avail EXCEPT ![jworker[j]] =
                      Release(@, sub[j].need, reg[jworker[j]].total)]
              ELSE avail
  /\ active' = IF jworker[j] \in registered
               THEN [active EXCEPT ![jworker[j]][j] = RemoveOnce(@)] ELSE active
  /\ leases' = {l \in leases : l.worker # jworker[j]}

\* The part complete_job and cancel_job share: the assigned worker, if it is
\* still registered, gets the resources back and drops one listing of the job,
\* and the job's lease is deleted.
FreeAssignment(j) ==
  LET w == jworker[j]
  IN  /\ avail' = IF w \in registered
                  THEN [avail EXCEPT ![w] =
                          Release(@, sub[j].need, reg[w].total)]
                  ELSE avail
      /\ active' = IF w \in registered
                   THEN [active EXCEPT ![w][j] = RemoveOnce(@)] ELSE active
      /\ leases' = {l \in leases : ~ (l.job = j /\ l.attempt = jlease[j])}

\* complete_job: whatever the status, if the worker is the assigned one.  A
\* failed job with retries left goes back to the queue at once.
CompleteJob(j, w, success) ==
  LET again == ~ success /\ CanRetry(j)
  IN  /\ Idle
      /\ w # None /\ jworker[j] = w
      /\ FreeAssignment(j)
      /\ jstatus' = [jstatus EXCEPT ![j] =
                       IF again THEN "PENDING"
                       ELSE IF success THEN "COMPLETED" ELSE "FAILED"]
      /\ jworker' = [jworker EXCEPT ![j] = IF again THEN None ELSE @]
      /\ jlease' = [jlease EXCEPT ![j] = IF again THEN None ELSE @]
      /\ jretry' = [jretry EXCEPT ![j] = IF again THEN @ + 1 ELSE @]
      /\ UNCHANGED <<sub, reg, registered, wstatus, age, roundVars>>

\* cancel_job: any job that has not ended.
CancelJob(j) ==
  /\ Idle
  /\ jstatus[j] # "ABSENT" /\ ~ IsTerminal(j)
  /\ FreeAssignment(j)
  /\ jstatus' = [jstatus EXCEPT ![j] = "CANCELLED"]
  /\ UNCHANGED <<sub, jworker, jlease, jretry, reg, registered, wstatus, age,
                 roundVars>>

----------------------------------------------------------------------------
\* One round of the scheduler, SchedulerLoop._tick.  Its steps are separate
\* actions for the reader's sake; no other action happens until it is Idle.

Pending_Unfinished == {j \in Job : jstatus[j] # "ABSENT" /\ ~ IsTerminal(j)}
Pending == {j \in Job : jstatus[j] = "PENDING"}

\* The order of Scheduler.schedule: priority, then submission.
Before(i, j) ==
  \/ sub[i].prio > sub[j].prio
  \/ sub[i].prio = sub[j].prio /\ i < j

\* Only the head of the queue gets a chance.
BeginRound_HeadOnly ==
  /\ Idle
  /\ Pending # {}
  /\ \E w \in Worker : CanAcceptJobs(w)
  /\ todo' = {j \in Pending : \A i \in Pending \ {j} : Before(j, i)}
  /\ UNCHANGED <<jobVars, workerVars, leases, decided>>

BeginRound ==
  /\ Idle
  /\ Pending # {}
  /\ \E w \in Worker : CanAcceptJobs(w)
  /\ todo' = Pending
  /\ UNCHANGED <<jobVars, workerVars, leases, decided>>

\* _filter_candidates.  The preferred worker short-cuts the Docker test.
Suits(j, w) ==
  /\ CanAcceptJobs(w)
  /\ ActiveCount(w) < MaxJobsPerWorker
  /\ FitsIn(sub[j].need, avail[w])
  /\ sub[j].tags \subseteq reg[w].tags

Candidates(j) ==
  IF sub[j].prefer # None /\ Suits(j, sub[j].prefer)
  THEN {sub[j].prefer}
  ELSE {w \in Worker : Suits(j, w) /\ (sub[j].docker => reg[w].docker)}

IsNext_Unsorted(j) == j \in todo /\ \A i \in todo \ {j} : j < i
IsNext(j) == j \in todo /\ \A i \in todo \ {j} : Before(j, i)

\* _schedule_single_job.  Every policy picks one of the candidates; which one
\* is left open, so what holds here holds under each SchedulingPolicy.
Place(j, w) ==
  /\ IsNext(j)
  /\ w \in Candidates(j)
  /\ todo' = todo \ {j}
  /\ decided' = [decided EXCEPT ![j] = w]
  /\ avail' = [avail EXCEPT ![w] = Allocate(@, sub[j].need)]
  /\ active' = [active EXCEPT ![w][j] = @ + 1]
  /\ UNCHANGED <<jobVars, reg, registered, wstatus, age, leases>>

Skip_Anyway(j) ==
  /\ IsNext(j)
  /\ todo' = todo \ {j}
  /\ UNCHANGED <<jobVars, workerVars, leases, decided>>

Skip(j) ==
  /\ IsNext(j)
  /\ Candidates(j) = {}
  /\ todo' = todo \ {j}
  /\ UNCHANGED <<jobVars, workerVars, leases, decided>>

\* on_decision for every decision: schedule_job, which lists the job on the
\* worker a second time.
Chosen == {j \in Job : decided[j] # None}

ScheduleJobs ==
  /\ todo = {} /\ Chosen # {}
  /\ jstatus' = [j \in Job |-> IF j \in Chosen THEN "SCHEDULED" ELSE jstatus[j]]
  /\ jworker' = [j \in Job |-> IF j \in Chosen THEN decided[j] ELSE jworker[j]]
  /\ jlease' = [j \in Job |-> IF j \in Chosen THEN jretry[j] ELSE jlease[j]]
  /\ active' = [w \in Worker |-> [j \in Job |->
                  IF decided[j] = w THEN active[w][j] + 1 ELSE active[w][j]]]
  /\ leases' = leases \cup
       {[job |-> j, attempt |-> jretry[j], worker |-> decided[j]] : j \in Chosen}
  /\ decided' = [j \in Job |-> None]
  /\ UNCHANGED <<sub, jretry, reg, registered, wstatus, avail, age, todo>>

----------------------------------------------------------------------------
WorkerStep ==
  \/ \E w \in Worker, r \in Registrations : RegisterWorker(w, r)
  \/ \E w \in Worker, overloaded \in BOOLEAN : Heartbeat(w, overloaded)
  \/ \E w \in Worker : RemoveWorker(w)
  \/ \E w \in Worker : GrowSilent(w)
  \/ CheckWorkerHealth

JobStep ==
  \/ \E j \in Job, s \in Submissions : SubmitJob(j, s)
  \/ \E j \in Job, w \in Worker : StartJob(j, w)
  \/ \E j \in Job, w \in Worker, success \in BOOLEAN : CompleteJob(j, w, success)
  \/ \E j \in Job : CancelJob(j)

RoundStep ==
  \/ BeginRound
  \/ \E j \in Job, w \in Worker : Place(j, w)
  \/ \E j \in Job : Skip(j)
  \/ ScheduleJobs

Next == WorkerStep \/ JobStep \/ RoundStep

Spec == Init /\ [][Next]_vars

\* The discipline of reports that come in time: a start for a job that was
\* just scheduled, a completion for one that has not ended.  The code does not
\* enforce it, and a worker that was not told of a cancellation breaks it.
TimelyNext ==
  \/ WorkerStep \/ RoundStep
  \/ \E j \in Job, s \in Submissions : SubmitJob(j, s)
  \/ \E j \in Job, w \in Worker : jstatus[j] = "SCHEDULED" /\ StartJob(j, w)
  \/ \E j \in Job, w \in Worker, success \in BOOLEAN :
       ~ IsTerminal(j) /\ CompleteJob(j, w, success)
  \/ \E j \in Job : CancelJob(j)

TimelySpec == Init /\ [][TimelyNext]_vars

\* SchedulerLoop._loop and MasterServer._health_check_loop run for ever.
FairSpec == Spec /\ WF_vars(RoundStep) /\ WF_vars(CheckWorkerHealth)

----------------------------------------------------------------------------
\* Properties.

\* A job that waits has neither a worker nor a lease, one that was granted and
\* not sent back has both: no path through retries, removals and late reports
\* leaves half an assignment.
AssignmentWhole ==
  \A j \in Job :
    /\ jstatus[j] \in {"ABSENT", "PENDING"} => jworker[j] = None
    /\ jstatus[j] \in {"SCHEDULED", "RUNNING", "COMPLETED", "FAILED"} =>
         jworker[j] # None
    /\ jworker[j] = None <=> jlease[j] = None

\* A scheduled job holds its lease, made out to its own worker.
ScheduledIsLeased ==
  \A j \in Job : jstatus[j] = "SCHEDULED" =>
    [job |-> j, attempt |-> jlease[j], worker |-> jworker[j]] \in leases

\* No attempt at a job is ever leased to two workers, although leases of
\* removed workers are never deleted.
AttemptHasOneWorker ==
  \A l, m \in leases : l.job = m.job /\ l.attempt = m.attempt => l = m

\* A scheduled job is on a registered worker that lists it, so removing the
\* worker brings the job back.
ScheduledIsListed ==
  \A j \in Job : jstatus[j] = "SCHEDULED" =>
    jworker[j] \in registered /\ active[jworker[j]][j] > 0

\* A job is FAILED only when its retries are used up, whatever mix of failed
\* reports, repeated reports and removed workers led there.
RetriesSpent ==
  \A j \in Job : jstatus[j] = "FAILED" => jretry[j] >= sub[j].maxRetries

\* During a round: a pending job the scheduler passed over still fits nowhere.
PassedOver == {j \in Pending : ~ Idle /\ j \notin todo /\ decided[j] = None}

RoundIsMaximal == \A j \in PassedOver : Candidates(j) = {}

\* During a round: nobody behind a passed-over job got room that would have
\* been enough for it.
NoPriorityInversion ==
  \A j \in PassedOver, k \in Chosen :
    Before(j, k) =>
      LET w == decided[k]
          room == [r \in Resource |-> avail[w][r] + sub[k].need[r]]
      IN  ~ (/\ FitsIn(sub[j].need, room)
             /\ sub[j].tags \subseteq reg[w].tags
             /\ sub[j].docker => reg[w].docker)

\* What the jobs assigned to a worker need and what it has left never exceed
\* what it has.  Holds under TimelySpec only.
Assigned(w) ==
  {j \in Job : jworker[j] = w /\ ~ IsTerminal(j)} \cup
  {j \in Job : decided[j] = w}

NoOvercommit ==
  \A w \in registered, r \in Resource :
    avail[w][r] + SumFunctionOnSet([j \in Assigned(w) |-> sub[j].need[r]],
                                   Assigned(w))
      <= reg[w].total[r]

\* A job does not wait for ever while every round finds a worker for it.
NotPassedOverForever ==
  \A j \in Job :
    ~ <>[](jstatus[j] = "PENDING" /\ (Idle => Candidates(j) # {}))

\* The promise of JobLifecycle, which the master keeps for every client.
Phase(s) ==
  CASE s = "ABSENT" -> "absent"
    [] s = "PENDING" -> "queued"
    [] s \in {"SCHEDULED", "RUNNING"} -> "held"
    [] s \in Terminal -> "ended"

Lifecycle ==
  INSTANCE JobLifecycle WITH phase <- [j \in Job |-> Phase(jstatus[j])],
                             owner <- jworker, attempt <- jretry

ImplementsLifecycle == Lifecycle!Spec
=============================================================================
