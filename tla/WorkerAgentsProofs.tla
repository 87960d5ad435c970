------------------------- MODULE WorkerAgentsProofs -------------------------
(***************************************************************************)
(* Proofs about WorkerAgents, for any jobs, agents, submissions and        *)
(* registrations, whatever is lost, cancelled, stopped or crashed.         *)
(***************************************************************************)
EXTENDS WorkerAgents, ClusterStateProofs

\* Only an agent that is up has coroutines, and one that never started owns
\* nothing and has never registered.
IdleAgentsRest ==
  \A w \in Worker :
    /\ agent[w] # "up" => \A j \in Job : task[w][j] = "none"
    /\ agent[w] # "new" => reg[w] # None
    /\ agent[w] = "new" => proc[w] = {}

\* The inductive invariant.
AgentInv ==
  /\ MasterInv
  /\ AgentTypeOK
  /\ IdleAgentsRest
  /\ AssignedToKnown
  /\ StopLeavesNothing
  /\ LiveProcessHasTask
  /\ RunningIsAttended

----------------------------------------------------------------------------
\* What the master does, as far as agents notice it.

\* A step of the composition is a step of the master or leaves it alone.
LEMMA AgentsTakeMasterSteps ==
  ASSUME [AgentNext]_allVars
  PROVE  [Next]_vars
<1>1. CASE MasterStep
  BY <1>1 DEF MasterStep, Next, JobStep, WorkerStep
<1>2. ASSUME NEW w \in Worker, AgentStep(w)
      PROVE  [Next]_vars
  <2>1. CASE StartAgent(w)
    BY <2>1 DEF StartAgent, Next, WorkerStep
  <2>2. CASE SendHeartbeat(w)
    BY <2>2 DEF SendHeartbeat, Next, WorkerStep
  <2>3. CASE StopAgent(w) \/ CrashAgent(w) \/ LoseReply(w) \/ ReadReply(w)
    BY <2>3 DEF StopAgent, CrashAgent, LoseReply, ReadReply
  <2>4. ASSUME NEW j \in Job, TaskStep(w, j)
        PROVE  [Next]_vars
    <3>1. CASE ReportStart(w, j)
      BY <3>1 DEF ReportStart, StartServed, Reject, Next, JobStep
    <3>2. CASE ReportEnd(w, j) \/ ReportRaised(w, j)
      BY <3>2 DEF ReportEnd, ReportRaised, CompleteServed, Reject, Next, JobStep
    <3>3. CASE LoseStart(w, j) \/ ProcessEnds(w, j) \/ LoseEnd(w, j)
               \/ LoseRaised(w, j)
      BY <3>3 DEF LoseStart, ProcessEnds, LoseEnd, LoseRaised
    <3> QED BY <2>4, <3>1, <3>2, <3>3 DEF TaskStep
  <2> QED BY <1>2, <2>1, <2>2, <2>3, <2>4 DEF AgentStep
<1>3. CASE UNCHANGED allVars
  BY <1>3 DEF allVars
<1> QED BY <1>1, <1>2, <1>3 DEF AgentNext

LEMMA MasterInvKept ==
  ASSUME MasterInv, [AgentNext]_allVars
  PROVE  MasterInv'
BY AgentsTakeMasterSteps, MasterInvStep

\* A job that runs has been running on its worker, or the worker reports that it
\* starts it; a registration stays, and jobs go to registered workers.
NothingStarts ==
  /\ \A j \in Job : jstatus'[j] = "RUNNING" =>
       jstatus[j] = "RUNNING" /\ jworker'[j] = jworker[j]
  /\ \A w \in Worker : reg[w] # None => reg'[w] # None
  /\ AssignedToKnown'

LEMMA RegisteringStartsNothing ==
  ASSUME MasterInv, AssignedToKnown, NEW w \in Worker, NEW r \in Registrations,
         RegisterWorker(w, r)
  PROVE  NothingStarts /\ reg'[w] # None
<1>1. r # None
  BY NoneIsNew, InputsTyped
<1>2. reg' = [reg EXCEPT ![w] = r] /\ reg \in [Worker -> Registrations \cup {None}]
  BY DEF RegisterWorker, MasterInv, TypeOK
<1>3. \A v \in Worker : reg[v] # None => reg'[v] # None
  BY <1>1, <1>2
<1>4. \A j \in Job : jworker[j] # None => jworker[j] \in Worker
  BY DEF MasterInv, TypeOK
<1>5. jstatus' = jstatus /\ jworker' = jworker
  BY DEF RegisterWorker, jobVars
<1> QED BY <1>1, <1>2, <1>3, <1>4, <1>5 DEF NothingStarts, AssignedToKnown

LEMMA MasterStartsNothing ==
  ASSUME MasterInv, AssignedToKnown, MasterStep
  PROVE  NothingStarts
<1> USE DEF NothingStarts, AssignedToKnown
<1>1. ASSUME NEW j \in Job, NEW s \in Submissions, SubmitJob(j, s)
      PROVE  NothingStarts
  BY <1>1 DEF SubmitJob, workerVars, MasterInv, TypeOK
<1>2. ASSUME NEW j \in Job, CancelJob(j)
      PROVE  NothingStarts
  BY <1>2 DEF CancelJob, MasterInv, TypeOK
<1>3. ASSUME NEW w \in Worker, RemoveWorker(w)
      PROVE  NothingStarts
  BY <1>3 DEF RemoveWorker
<1>4. CASE ScheduleJobs
  <2>1. \A w \in registered : reg[w] # None
    BY NoneIsNew, InputsTyped DEF MasterInv, RecordsExist
  <2>2. \A j \in Chosen : decided[j] \in registered
    BY DEF Chosen, MasterInv, RoundSound
  <2> QED BY <1>4, <2>1, <2>2 DEF ScheduleJobs
<1>5. CASE BeginRound
  BY <1>5 DEF BeginRound, jobVars, workerVars
<1>6. ASSUME NEW j \in Job, NEW w \in Worker, Place(j, w)
      PROVE  NothingStarts
  BY <1>6 DEF Place, jobVars
<1>7. ASSUME NEW j \in Job, Skip(j)
      PROVE  NothingStarts
  BY <1>7 DEF Skip, jobVars, workerVars
<1> QED BY <1>1, <1>2, <1>3, <1>4, <1>5, <1>6, <1>7 DEF MasterStep, RoundStep

\* A completion report served or refused: the job does not run on that worker
\* any more.
LEMMA CompletionEnds ==
  ASSUME MasterInv, AssignedToKnown, NEW j \in Job, NEW w \in Worker,
         NEW success \in BOOLEAN, CompleteServed(j, w, success)
  PROVE  /\ NothingStarts
         /\ ~ (jstatus'[j] = "RUNNING" /\ jworker'[j] = w)
<1>1. CASE CompleteJob(j, w, success)
  BY <1>1 DEF CompleteJob, NothingStarts, AssignedToKnown, MasterInv, TypeOK
<1>2. CASE Reject(j, w)
  BY <1>2 DEF Reject, vars, NothingStarts, AssignedToKnown
<1> QED BY <1>1, <1>2 DEF CompleteServed

----------------------------------------------------------------------------
\* Steps that leave the master alone.

\* What SetTask changes.
LEMMA TaskSet ==
  ASSUME AgentTypeOK, NEW w \in Worker, NEW j \in Job, NEW x \in TaskState,
         SetTask(w, j, x)
  PROVE  /\ task' \in [Worker -> [Job -> TaskState]]
         /\ task'[w][j] = x
         /\ \A v \in Worker, i \in Job : v # w \/ i # j => task'[v][i] = task[v][i]
BY DEF SetTask, AgentTypeOK

\* ... and an action on the tasks of one agent.
LEMMA TasksSet ==
  ASSUME AgentTypeOK, NEW w \in Worker, NEW f \in [Job -> TaskState],
         task' = [task EXCEPT ![w] = f]
  PROVE  /\ task' \in [Worker -> [Job -> TaskState]]
         /\ task'[w] = f
         /\ \A v \in Worker \ {w} : task'[v] = task[v]
BY DEF AgentTypeOK

LEMMA ReadReplyKeeps ==
  ASSUME AgentInv, MasterInv', NEW w \in Worker, ReadReply(w)
  PROVE  AgentInv'
<1> DEFINE f == [j \in Job |-> IF j \in reply[w] /\ task[w][j] = "none"
                               THEN "start" ELSE task[w][j]]
<1> USE DEF AgentInv
<1>1. /\ agent[w] = "up" /\ task' = [task EXCEPT ![w] = f]
      /\ UNCHANGED <<reg, jstatus, jworker, agent, proc, unreported>>
      /\ reply' = [reply EXCEPT ![w] = None]
  BY DEF ReadReply, vars
<1>2. f \in [Job -> TaskState]
  <2>1. "start" \in TaskState
    BY DEF TaskState
  <2> QED BY <2>1 DEF AgentTypeOK
<1>3. /\ task' \in [Worker -> [Job -> TaskState]]
      /\ \A j \in Job : task'[w][j] = f[j]
      /\ \A v \in Worker \ {w} : task'[v] = task[v]
  BY <1>1, <1>2, TasksSet
<1>4. AgentTypeOK'
  BY <1>1, <1>3 DEF AgentTypeOK, MasterInv
<1>5. IdleAgentsRest' /\ AssignedToKnown'
  BY <1>1, <1>3 DEF IdleAgentsRest, AssignedToKnown
<1>6. StopLeavesNothing'
  BY <1>1 DEF StopLeavesNothing
<1>7. \A j \in Job : task'[w][j] = "run" <=> task[w][j] = "run"
  BY <1>3
<1>8. LiveProcessHasTask'
  BY <1>1, <1>3, <1>7 DEF LiveProcessHasTask
<1>9. RunningIsAttended'
  BY <1>1, <1>3 DEF RunningIsAttended
<1> QED BY <1>4, <1>5, <1>6, <1>8, <1>9

LEMMA GoingAwayKeeps ==
  ASSUME AgentInv, MasterInv', NEW w \in Worker, StopAgent(w) \/ CrashAgent(w)
  PROVE  AgentInv'
<1> DEFINE f == [j \in Job |-> "none"]
<1> USE DEF AgentInv
<1>1. /\ agent[w] = "up" /\ task' = [task EXCEPT ![w] = f]
      /\ UNCHANGED <<reg, jstatus, jworker, unreported>>
      /\ reply' = [reply EXCEPT ![w] = None]
  BY DEF StopAgent, CrashAgent, vars
<1>2. f \in [Job -> TaskState]
  BY DEF TaskState
<1>3. /\ task' \in [Worker -> [Job -> TaskState]]
      /\ \A j \in Job : task'[w][j] = "none"
      /\ \A v \in Worker \ {w} : task'[v] = task[v]
  BY <1>1, <1>2, TasksSet
<1>4. /\ \A v \in Worker \ {w} : agent'[v] = agent[v] /\ proc'[v] = proc[v]
      /\ agent' \in [Worker -> {"new", "up", "stopped", "crashed"}]
      /\ proc' \in [Worker -> SUBSET Job]
      /\ agent'[w] \in {"stopped", "crashed"}
  <2>1. CASE StopAgent(w)
    <3>1. proc' = [proc EXCEPT ![w] = @ \ {j \in Job : task[w][j] # "none"}]
      BY <2>1 DEF StopAgent
    <3>2. proc' \in [Worker -> SUBSET Job] /\ \A v \in Worker \ {w} : proc'[v] = proc[v]
      BY <3>1 DEF AgentTypeOK
    <3>3. agent' = [agent EXCEPT ![w] = "stopped"]
      BY <2>1 DEF StopAgent
    <3> QED BY <3>2, <3>3 DEF AgentTypeOK
  <2>2. CASE CrashAgent(w)
    BY <2>2 DEF CrashAgent, AgentTypeOK
  <2> QED BY <2>1, <2>2
<1>5. agent'[w] = "stopped" => proc'[w] = {}
  <2>1. CASE StopAgent(w)
    <3>1. proc[w] = {j \in Job : task[w][j] = "run"}
      BY <1>1 DEF LiveProcessHasTask
    <3> QED BY <2>1, <3>1 DEF StopAgent, AgentTypeOK
  <2>2. CASE CrashAgent(w)
    BY <2>2 DEF CrashAgent, AgentTypeOK
  <2> QED BY <2>1, <2>2
<1>6. AgentTypeOK'
  BY <1>1, <1>3, <1>4 DEF AgentTypeOK, MasterInv
<1>7. IdleAgentsRest' /\ AssignedToKnown'
  BY <1>1, <1>3, <1>4 DEF IdleAgentsRest, AssignedToKnown
<1>8. StopLeavesNothing'
  BY <1>4, <1>5 DEF StopLeavesNothing
<1>10. LiveProcessHasTask'
  <2>1. \A v \in Worker \ {w} : agent'[v] = "up" =>
          proc'[v] = {j \in Job : task'[v][j] = "run"}
    BY <1>3, <1>4 DEF LiveProcessHasTask
  <2> QED BY <1>4, <2>1 DEF LiveProcessHasTask
<1>9. RunningIsAttended'
  BY <1>1, <1>3, <1>4 DEF RunningIsAttended
<1> QED BY <1>6, <1>7, <1>8, <1>9, <1>10

LEMMA ProcessEndsKeeps ==
  ASSUME AgentInv, MasterInv', NEW w \in Worker, NEW j \in Job, ProcessEnds(w, j)
  PROVE  AgentInv'
<1> USE DEF AgentInv
<1>1. /\ UNCHANGED <<reg, jstatus, jworker, agent, reply, unreported>>
      /\ proc' = [proc EXCEPT ![w] = @ \ {j}]
  BY DEF ProcessEnds, vars
<1>2. /\ task' \in [Worker -> [Job -> TaskState]]
      /\ \A v \in Worker, i \in Job : v # w \/ i # j => task'[v][i] = task[v][i]
      /\ IF task[w][j] = "run" THEN task'[w][j] \in {"good", "bad"}
         ELSE task'[w][j] = task[w][j]
  <2>1. CASE task[w][j] = "run"
    BY <2>1, TaskSet DEF ProcessEnds, TaskState
  <2>2. CASE task[w][j] # "run"
    BY <2>2 DEF ProcessEnds, AgentTypeOK
  <2> QED BY <2>1, <2>2
<1>3. AgentTypeOK'
  BY <1>1, <1>2 DEF AgentTypeOK, MasterInv
<1>4. IdleAgentsRest' /\ AssignedToKnown'
  BY <1>1, <1>2 DEF IdleAgentsRest, AssignedToKnown, AgentTypeOK
<1>5. StopLeavesNothing'
  BY <1>1 DEF StopLeavesNothing, AgentTypeOK
<1>6. LiveProcessHasTask'
  BY <1>1, <1>2 DEF LiveProcessHasTask, AgentTypeOK
<1>7. RunningIsAttended'
  BY <1>1, <1>2 DEF RunningIsAttended
<1> QED BY <1>3, <1>4, <1>5, <1>6, <1>7

LEMMA LossKeeps ==
  ASSUME AgentInv, MasterInv', NEW w \in Worker, NEW j \in Job,
         LoseStart(w, j) \/ LoseEnd(w, j) \/ LoseRaised(w, j)
  PROVE  AgentInv'
<1> USE DEF AgentInv
<1>1. /\ UNCHANGED <<reg, jstatus, jworker, agent, proc, reply>>
      /\ task[w][j] \in {"start", "good", "bad", "raised"}
      /\ unreported' \in [Worker -> SUBSET Job]
      /\ \A v \in Worker : unreported[v] \subseteq unreported'[v]
  <2>1. CASE LoseStart(w, j) \/ LoseEnd(w, j)
    BY <2>1 DEF LoseStart, LoseEnd, vars, AgentTypeOK
  <2>2. CASE LoseRaised(w, j)
    <3>1. unreported' = [unreported EXCEPT ![w] = @ \cup {j}]
      BY <2>2 DEF LoseRaised
    <3>2. /\ unreported' \in [Worker -> SUBSET Job]
          /\ \A v \in Worker : unreported[v] \subseteq unreported'[v]
      BY <3>1 DEF AgentTypeOK
    <3> QED BY <2>2, <3>2 DEF LoseRaised, vars
  <2> QED BY <2>1, <2>2
<1>2. /\ task' \in [Worker -> [Job -> TaskState]]
      /\ \A v \in Worker, i \in Job : v # w \/ i # j => task'[v][i] = task[v][i]
      /\ \/ task'[w][j] = "raised"
         \/ task'[w][j] = "none" /\ j \in unreported'[w]
  BY TaskSet DEF LoseStart, LoseEnd, LoseRaised, TaskState, AgentTypeOK
<1>3. agent[w] = "up"
  BY <1>1 DEF IdleAgentsRest
<1>4. AgentTypeOK'
  BY <1>1, <1>2 DEF AgentTypeOK, MasterInv
<1>5. IdleAgentsRest' /\ AssignedToKnown'
  BY <1>1, <1>2, <1>3 DEF IdleAgentsRest, AssignedToKnown
<1>6. StopLeavesNothing' /\ LiveProcessHasTask'
  BY <1>1, <1>2 DEF StopLeavesNothing, LiveProcessHasTask
<1>7. RunningIsAttended'
  BY <1>1, <1>2 DEF RunningIsAttended
<1> QED BY <1>4, <1>5, <1>6, <1>7

LEMMA LoseReplyKeeps ==
  ASSUME AgentInv, MasterInv', NEW w \in Worker, LoseReply(w)
  PROVE  AgentInv'
BY DEF AgentInv, LoseReply, vars, AgentTypeOK, MasterInv, IdleAgentsRest,
       AssignedToKnown, StopLeavesNothing, LiveProcessHasTask, RunningIsAttended

----------------------------------------------------------------------------
\* Steps of the master alone, and those of an agent with the master.

LEMMA MasterStepKeeps ==
  ASSUME AgentInv, MasterInv', MasterStep
  PROVE  AgentInv'
<1> USE DEF AgentInv, AgentTypeOK
<1>1. NothingStarts /\ UNCHANGED agentVars
  BY MasterStartsNothing DEF MasterStep
<1>2. AgentTypeOK'
  BY <1>1 DEF agentVars, MasterInv
<1>3. IdleAgentsRest' /\ AssignedToKnown'
  BY <1>1 DEF agentVars, NothingStarts, IdleAgentsRest
<1>4. StopLeavesNothing' /\ LiveProcessHasTask'
  BY <1>1 DEF agentVars, StopLeavesNothing, LiveProcessHasTask
<1>5. RunningIsAttended'
  BY <1>1 DEF agentVars, NothingStarts, RunningIsAttended
<1> QED BY <1>2, <1>3, <1>4, <1>5

LEMMA StartAgentKeeps ==
  ASSUME AgentInv, MasterInv', NEW w \in Worker, StartAgent(w)
  PROVE  AgentInv'
<1> USE DEF AgentInv, AgentTypeOK, StartAgent
<1>1. PICK r \in Registrations : RegisterWorker(w, r)
  OBVIOUS
<1>2. NothingStarts /\ reg'[w] # None /\ reg[w] = None
  BY <1>1, RegisteringStartsNothing DEF RegisterWorker
<1>3. agent[w] = "new" /\ proc[w] = {} /\ \A j \in Job : task[w][j] = "none"
  BY <1>2 DEF IdleAgentsRest
<1>4. \A j \in Job : jworker[j] # w
  BY <1>2, NoneIsNew DEF AssignedToKnown, Worker
<1>5. AgentTypeOK'
  BY DEF MasterInv
<1>6. IdleAgentsRest' /\ AssignedToKnown'
  BY <1>2 DEF NothingStarts, IdleAgentsRest
<1>7. StopLeavesNothing' /\ LiveProcessHasTask'
  BY <1>3 DEF StopLeavesNothing, LiveProcessHasTask
<1>8. RunningIsAttended'
  BY <1>2, <1>4 DEF NothingStarts, RunningIsAttended
<1> QED BY <1>5, <1>6, <1>7, <1>8

LEMMA SendHeartbeatKeeps ==
  ASSUME AgentInv, MasterInv', NEW w \in Worker, SendHeartbeat(w)
  PROVE  AgentInv'
<1> USE DEF AgentInv, AgentTypeOK, SendHeartbeat
<1>1. /\ reg' = reg /\ jstatus' = jstatus /\ jworker' = jworker
      /\ UNCHANGED <<agent, task, proc, unreported>>
  BY DEF Heartbeat, jobVars
<1>2. AgentTypeOK'
  <2>1. {j \in Listed(w) : jstatus[j] = "SCHEDULED"} \in SUBSET Job
    BY DEF Listed
  <2> QED BY <2>1 DEF MasterInv
<1>3. IdleAgentsRest' /\ AssignedToKnown'
  BY <1>1 DEF IdleAgentsRest, AssignedToKnown
<1>4. StopLeavesNothing' /\ LiveProcessHasTask'
  BY <1>1 DEF StopLeavesNothing, LiveProcessHasTask
<1>5. RunningIsAttended'
  BY <1>1 DEF RunningIsAttended
<1> QED BY <1>2, <1>3, <1>4, <1>5

LEMMA ReportStartKeeps ==
  ASSUME AgentInv, MasterInv', NEW w \in Worker, NEW j \in Job, ReportStart(w, j)
  PROVE  AgentInv'
<1> USE DEF AgentInv
<1>1. /\ reg' = reg /\ jworker' = jworker
      /\ \A i \in Job \ {j} : jstatus'[i] = jstatus[i]
      /\ \A v \in Worker \ {w} : jstatus'[j] = "RUNNING" /\ jworker[j] = v =>
                                 jstatus[j] = "RUNNING"
  BY DEF ReportStart, StartServed, StartJob, Reject, vars, workerVars,
         MasterInv, TypeOK
<1>2. /\ task[w][j] = "start" /\ UNCHANGED <<agent, reply>>
      /\ \/ SetTask(w, j, "run") /\ proc' = [proc EXCEPT ![w] = @ \cup {j}]
         \/ SetTask(w, j, "raised") /\ UNCHANGED proc
      /\ unreported' = [unreported EXCEPT ![w] = @ \ {j}]
  BY DEF ReportStart
<1>3. /\ task' \in [Worker -> [Job -> TaskState]]
      /\ \A v \in Worker, i \in Job : v # w \/ i # j => task'[v][i] = task[v][i]
      /\ \/ task'[w][j] = "run" /\ proc' = [proc EXCEPT ![w] = @ \cup {j}]
         \/ task'[w][j] = "raised" /\ UNCHANGED proc
  BY <1>2, TaskSet DEF TaskState
<1>4. agent[w] = "up"
  BY <1>2 DEF IdleAgentsRest
<1>5. \A v \in Worker, i \in Job :
        (v # w \/ i # j) /\ i \in unreported[v] => i \in unreported'[v]
  BY <1>2 DEF AgentTypeOK
<1>6. AgentTypeOK'
  <2>1. proc' \in [Worker -> SUBSET Job]
    <3>1. CASE proc' = [proc EXCEPT ![w] = @ \cup {j}]
      BY <3>1 DEF AgentTypeOK
    <3>2. CASE UNCHANGED proc
      BY <3>2 DEF AgentTypeOK
    <3> QED BY <1>3, <3>1, <3>2
  <2>2. unreported' \in [Worker -> SUBSET Job]
    BY <1>2 DEF AgentTypeOK
  <2> QED BY <1>2, <1>3, <2>1, <2>2 DEF AgentTypeOK, MasterInv
<1>7. IdleAgentsRest' /\ AssignedToKnown'
  <2>1. \A v \in Worker \ {w} : proc'[v] = proc[v]
    BY <1>3 DEF AgentTypeOK
  <2> QED BY <1>1, <1>2, <1>3, <1>4, <2>1 DEF IdleAgentsRest, AssignedToKnown
<1>8. StopLeavesNothing' /\ LiveProcessHasTask'
  <2>1. \A v \in Worker \ {w} : proc'[v] = proc[v]
    BY <1>3 DEF AgentTypeOK
  <2>2. proc'[w] = {i \in Job : task'[w][i] = "run"}
    <3>1. proc[w] = {i \in Job : task[w][i] = "run"} /\ j \notin proc[w]
      BY <1>2, <1>4 DEF LiveProcessHasTask
    <3>2. CASE task'[w][j] = "run" /\ proc' = [proc EXCEPT ![w] = @ \cup {j}]
      <4>1. proc'[w] = proc[w] \cup {j}
        BY <3>2 DEF AgentTypeOK
      <4> QED BY <1>3, <3>1, <3>2, <4>1
    <3>3. CASE task'[w][j] = "raised" /\ UNCHANGED proc
      BY <1>3, <3>1, <3>3
    <3> QED BY <1>3, <3>2, <3>3
  <2> QED BY <1>2, <1>3, <1>4, <2>1, <2>2 DEF StopLeavesNothing, LiveProcessHasTask
<1>9. RunningIsAttended'
  BY <1>1, <1>2, <1>3, <1>4, <1>5 DEF RunningIsAttended
<1> QED BY <1>6, <1>7, <1>8, <1>9

LEMMA ReportCompletionKeeps ==
  ASSUME AgentInv, MasterInv', NEW w \in Worker, NEW j \in Job,
         ReportEnd(w, j) \/ ReportRaised(w, j)
  PROVE  AgentInv'
<1> USE DEF AgentInv, AgentTypeOK, TaskState, SetTask
<1>1. /\ NothingStarts
      /\ ~ (jstatus'[j] = "RUNNING" /\ jworker'[j] = w)
  BY CompletionEnds DEF ReportEnd, ReportRaised
<1>2. /\ UNCHANGED <<agent, proc, reply, unreported>>
      /\ task[w][j] \in {"good", "bad", "raised"}
      /\ \/ task' = [task EXCEPT ![w][j] = "none"]
         \/ task' = [task EXCEPT ![w][j] = "raised"]
  BY DEF ReportEnd, ReportRaised
<1>3. AgentTypeOK'
  BY <1>2 DEF MasterInv
<1>4. IdleAgentsRest' /\ AssignedToKnown'
  BY <1>1, <1>2 DEF NothingStarts, IdleAgentsRest
<1>5. StopLeavesNothing' /\ LiveProcessHasTask'
  BY <1>2 DEF StopLeavesNothing, LiveProcessHasTask
<1>6. RunningIsAttended'
  BY <1>1, <1>2 DEF NothingStarts, RunningIsAttended
<1> QED BY <1>3, <1>4, <1>5, <1>6

----------------------------------------------------------------------------
LEMMA AgentInvInit == AgentInit => AgentInv
<1> SUFFICES ASSUME AgentInit PROVE AgentInv
  OBVIOUS
<1>1. MasterInv
  BY InitStep DEF AgentInit
<1>2. AgentTypeOK
  BY <1>1 DEF AgentInit, AgentTypeOK, TaskState, MasterInv
<1>3. IdleAgentsRest /\ AssignedToKnown
  BY DEF AgentInit, Init, IdleAgentsRest, AssignedToKnown
<1>4. StopLeavesNothing /\ LiveProcessHasTask
  BY DEF AgentInit, StopLeavesNothing, LiveProcessHasTask
<1>5. RunningIsAttended
  BY DEF AgentInit, RunningIsAttended
<1> QED BY <1>1, <1>2, <1>3, <1>4, <1>5 DEF AgentInv

LEMMA AgentInvStep == AgentInv /\ [AgentNext]_allVars => AgentInv'
<1> SUFFICES ASSUME AgentInv, [AgentNext]_allVars PROVE AgentInv'
  OBVIOUS
<1>1. MasterInv'
  BY MasterInvKept DEF AgentInv
<1>2. CASE MasterStep
  BY <1>1, <1>2, MasterStepKeeps
<1>3. ASSUME NEW w \in Worker, AgentStep(w)
      PROVE  AgentInv'
  <2>1. CASE StartAgent(w)
    BY <1>1, <2>1, StartAgentKeeps
  <2>2. CASE SendHeartbeat(w)
    BY <1>1, <2>2, SendHeartbeatKeeps
  <2>3. CASE LoseReply(w) \/ ReadReply(w) \/ StopAgent(w) \/ CrashAgent(w)
    BY <1>1, <2>3, LoseReplyKeeps, ReadReplyKeeps, GoingAwayKeeps
  <2>4. ASSUME NEW j \in Job, ReportStart(w, j)
        PROVE  AgentInv'
    BY <1>1, <2>4, ReportStartKeeps
  <2>5. ASSUME NEW j \in Job, ReportEnd(w, j) \/ ReportRaised(w, j)
        PROVE  AgentInv'
    BY <1>1, <2>5, ReportCompletionKeeps
  <2>6. ASSUME NEW j \in Job,
               \/ ProcessEnds(w, j)
               \/ LoseStart(w, j) \/ LoseEnd(w, j) \/ LoseRaised(w, j)
        PROVE  AgentInv'
    BY <1>1, <2>6, ProcessEndsKeeps, LossKeeps
  <2> QED BY <1>3, <2>1, <2>2, <2>3, <2>4, <2>5, <2>6 DEF AgentStep, TaskStep
<1>4. CASE UNCHANGED allVars
  <2> USE <1>4 DEF allVars, agentVars, vars, AgentInv
  <2>1. AgentTypeOK'
    BY <1>1 DEF AgentTypeOK, MasterInv
  <2>2. IdleAgentsRest' /\ AssignedToKnown'
    BY DEF IdleAgentsRest, AssignedToKnown
  <2>3. StopLeavesNothing' /\ LiveProcessHasTask' /\ RunningIsAttended'
    BY DEF StopLeavesNothing, LiveProcessHasTask, RunningIsAttended
  <2> QED BY <1>1, <2>1, <2>2, <2>3
<1> QED BY <1>2, <1>3, <1>4 DEF AgentNext

LEMMA AgentInvAlways == AgentSpec => []AgentInv
<1> QED BY AgentInvInit, AgentInvStep, PTL DEF AgentSpec

\* The agents and the master keep their types together.
THEOREM AgentTypeCorrect == AgentSpec => []AgentTypeOK
<1>1. AgentInv => AgentTypeOK
  BY DEF AgentInv
<1> QED BY <1>1, AgentInvAlways, PTL

\* What the master takes to be running on a live agent, _execute_job attends to,
\* as long as one of its two reports of the end gets through.
THEOREM RunningJobsAreAttended == AgentSpec => []RunningIsAttended
<1>1. AgentInv => RunningIsAttended
  BY DEF AgentInv
<1> QED BY <1>1, AgentInvAlways, PTL

\* stop kills the processes of all jobs, wherever their coroutines are.
THEOREM StopsLeaveNothing == AgentSpec => []StopLeavesNothing
<1>1. AgentInv => StopLeavesNothing
  BY DEF AgentInv
<1> QED BY <1>1, AgentInvAlways, PTL

\* An agent has a process for just those of its tasks that are waiting for one.
THEOREM ProcessesHaveTasks == AgentSpec => []LiveProcessHasTask
<1>1. AgentInv => LiveProcessHasTask
  BY DEF AgentInv
<1> QED BY <1>1, AgentInvAlways, PTL

\* Agents are clients of the master like any other: a run of them together is a run
\* of the master, of which all its theorems hold.
THEOREM AgentsAreClients == AgentSpec => Spec
<1>1. AgentInit => Init
  BY DEF AgentInit
<1>2. [AgentNext]_allVars => [Next]_vars
  BY AgentsTakeMasterSteps
<1> QED BY <1>1, <1>2, PTL DEF AgentSpec, Spec

\* So with agents that start, execute, report, stop and crash, too, every handler
\* and every round takes each job one step of its promised life at most.
THEOREM LifecycleHoldsWithAgents == AgentSpec => ImplementsLifecycle
<1> QED BY AgentsAreClients, LifecycleImplemented
=============================================================================
