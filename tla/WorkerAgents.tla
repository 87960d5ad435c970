---------------------------- MODULE WorkerAgents ----------------------------
(***************************************************************************)
(* The worker agents (worker/agent.py, worker/executor.py) composed with   *)
(* the master of ClusterState.  An agent registers, sends heartbeats one   *)
(* after another, and runs a coroutine for each job that a heartbeat's     *)
(* reply lists as scheduled: report the start, run the process, report the *)
(* end.  Reports are HTTP requests: one may be lost, and so may its        *)
(* answer, in which case the master has acted on it and the agent believes *)
(* it failed.  A request that timed out is not served later.               *)
(*                                                                         *)
(* An agent has one registration: after a restart it has a new worker id.  *)
(* Agents are separate processes, so the round of the master's scheduler,  *)
(* which is atomic, is not interleaved with their steps either (Idle).     *)
(***************************************************************************)
EXTENDS ClusterState

CONSTANT
  ReplyFails       \* Job.to_dict subtracts a naive created_at from an aware
                   \* timestamp: building the reply for an assigned job raises

ASSUME ReplyFailsIsBoolean == ReplyFails \in BOOLEAN

VARIABLES
  agent,           \* the agent's process, by registration
  task,            \* _job_tasks, and how far each coroutine is
  proc,            \* processes of jobs on the agent's machine
  reply,           \* heartbeat reply on its way: the jobs it lists as scheduled
  unreported       \* jobs both of whose last reports were lost (history)

agentVars == <<agent, task, proc, reply, unreported>>
allVars == <<vars, agentVars>>

\* "start", "good"/"bad" and "raised" are the three reports of _execute_job
\* under way: the start, the end with a result, the end after an exception.
TaskState == {"none", "start", "run", "good", "bad", "raised"}

AgentTypeOK ==
  /\ TypeOK
  /\ agent \in [Worker -> {"new", "up", "stopped", "crashed"}]
  /\ task \in [Worker -> [Job -> TaskState]]
  /\ proc \in [Worker -> SUBSET Job]
  /\ reply \in [Worker -> (SUBSET Job) \cup {None}]
  /\ unreported \in [Worker -> SUBSET Job]

AgentInit ==
  /\ Init
  /\ agent = [w \in Worker |-> "new"]
  /\ task = [w \in Worker |-> [j \in Job |-> "none"]]
  /\ proc = [w \in Worker |-> {}]
  /\ reply = [w \in Worker |-> None]
  /\ unreported = [w \in Worker |-> {}]

SetTask(w, j, s) == task' = [task EXCEPT ![w][j] = s]

----------------------------------------------------------------------------
\* start and _register.
StartAgent(w) ==
  /\ \E r \in Registrations : RegisterWorker(w, r)
  /\ agent' = [agent EXCEPT ![w] = "up"]
  /\ UNCHANGED <<task, proc, reply, unreported>>

\* The heartbeat's handler at the master: it applies the heartbeat, then builds
\* the reply from the worker's jobs.
Listed(w) ==
  {j \in Job : jworker[j] = w /\ jstatus[j] \in {"SCHEDULED", "RUNNING"}}

SendHeartbeat(w) ==
  /\ agent[w] = "up" /\ reply[w] = None
  /\ Heartbeat(w, FALSE)
  /\ reply' = [reply EXCEPT ![w] =
                 IF ReplyFails /\ Listed(w) # {} THEN None
                 ELSE {j \in Listed(w) : jstatus[j] = "SCHEDULED"}]
  /\ UNCHANGED <<agent, task, proc, unreported>>

LoseReply(w) ==
  /\ Idle /\ reply[w] # None
  /\ reply' = [reply EXCEPT ![w] = None]
  /\ UNCHANGED <<vars, agent, task, proc, unreported>>

ReadReply_Scheduled(w) ==
  /\ Idle /\ agent[w] = "up" /\ reply[w] # None
  /\ task' = [task EXCEPT ![w] = [j \in Job |->
                IF j \in reply[w] THEN "start" ELSE @[j]]]
  /\ reply' = [reply EXCEPT ![w] = None]
  /\ UNCHANGED <<vars, agent, proc, unreported>>

\* The rest of _send_heartbeat: a task for each listed job that has none.
ReadReply(w) ==
  /\ Idle /\ agent[w] = "up" /\ reply[w] # None
  /\ task' = [task EXCEPT ![w] = [j \in Job |->
                IF j \in reply[w] /\ @[j] = "none" THEN "start" ELSE @[j]]]
  /\ reply' = [reply EXCEPT ![w] = None]
  /\ UNCHANGED <<vars, agent, proc, unreported>>

----------------------------------------------------------------------------
\* _execute_job.

\* What the master does with a report: a 400 when the job is not assigned to
\* the worker.  The agent does not look at the status code.
Reject(j, w) == Idle /\ jworker[j] # w /\ UNCHANGED vars
StartServed(j, w) == StartJob(j, w) \/ Reject(j, w)
CompleteServed(j, w, success) == CompleteJob(j, w, success) \/ Reject(j, w)

\* The start report, and what follows its answer without an await: the process
\* is started, or the executor raises.
ReportStart(w, j) ==
  /\ task[w][j] = "start"
  /\ StartServed(j, w)
  /\ \/ SetTask(w, j, "run") /\ proc' = [proc EXCEPT ![w] = @ \cup {j}]
     \/ SetTask(w, j, "raised") /\ UNCHANGED proc
  /\ unreported' = [unreported EXCEPT ![w] = @ \ {j}]
  /\ UNCHANGED <<agent, reply>>

\* A lost request, or an answer that does not arrive, is an exception.
LoseStart(w, j) ==
  /\ Idle /\ task[w][j] = "start"
  /\ SetTask(w, j, "raised")
  /\ UNCHANGED <<vars, agent, proc, reply, unreported>>

\* The process ends, is killed by its time-out, or cannot be run.
ProcessEnds(w, j) ==
  /\ Idle /\ j \in proc[w]
  /\ proc' = [proc EXCEPT ![w] = @ \ {j}]
  /\ IF task[w][j] = "run"
     THEN SetTask(w, j, "good") \/ SetTask(w, j, "bad")
     ELSE UNCHANGED task
  /\ UNCHANGED <<vars, agent, reply, unreported>>

ReportEnd_Forgotten(w, j) ==
  /\ task[w][j] \in {"good", "bad"}
  /\ Idle
  /\ SetTask(w, j, "none")
  /\ UNCHANGED <<vars, agent, proc, reply, unreported>>

\* The report of the result, whose answer may get lost.
ReportEnd(w, j) ==
  /\ task[w][j] \in {"good", "bad"}
  /\ CompleteServed(j, w, task[w][j] = "good")
  /\ SetTask(w, j, "none") \/ SetTask(w, j, "raised")
  /\ UNCHANGED <<agent, proc, reply, unreported>>

LoseEnd(w, j) ==
  /\ Idle /\ task[w][j] \in {"good", "bad"}
  /\ SetTask(w, j, "raised")
  /\ UNCHANGED <<vars, agent, proc, reply, unreported>>

\* The second report, sent after any exception: a failure.
ReportRaised(w, j) ==
  /\ task[w][j] = "raised"
  /\ CompleteServed(j, w, FALSE)
  /\ SetTask(w, j, "none")
  /\ UNCHANGED <<agent, proc, reply, unreported>>

LoseRaised(w, j) ==
  /\ Idle /\ task[w][j] = "raised"
  /\ SetTask(w, j, "none")
  /\ unreported' = [unreported EXCEPT ![w] = @ \cup {j}]
  /\ UNCHANGED <<vars, agent, proc, reply>>

----------------------------------------------------------------------------
StopAgent_TasksOnly(w) ==
  /\ Idle /\ agent[w] = "up"
  /\ agent' = [agent EXCEPT ![w] = "stopped"]
  /\ task' = [task EXCEPT ![w] = [j \in Job |-> "none"]]
  /\ reply' = [reply EXCEPT ![w] = None]
  /\ UNCHANGED <<vars, proc, unreported>>

\* stop: the heartbeat and the tasks are cancelled, and JobExecutor.cancel kills
\* the process of each.  Nobody tells the master.
StopAgent(w) ==
  /\ Idle /\ agent[w] = "up"
  /\ agent' = [agent EXCEPT ![w] = "stopped"]
  /\ proc' = [proc EXCEPT ![w] = @ \ {j \in Job : task[w][j] # "none"}]
  /\ task' = [task EXCEPT ![w] = [j \in Job |-> "none"]]
  /\ reply' = [reply EXCEPT ![w] = None]
  /\ UNCHANGED <<vars, unreported>>

\* The agent dies; its jobs' processes have sessions of their own and live on.
CrashAgent(w) ==
  /\ Idle /\ agent[w] = "up"
  /\ agent' = [agent EXCEPT ![w] = "crashed"]
  /\ task' = [task EXCEPT ![w] = [j \in Job |-> "none"]]
  /\ reply' = [reply EXCEPT ![w] = None]
  /\ UNCHANGED <<vars, proc, unreported>>

----------------------------------------------------------------------------
\* The master's own steps: clients submit, cancel and remove, rounds go on.
MasterStep ==
  /\ \/ \E j \in Job, s \in Submissions : SubmitJob(j, s)
     \/ \E j \in Job : CancelJob(j)
     \/ \E w \in Worker : RemoveWorker(w)
     \/ RoundStep
  /\ UNCHANGED agentVars

\* Some outcome of the coroutine's next await.
TaskStep(w, j) ==
  \/ ReportStart(w, j) \/ LoseStart(w, j)
  \/ ProcessEnds(w, j)
  \/ ReportEnd(w, j) \/ LoseEnd(w, j)
  \/ ReportRaised(w, j) \/ LoseRaised(w, j)

AgentStep(w) ==
  \/ StartAgent(w) \/ StopAgent(w) \/ CrashAgent(w)
  \/ SendHeartbeat(w) \/ LoseReply(w) \/ ReadReply(w)
  \/ \E j \in Job : TaskStep(w, j)

AgentNext == MasterStep \/ \E w \in Worker : AgentStep(w)

AgentSpec == AgentInit /\ [][AgentNext]_allVars

\* The loops go on, awaits end (requests and processes have time-outs), and of
\* infinitely many heartbeats or start reports infinitely many get through.
AgentFairSpec ==
  /\ AgentSpec
  /\ WF_allVars(RoundStep /\ UNCHANGED agentVars)
  /\ \A w \in Worker :
       /\ WF_allVars(SendHeartbeat(w)) /\ SF_allVars(ReadReply(w))
       /\ \A j \in Job : SF_allVars(ReportStart(w, j)) /\ WF_allVars(TaskStep(w, j))

----------------------------------------------------------------------------
\* Properties.

\* A job the master takes to be running on a live agent is in that agent's
\* hands, unless both its reports were lost: whatever was cancelled, repeated
\* or listed in a late heartbeat reply meanwhile.
RunningIsAttended ==
  \A j \in Job, w \in Worker :
    jstatus[j] = "RUNNING" /\ jworker[j] = w /\ agent[w] = "up" =>
      task[w][j] \notin {"none", "start"} \/ j \in unreported[w]

\* An agent that was stopped, wherever its coroutines were, leaves no process
\* behind.
StopLeavesNothing == \A w \in Worker : agent[w] = "stopped" => proc[w] = {}

\* An agent runs a job once at a time, and only one it still has a task for,
\* so stop can find the process.
LiveProcessHasTask ==
  \A w \in Worker : agent[w] = "up" =>
    proc[w] = {j \in Job : task[w][j] = "run"}

\* A job scheduled on an agent is started by it or taken back.
AssignedIsStarted ==
  \A j \in Job, w \in Worker :
    (jstatus[j] = "SCHEDULED" /\ jworker[j] = w /\ agent[w] = "up") ~>
      ~ (jstatus[j] = "SCHEDULED" /\ jworker[j] = w /\ agent[w] = "up")

\* A job assigned to an agent is started, and then ends or returns to the
\* queue, unless the agent goes away or both its reports are lost.
AssignedIsResolved ==
  \A j \in Job, w \in Worker :
    (jstatus[j] \in {"SCHEDULED", "RUNNING"} /\ jworker[j] = w /\ agent[w] = "up") ~>
      \/ jstatus[j] \notin {"SCHEDULED", "RUNNING"} \/ jworker[j] # w
      \/ agent[w] # "up" \/ j \in unreported[w]
=============================================================================
