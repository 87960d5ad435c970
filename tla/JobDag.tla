------------------------------- MODULE JobDag -------------------------------
(***************************************************************************)
(* One directed acyclic graph of jobs and its executor (scheduler/dag.py). *)
(* submit_dag, the notifications of ended jobs and cancel_dag are          *)
(* coroutines of one event loop.  A scheduling pass takes its list of      *)
(* ready nodes once and then awaits one submission after the other; what   *)
(* else happens meanwhile does not change the list.                        *)
(*                                                                         *)
(* serial singles out the runs in which no job is reported while a pass is *)
(* under way; cancel_dag may cut in.                                       *)
(***************************************************************************)
EXTENDS Naturals, FiniteSets, FiniteSetsExt

CONSTANTS
  DagNode,          \* numbers: a parent is below its children, and a node was
                    \* added to the graph before those above it
  ParallelLimits,   \* values of max_parallel_jobs
  Pass,             \* bound: scheduling passes under way at a time
  MaxSubmissions    \* bound on submissions of one node

ASSUME NodesAreNumbers == DagNode \subseteq Nat /\ MaxSubmissions \in Nat

VARIABLES
  serial,
  maxParallel,      \* max_parallel_jobs
  edge,             \* dependency types, "none" where there is no edge
  dagStatus,
  nodeStatus,
  runningJobs,      \* _running_jobs
  submissions,      \* calls of submit_job
  pass              \* the passes of _schedule_ready_jobs

dagVars == <<serial, maxParallel, edge, dagStatus, nodeStatus, runningJobs,
             submissions, pass>>

Settled == {"COMPLETED", "FAILED", "CANCELLED"}
Ended == {"SUCCEEDED", "FAILED", "CANCELLED", "PARTIAL"}

\* A pass awaits the submission of the first of its nodes; checks tells whether
\* its caller looks for completion afterwards.
IdlePass == [todo |-> {}, checks |-> FALSE]

DagTypeOK ==
  /\ serial \in BOOLEAN /\ maxParallel \in ParallelLimits
  /\ edge \in [DagNode \X DagNode -> {"none", "SUCCESS", "COMPLETION", "FAILURE"}]
  /\ dagStatus \in {"PENDING", "RUNNING"} \cup Ended
  /\ nodeStatus \in [DagNode -> {"PENDING", "SCHEDULED"} \cup Settled]
  /\ runningJobs \subseteq DagNode
  /\ submissions \in [DagNode -> 0 .. MaxSubmissions]
  /\ pass \in [Pass -> [todo: SUBSET DagNode, checks: BOOLEAN]]

DagInit ==
  /\ serial \in BOOLEAN /\ maxParallel \in ParallelLimits
  /\ edge \in [DagNode \X DagNode -> {"none", "SUCCESS", "COMPLETION", "FAILURE"}]
  /\ \A p, c \in DagNode : p >= c => edge[p, c] = "none"
  /\ dagStatus = "PENDING"
  /\ nodeStatus = [n \in DagNode |-> "PENDING"]
  /\ runningJobs = {}
  /\ submissions = [n \in DagNode |-> 0]
  /\ pass = [s \in Pass |-> IdlePass]

Parents(n) == {p \in DagNode : edge[p, n] # "none"}
ChildrenOf(n) == {c \in DagNode : edge[n, c] # "none"}

----------------------------------------------------------------------------
\* get_ready_nodes: when an edge lets its child run.
Allows(type, status) ==
  \/ type = "SUCCESS" /\ status = "COMPLETED"
  \/ type = "COMPLETION" /\ status \in Settled
  \/ type = "FAILURE" /\ status = "FAILED"

ReadyNodes_AnyParent(st) ==
  {n \in DagNode : st[n] = "PENDING"
                   /\ (Parents(n) # {} =>
                         \E p \in Parents(n) : Allows(edge[p, n], st[p]))}

ReadyNodes(st) ==
  {n \in DagNode : st[n] = "PENDING"
                   /\ \A p \in Parents(n) : Allows(edge[p, n], st[p])}

\* The first max_parallel_jobs in the order of the graph.
FirstOf(nodes) ==
  {n \in nodes : Cardinality({k \in nodes : k < n}) < maxParallel}

\* _handle_failure: the descendants the failed node reaches over edges that are
\* not its own COMPLETION or FAILURE edges are cancelled if they wait.  Of the
\* edges further down the type is not looked at.
Heirs(f, reached) ==
  reached \cup {c \in DagNode :
                  /\ edge[f, c] \in {"none", "SUCCESS"}
                  /\ \E p \in reached : c \in ChildrenOf(p)}
DoomedBy(f) ==
  LET start == {c \in DagNode : edge[f, c] = "SUCCESS"}
      grow[k \in 0 .. Cardinality(DagNode)] ==
        IF k = 0 THEN start ELSE Heirs(f, grow[k - 1])
  IN  grow[Cardinality(DagNode)]

\* _check_dag_completion: also a cancelled graph gets a new status.
Outcome(st) ==
  IF \A n \in DagNode : st[n] = "COMPLETED" THEN "SUCCEEDED"
  ELSE IF \A n \in DagNode : st[n] = "CANCELLED" THEN "CANCELLED"
  ELSE IF \A n \in DagNode : st[n] \in {"FAILED", "CANCELLED"} THEN "FAILED"
  ELSE "PARTIAL"

Over_NoneWaits(st) == \A n \in DagNode : st[n] # "PENDING"
Over(st) == \A n \in DagNode : st[n] \in Settled

\* A SUCCESS parent has failed or a FAILURE parent completed since the list was
\* taken.
ShouldSkip(n, st) ==
  \E p \in Parents(n) : \/ edge[p, n] = "SUCCESS" /\ st[p] = "FAILED"
                        \/ edge[p, n] = "FAILURE" /\ st[p] = "COMPLETED"

\* _schedule_ready_jobs from one await to the next: what is to be skipped is
\* cancelled and the next node submitted, whatever its status is by now; after
\* the last one the caller checks for completion.
Advance(s, todo, checks, st, run, status) ==
  LET gone == {n \in todo : \A k \in todo : k <= n => ShouldSkip(k, st)}
      left == todo \ gone
      st2  == [n \in DagNode |->
                 IF n \in gone THEN "CANCELLED"
                 ELSE IF left # {} /\ n = Min(left) THEN "SCHEDULED" ELSE st[n]]
  IN  /\ nodeStatus' = st2
      /\ IF left = {}
         THEN /\ pass' = [pass EXCEPT ![s] = IdlePass]
              /\ runningJobs' = run
              /\ dagStatus' = IF checks /\ Over(st2) THEN Outcome(st2) ELSE status
              /\ UNCHANGED submissions
         ELSE /\ submissions[Min(left)] < MaxSubmissions
              /\ pass' = [pass EXCEPT ![s] = [todo |-> left, checks |-> checks]]
              /\ runningJobs' = run \cup {Min(left)}
              /\ submissions' = [submissions EXCEPT ![Min(left)] = @ + 1]
              /\ dagStatus' = status

BeginPass(s, checks, st, run, status) ==
  Advance(s, IF status \in {"PENDING", "RUNNING"}
             THEN FirstOf(ReadyNodes(st)) ELSE {}, checks, st, run, status)

IdleAt(s) == /\ pass[s] = IdlePass
             /\ serial => \A r \in Pass : pass[r] = IdlePass

SubmitDag(s) ==
  /\ dagStatus = "PENDING" /\ IdleAt(s)
  /\ BeginPass(s, FALSE, nodeStatus, runningJobs, "RUNNING")
  /\ UNCHANGED <<serial, maxParallel, edge>>

\* The submission a pass awaits.
Awaited(s) == Min(pass[s].todo)
GoOn(s, st) ==
  /\ pass[s].todo # {}
  /\ Advance(s, pass[s].todo \ {Awaited(s)}, pass[s].checks, st, runningJobs,
             dagStatus)
  /\ UNCHANGED <<serial, maxParallel, edge>>

SubmitReturns(s) == GoOn(s, nodeStatus)

\* submit_job raises: the node has failed, and stays in _running_jobs, but its
\* descendants are not told.
SubmitRaises(s) == GoOn(s, [nodeStatus EXCEPT ![Awaited(s)] = "FAILED"])

\* A job that runs and whose submission has returned.
Reportable(n) ==
  /\ n \in runningJobs /\ nodeStatus[n] = "SCHEDULED"
  /\ \A r \in Pass : pass[r].todo # {} => Awaited(r) # n

\* notify_job_completed, by the caller or the poll of _process_dags.
Notify_SparesHeirs(s, n, status) ==
  /\ Reportable(n) /\ IdleAt(s)
  /\ BeginPass(s, TRUE, [nodeStatus EXCEPT ![n] = status], runningJobs \ {n},
               dagStatus)
  /\ UNCHANGED <<serial, maxParallel, edge>>

Notify(s, n, status) ==
  LET st == [k \in DagNode |->
               IF k = n THEN status
               ELSE IF /\ status = "FAILED" /\ nodeStatus[k] = "PENDING"
                       /\ k \in DoomedBy(n)
               THEN "CANCELLED" ELSE nodeStatus[k]]
  IN  /\ Reportable(n) /\ IdleAt(s)
      /\ BeginPass(s, TRUE, st, runningJobs \ {n}, dagStatus)
      /\ UNCHANGED <<serial, maxParallel, edge>>

CancelDag ==
  /\ dagStatus # "PENDING" /\ dagStatus # "CANCELLED"
  /\ dagStatus' = "CANCELLED"
  /\ nodeStatus' = [n \in DagNode |-> IF nodeStatus[n] = "PENDING"
                                      THEN "CANCELLED" ELSE nodeStatus[n]]
  /\ UNCHANGED <<serial, maxParallel, edge, runningJobs, submissions, pass>>

PassMoves(s) == SubmitReturns(s) \/ SubmitRaises(s)
NotifyOf(n) == \E s \in Pass, status \in Settled : Notify(s, n, status)

DagNext ==
  \/ CancelDag
  \/ \E s \in Pass : SubmitDag(s) \/ PassMoves(s)
  \/ \E n \in DagNode : NotifyOf(n)

DagSpec == DagInit /\ [][DagNext]_dagVars

\* Passes go on, and every job that was submitted ends and is reported.
DagMoves == (\E s \in Pass : PassMoves(s)) \/ (\E n \in DagNode : NotifyOf(n))

DagFairness == WF_dagVars(DagMoves)

----------------------------------------------------------------------------
\* Properties.

\* No job of the graph is submitted before its parents ended the way its edges
\* ask, nor twice, although each pass takes its own list of ready nodes and
\* others are cancelled or fail meanwhile.
SubmittedInOrder ==
  serial => \A n \in DagNode :
    /\ submissions[n] <= 1
    /\ submissions[n] = 1 => \A p \in Parents(n) : Allows(edge[p, n], nodeStatus[p])

\* A graph that is called over has no job left that waits or runs, unless it was
\* cancelled.
OverIsOver ==
  serial /\ dagStatus \in {"SUCCEEDED", "FAILED", "PARTIAL"} =>
    \A n \in DagNode : nodeStatus[n] \in Settled

\* A graph each node of which waits for the success or for the completion of all
\* its parents ends when each job completes or fails: nobody is left waiting for
\* a parent that will not come.  (A job whose submission raises and one that is
\* cancelled from outside do leave their descendants waiting; so does the failure
\* of a node that another waits to complete while it waits for the success of
\* one of the failed node's heirs.)
Uniform ==
  \A c \in DagNode : \E type \in {"SUCCESS", "COMPLETION"} :
    \A p \in Parents(c) : edge[p, c] = type
CutShort ==
  \E n \in DagNode : \/ n \in runningJobs /\ nodeStatus[n] = "FAILED"
                     \/ submissions[n] > 0 /\ nodeStatus[n] = "CANCELLED"
DagEnds ==
  (serial /\ dagStatus = "RUNNING" /\ Uniform) ~> (dagStatus \in Ended \/ CutShort)
=============================================================================
