------------------------------- MODULE MCPeers -------------------------------
(* Small instances of the parts that exchange messages: an agent with its      *)
(* master, the mesh, the synchronisation of masters, and a worker's choice of  *)
(* its master.  focus tells which of them runs in a behaviour; the others rest *)
(* in one of their first states, so the states of the run are the sum of       *)
(* theirs.                                                                     *)
EXTENDS WorkerAgents, MeshElection, StateSync, HAWorkerAgent

VARIABLE focus

peerVars == <<focus, allVars, meshVars, syncVars, haVars>>

\* WorkerAgents: one job that fits the one worker and may be tried twice.
OneResource == {"cpu"}
NoTags == {}
OneUnit == [r \in Resource |-> 1]
RetriedJob ==
  {[need |-> OneUnit, prio |-> 50, tags |-> {}, docker |-> FALSE, prefer |-> None,
    maxRetries |-> 1]}
SmallWorker == {[total |-> OneUnit, tags |-> {}, docker |-> TRUE]}
\* MeshElection
Nodes == 1 .. 3
Slots == 1 .. 2

AnyOf(S) == CHOOSE x \in S : TRUE

PeerInit ==
  /\ focus \in {"agent", "mesh", "sync", "choice"}
  /\ AgentInit /\ MeshInit /\ SyncInit /\ HAInit
  /\ focus # "mesh" => ~timely
  /\ focus # "sync" => ~reliable /\ leading = {AnyOf(SyncMaster)}
  /\ focus # "choice" => ~calm /\ lead = AnyOf(Master) /\ masters = <<lead>>

PeerNext ==
  /\ focus' = focus
  /\ \/ /\ focus = "agent" /\ AgentNext
        /\ UNCHANGED <<meshVars, syncVars, haVars>>
     \/ /\ focus = "mesh" /\ MeshNext
        /\ UNCHANGED <<allVars, syncVars, haVars>>
     \/ /\ focus = "sync" /\ SyncNext
        /\ UNCHANGED <<allVars, meshVars, haVars>>
     \/ /\ focus = "choice" /\ HANext
        /\ UNCHANGED <<allVars, meshVars, syncVars>>

\* The fairness of each part (AgentFairSpec, MeshFairness, SyncFairness,
\* HAFairness), where its liveness property asks for it.
PeerFairness ==
  /\ WF_allVars(focus = "agent" /\ RoundStep /\ UNCHANGED agentVars)
  /\ \A w \in Worker :
       /\ WF_allVars(focus = "agent" /\ SendHeartbeat(w))
       /\ SF_allVars(focus = "agent" /\ ReadReply(w))
       /\ \A j \in Job : /\ SF_allVars(focus = "agent" /\ ReportStart(w, j))
                         /\ WF_allVars(focus = "agent" /\ TaskStep(w, j))
  /\ WF_meshVars(focus = "mesh" /\ timely /\ MeshReceives)
  /\ WF_meshVars(focus = "mesh" /\ timely /\ MeshElects)
  /\ WF_meshVars(focus = "mesh" /\ timely /\ LeaderBeats)
  /\ WF_syncVars(focus = "sync" /\ reliable /\ SyncSends)
  /\ WF_syncVars(focus = "sync" /\ reliable /\ SyncTakes)
  /\ WF_haVars(focus = "choice" /\ calm /\ AgentMoves)
  /\ WF_haVars(focus = "choice" /\ calm /\ Probe)

PeerSpec == PeerInit /\ [][PeerNext]_peerVars /\ PeerFairness
=============================================================================
