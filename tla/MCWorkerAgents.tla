--------------------------- MODULE MCWorkerAgents ---------------------------
(* WorkerAgents on small instances: workers with room for one job.            *)
EXTENDS WorkerAgents

OneResource == {"cpu"}
NoTags == {}
Units(n) == [r \in Resource |-> n]
AJob(n, prio, maxRetries) ==
  [need |-> Units(n), prio |-> prio, tags |-> {}, docker |-> FALSE,
   prefer |-> None, maxRetries |-> maxRetries]

RetriedJob == {AJob(1, 50, 1)}
SmallWorker == {[total |-> Units(1), tags |-> {}, docker |-> TRUE]}
=============================================================================
