--------------------------- MODULE MCClusterState ---------------------------
(* ClusterState on small instances: one or two units of CPU, jobs that differ *)
(* in priority, size, retries, preferred worker and need of Docker.           *)
EXTENDS ClusterState

OneResource == {"cpu"}
TwoResources == {"cpu", "gpu_memory"}
NoTags == {}
GpuTag == {"gpu"}

Units(n) == [r \in Resource |-> n]
AJob(n, prio, tags, docker, prefer, maxRetries) ==
  [need |-> Units(n), prio |-> prio, tags |-> tags, docker |-> docker,
   prefer |-> prefer, maxRetries |-> maxRetries]

\* For the order of a round: big and small, tagged, Docker, preferring.
RoundJobs ==
  {AJob(2, 100, {}, FALSE, None, 0), AJob(1, 50, {}, FALSE, None, 0),
   AJob(1, 50, {}, TRUE, 2, 1), AJob(1, 100, {"gpu"}, FALSE, 1, 0)}
\* The urgent one fits no worker.
BigAndSmallJob ==
  {AJob(2, 100, {}, FALSE, None, 0), AJob(1, 50, {}, FALSE, None, 1)}
OneKindOfJob == {AJob(1, 50, {}, FALSE, None, 1)}

SmallWorker == {[total |-> Units(1), tags |-> {}, docker |-> TRUE]}
BigWorker == {[total |-> Units(2), tags |-> {}, docker |-> TRUE]}
RoundWorkers ==
  {[total |-> Units(2), tags |-> {"gpu"}, docker |-> FALSE],
   [total |-> Units(1), tags |-> {}, docker |-> TRUE]}
=============================================================================
