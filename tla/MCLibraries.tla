----------------------------- MODULE MCLibraries -----------------------------
(* Small instances of the parts that stand alone: graphs of jobs, connection   *)
(* pool, circuit breaker, topic, and the masters of an HA cluster that hold    *)
(* one election at a time.  focus tells which of them runs in a behaviour;     *)
(* the others rest in their first states, so the states of the run are the     *)
(* sum of theirs.                                                              *)
EXTENDS JobDag, ConnectionPool, CircuitBreaker, PubSub, HAElection

VARIABLE focus

libraryVars == <<focus, dagVars, poolVars, breakerVars, pubSubVars, vars>>

\* JobDag
Nodes == 1 .. 3
Passes == 1 .. 2
NoEdges == [e \in DagNode \X DagNode |-> "none"]
\* PubSub: two subscribers share the first subscription.
Messages == 1 .. 2
Subscribers == 1 .. 3
TwoAndOne == <<"s1", "s1", "s2">>
\* HAElection
Three == 1 .. 3
FullMesh == [m \in Master |-> Master \ {m}]
NobodyDefers == [m \in Master |-> {}]

\* What rests takes one of its initial states.
LibraryInit ==
  /\ focus \in {"dag", "pool", "breaker", "topic", "masters"}
  /\ DagInit /\ PoolInit /\ BreakerInit /\ PubSubInit /\ Init
  /\ focus # "dag" => serial /\ edge = NoEdges /\ maxParallel = 1
  /\ focus # "pool" => steady /\ minSize = 0
  /\ focus # "topic" => unbroken /\ kind = "SHARED" /\ line["s1"] = <<1, 2>>

LibraryNext ==
  /\ focus' = focus
  /\ \/ /\ focus = "dag" /\ DagNext
        /\ UNCHANGED <<poolVars, breakerVars, pubSubVars, vars>>
     \/ /\ focus = "pool" /\ PoolNext
        /\ UNCHANGED <<dagVars, breakerVars, pubSubVars, vars>>
     \/ /\ focus = "breaker" /\ BreakerNext
        /\ UNCHANGED <<dagVars, poolVars, pubSubVars, vars>>
     \/ /\ focus = "topic" /\ PubSubNext
        /\ UNCHANGED <<dagVars, poolVars, breakerVars, vars>>
     \/ /\ focus = "masters" /\ OrderlyNext
        /\ UNCHANGED <<dagVars, poolVars, breakerVars, pubSubVars>>

\* The fairness of each part (DagFairness, PoolFairness, BreakerFairness,
\* PubSubFairness), where its liveness property asks for it.
LibraryFairness ==
  /\ WF_dagVars(focus = "dag" /\ serial /\ DagMoves)
  /\ WF_poolVars(focus = "pool" /\ steady /\ PoolMoves)
  /\ WF_poolVars(focus = "pool" /\ steady /\ HealthMoves)
  /\ SF_poolVars(focus = "pool" /\ steady /\ TakesFromQueue)
  /\ WF_breakerVars(focus = "breaker" /\ mended /\ BreakerMoves)
  /\ WF_pubSubVars(focus = "topic" /\ unbroken /\ PubSubMoves)

LibrarySpec == LibraryInit /\ [][LibraryNext]_libraryVars /\ LibraryFairness
=============================================================================
