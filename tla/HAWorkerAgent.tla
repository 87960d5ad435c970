--------------------------- MODULE HAWorkerAgent ---------------------------
(***************************************************************************)
(* A worker of a cluster with several masters (worker/ha_agent.py): it     *)
(* looks for the leader among its masters, registers with it, and moves    *)
(* when a heartbeat fails.  The heartbeat loop and the health loop are two *)
(* coroutines that both walk through the list of masters and interleave at *)
(* every request.                                                          *)
(*                                                                         *)
(* Until the cluster is calm, masters crash, come back without their state *)
(* and change the leader, and any request may fail.                        *)
(***************************************************************************)
EXTENDS Naturals, Sequences, SequencesExt, FiniteSets

CONSTANTS
  Master,
  NoMaster,
  HAMaxCrashes      \* bound on crashes of masters

VARIABLES
  calm,
  calmAtStart,
  up,               \* masters that run
  lead,             \* the master that is active
  crashes,
  configured,       \* ha_config.masters
  masters,          \* _masters, by address
  healthy,          \* is_healthy
  failures,         \* consecutive_failures, counted to 3
  cur,              \* _current_master
  knownTo,          \* masters whose state holds worker_id
  main,             \* the coroutine of start and the heartbeat loop
  probe             \* position of _master_health_loop in the list

haVars == <<calm, calmAtStart, up, lead, crashes, configured, masters, healthy,
            failures, cur, knownTo, main, probe>>
haCluster == <<calm, calmAtStart, up, lead, crashes, configured>>

\* at counts the masters visited: one that is prepended meanwhile shifts the
\* list under the loop.
Main == [phase: {"discovering", "beating", "failing", "stopped"},
         at: 0 .. 2 * Cardinality(Master)]

HATypeOK ==
  /\ calm \in BOOLEAN /\ calmAtStart \in BOOLEAN
  /\ up \subseteq Master /\ lead \in Master
  /\ configured \subseteq Master /\ ToSet(masters) \subseteq Master
  /\ healthy \subseteq Master
  /\ failures \in [Master -> 0 .. 3]
  /\ cur \in Master \cup {NoMaster}
  /\ knownTo \subseteq Master
  /\ main \in Main /\ probe \in 0 .. Cardinality(Master)

HAInit ==
  /\ calm \in BOOLEAN /\ calmAtStart = calm
  /\ up = Master /\ lead \in Master /\ crashes = 0
  /\ \E s \in SetToSeqs(Master), n \in 1 .. Cardinality(Master) :
       masters = SubSeq(s, 1, n)
  /\ configured = ToSet(masters)
  /\ healthy = Master /\ failures = [m \in Master |-> 0]
  /\ cur = NoMaster /\ knownTo = {}
  /\ main = [phase |-> "discovering", at |-> 0] /\ probe = 0

\* MasterEndpoint.mark_failure and mark_success.
MarkFailure(m) ==
  /\ failures' = [failures EXCEPT ![m] = IF @ < 3 THEN @ + 1 ELSE 3]
  /\ healthy' = IF failures[m] >= 2 THEN healthy \ {m} ELSE healthy
MarkSuccess(m) ==
  /\ failures' = [failures EXCEPT ![m] = 0]
  /\ healthy' = healthy \cup {m}

\* A request m answers; until the cluster is calm any may fail.
Answers(m) == m \in up
MayFail(m) == ~ calm \/ m \notin up
Active(m) == m \in up /\ m = lead

\* _register_with_master: only the active master takes a registration.
RegisterWith(m) ==
  /\ Active(m)
  /\ knownTo' = {m} /\ cur' = m

Go(phase, at) == main' = [phase |-> phase, at |-> at]
Ahead(m) == main.at < Len(masters) /\ masters[main.at + 1] = m

----------------------------------------------------------------------------
\* _discover_and_register at one of the masters: register with it if it says
\* it leads, or says nothing; go on if either fails.
Discover(m) ==
  /\ main.phase = "discovering" /\ Ahead(m)
  /\ \/ RegisterWith(m) /\ MarkSuccess(m) /\ Go("beating", 0)
     \/ /\ MayFail(m)
        /\ Go("discovering", main.at + 1)
        /\ UNCHANGED <<cur, knownTo, healthy, failures>>
  /\ UNCHANGED haCluster /\ UNCHANGED <<masters, probe>>

\* ... or, told that it does not lead, note the leader it names: a new one is
\* prepended, where this loop does not come, and the loop meets m again.
FollowHint(m) ==
  /\ main.phase = "discovering" /\ Ahead(m)
  /\ Answers(m) /\ m # lead
  /\ Go("discovering", main.at + 1)
  /\ \E l \in IF calm THEN {lead} ELSE Master :
       masters' = IF l \in ToSet(masters) THEN masters ELSE <<l>> \o masters
  /\ UNCHANGED haCluster
  /\ UNCHANGED <<healthy, failures, cur, knownTo, probe>>

\* start: no master took the registration.
GiveUp ==
  /\ main.phase = "discovering" /\ main.at >= Len(masters)
  /\ Go("stopped", 0)
  /\ UNCHANGED haCluster
  /\ UNCHANGED <<masters, healthy, failures, cur, knownTo, probe>>

\* _send_heartbeat; a master need not be active to answer it.
Beat ==
  /\ main.phase = "beating"
  /\ \/ /\ cur \in up \cap knownTo
        /\ MarkSuccess(cur) /\ UNCHANGED main
     \/ /\ MayFail(cur) \/ cur \notin knownTo
        /\ MarkFailure(cur) /\ Go("failing", 0)
  /\ UNCHANGED haCluster /\ UNCHANGED <<masters, cur, knownTo, probe>>

\* _handle_master_failure at one of the masters.
PassOver(m) ==
  /\ main.phase = "failing" /\ Ahead(m)
  /\ \/ m = cur \/ m \notin healthy
     \/ Answers(m) /\ m # lead
     \/ MayFail(m)
  /\ Go("failing", main.at + 1)
  /\ UNCHANGED haCluster
  /\ UNCHANGED <<masters, healthy, failures, cur, knownTo, probe>>

SwitchTo(m) ==
  /\ main.phase = "failing" /\ Ahead(m)
  /\ m # cur /\ m \in healthy
  /\ RegisterWith(m) /\ Go("beating", 0)
  /\ UNCHANGED haCluster /\ UNCHANGED <<masters, healthy, failures, probe>>

NoneLeft ==
  /\ main.phase = "failing" /\ main.at >= Len(masters)
  /\ Go("beating", 0)
  /\ UNCHANGED haCluster
  /\ UNCHANGED <<masters, healthy, failures, cur, knownTo, probe>>

Probe_NeverForgives ==
  /\ main.phase \in {"beating", "failing"} /\ masters # <<>>
  /\ LET m == masters[probe + 1]
     IN  \/ Answers(m) /\ UNCHANGED <<healthy, failures>>
         \/ MayFail(m) /\ MarkFailure(m)
  /\ probe' = (probe + 1) % Len(masters)
  /\ UNCHANGED haCluster /\ UNCHANGED <<masters, cur, knownTo, main>>

\* _master_health_loop at the next master; it forgives, but does not reset the
\* count of failures.
Probe ==
  /\ main.phase \in {"beating", "failing"} /\ masters # <<>>
  /\ LET m == masters[probe + 1]
     IN  \/ /\ Answers(m)
            /\ healthy' = healthy \cup {m} /\ UNCHANGED failures
         \/ MayFail(m) /\ MarkFailure(m)
  /\ probe' = (probe + 1) % Len(masters)
  /\ UNCHANGED haCluster /\ UNCHANGED <<masters, cur, knownTo, main>>

AgentMoves ==
  \/ \E m \in Master : Discover(m) \/ FollowHint(m) \/ PassOver(m) \/ SwitchTo(m)
  \/ GiveUp \/ Beat \/ NoneLeft

----------------------------------------------------------------------------
\* The cluster.
HAMasterCrash(m) ==
  /\ ~ calm /\ m \in up /\ crashes < HAMaxCrashes
  /\ up' = up \ {m} /\ crashes' = crashes + 1
  /\ knownTo' = knownTo \ {m}
  /\ UNCHANGED <<calm, calmAtStart, lead, configured, masters, healthy,
                 failures, cur, main, probe>>

HAMasterReturns(m) ==
  /\ ~ calm /\ m \notin up
  /\ up' = up \cup {m}
  /\ UNCHANGED <<calm, calmAtStart, lead, crashes, configured, masters,
                 healthy, failures, cur, knownTo, main, probe>>

LeaderChanges(m) ==
  /\ ~ calm /\ m \in up
  /\ lead' = m
  /\ UNCHANGED <<calm, calmAtStart, up, crashes, configured, masters, healthy,
                 failures, cur, knownTo, main, probe>>

BecomesCalm ==
  /\ ~ calm /\ lead \in up
  /\ calm' = TRUE
  /\ UNCHANGED <<calmAtStart, up, lead, crashes, configured, masters, healthy,
                 failures, cur, knownTo, main, probe>>

HANext ==
  \/ AgentMoves \/ Probe \/ BecomesCalm
  \/ \E m \in Master : HAMasterCrash(m) \/ HAMasterReturns(m) \/ LeaderChanges(m)

HASpec == HAInit /\ [][HANext]_haVars

\* Both loops run for ever.
HAFairness == WF_haVars(AgentMoves) /\ WF_haVars(Probe)

----------------------------------------------------------------------------
\* Properties.

\* Once the cluster is calm, a worker that has the leader in its list gets to a
\* master that knows it, or else its master is the leader (which may have lost
\* the worker in a restart: the worker never registers again where it is).  One
\* that was configured with the leader does so from its start, in whatever order
\* its masters are listed, and does not give up.
AgentFindsMaster ==
  (/\ calm
   /\ \/ calmAtStart /\ lead \in configured
      \/ lead \in ToSet(masters) /\ main.phase \in {"beating", "failing"})
  ~> (cur = lead \/ cur \in knownTo)
=============================================================================
