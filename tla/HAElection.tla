----------------------------- MODULE HAElection -----------------------------
(***************************************************************************)
(* Leader election between the masters of a highly available cluster:      *)
(* master/ha/leader_election.py (a Bully algorithm over HTTP) and what     *)
(* master/ha/ha_master.py does when its master becomes or stops being the  *)
(* leader.                                                                 *)
(*                                                                         *)
(* A master is one event loop.  Its coroutines interleave at each await,   *)
(* so an election is a sequence of steps between which the handlers of     *)
(* /ha/election and /ha/leader run; the request handlers up to their first *)
(* await are atomic.  A request may be lost, may time out and still be     *)
(* served later, and reaches only a master whose HTTP server is up, which  *)
(* it is only after its own first election (`await _election.start()' in   *)
(* the lifespan handler).                                                  *)
(*                                                                         *)
(* Masters are numbered in the order of (priority, master_id), so p > m    *)
(* says that p outranks m.  Left out: the addresses, and the task that     *)
(* checks workers, which starts and stops with the scheduler loop.         *)
(***************************************************************************)
EXTENDS Naturals, FiniteSets

CONSTANTS
  Master,         \* a set of numbers
  Peers,          \* the configured peers of each master
  Deference,      \* peers a master takes to outrank it until it discovers
                  \* them: they count as priority 0 and as named "host:port"
  MaxTerm,        \* bound: terms are not told apart beyond this
  MaxCrashes,     \* bound on crashes
  MaxLate,        \* bound on requests in flight that their sender gave up on
  None

ASSUME MastersAreNumbers == Master \subseteq Nat /\ None \notin Master
ASSUME PeersAreOthers == \A m \in Master : Peers[m] \subseteq Master \ {m}
ASSUME BoundsAreNat ==
  MaxTerm \in Nat \ {0} /\ MaxCrashes \in Nat /\ MaxLate \in Nat

VARIABLES
  mode,           \* process: "down", "booting" (server not up yet), "serving"
  role,           \* _role
  term,           \* _term
  leader,         \* _current_leader: its master_id and term
  seen,           \* peers discovered: their priority and master_id are known
  wake,           \* an election task handle_election created and not yet run
  phase,          \* the election: "idle", "asking", "announcing"
  togo,           \* peers its loop has still to visit
  answered,       \* higher_priority_responded
  out,            \* the announcement its sender is waiting for
  late,           \* announcements given up on that may still be served
  active,         \* HAMasterServer._is_active
  sched,          \* _scheduler_loop: "on", "stopping" (in stop()), "off"
  crashes

election == <<wake, phase, togo, answered>>
vars == <<mode, role, term, leader, seen, wake, phase, togo, answered, out,
          late, active, sched, crashes>>

LeaderInfo == [id : Master, term : 0 .. MaxTerm]
Announcement == [to : Master, info : LeaderInfo]

ASSUME NoneIsNew == None \notin LeaderInfo \cup Announcement

TypeOK ==
  /\ mode \in [Master -> {"down", "booting", "serving"}]
  /\ role \in [Master -> {"UNKNOWN", "FOLLOWER", "CANDIDATE", "LEADER"}]
  /\ term \in [Master -> 0 .. MaxTerm]
  /\ leader \in [Master -> LeaderInfo \cup {None}]
  /\ seen \in [Master -> SUBSET Master]
  /\ wake \in [Master -> BOOLEAN]
  /\ phase \in [Master -> {"idle", "asking", "announcing"}]
  /\ togo \in [Master -> SUBSET Master]
  /\ answered \in [Master -> BOOLEAN]
  /\ out \in [Master -> Announcement \cup {None}]
  /\ late \subseteq Announcement
  /\ active \in [Master -> BOOLEAN]
  /\ sched \in [Master -> {"off", "on", "stopping"}]
  /\ crashes \in 0 .. MaxCrashes

Init ==
  /\ mode = [m \in Master |-> "down"]
  /\ role = [m \in Master |-> "UNKNOWN"]
  /\ term = [m \in Master |-> 0]
  /\ leader = [m \in Master |-> None]
  /\ seen = [m \in Master |-> {}]
  /\ wake = [m \in Master |-> FALSE]
  /\ phase = [m \in Master |-> "idle"]
  /\ togo = [m \in Master |-> {}]
  /\ answered = [m \in Master |-> FALSE]
  /\ out = [m \in Master |-> None]
  /\ late = {}
  /\ active = [m \in Master |-> FALSE]
  /\ sched = [m \in Master |-> "off"]
  /\ crashes = 0

----------------------------------------------------------------------------
\* The names that end in _Everyone, _Forgotten, ... are faulty variants of the
\* definition that follows them: each is a slip the code could contain, and some
\* property must notice it.
Outranks_Everyone(m, p) == TRUE

\* Whether m takes p to outrank it, in the loop of _start_election.
Outranks(m, p) == IF p \in seen[m] THEN p > m ELSE p \in Deference[m]

\* peers the asking loop has still to ask.
ToAsk(m) == {p \in togo[m] : Outranks(m, p)}

NextTerm(t) == IF t < MaxTerm THEN t + 1 ELSE t

StopScheduler_Forgotten(s) == s
StartScheduler_Forgotten(s) == s

\* HAMasterServer._stop_scheduler up to its await, and _start_scheduler,
\* which does nothing while _scheduler_loop is still set.
StopScheduler(s) == IF s = "off" THEN "off" ELSE "stopping"
StartScheduler(s) == IF s = "off" THEN "on" ELSE s

\* The start of _start_election, under its lock.
BeginElection(m) ==
  /\ phase[m] = "idle"
  /\ role' = [role EXCEPT ![m] = "CANDIDATE"]
  /\ term' = [term EXCEPT ![m] = NextTerm(@)]
  /\ phase' = [phase EXCEPT ![m] = "asking"]
  /\ togo' = [togo EXCEPT ![m] = Peers[m]]
  /\ answered' = [answered EXCEPT ![m] = FALSE]

\* The end of an election: start() returns if it was the first one.
ServeNow(m) ==
  mode' = [mode EXCEPT ![m] = IF @ = "booting" THEN "serving" ELSE @]

Hear_StaysActive(p, info) ==
  /\ leader' = [leader EXCEPT ![p] = info]
  /\ term' = [term EXCEPT ![p] = info.term]
  /\ role' = [role EXCEPT ![p] = IF info.id # p THEN "FOLLOWER" ELSE @]
  /\ UNCHANGED <<active, sched>>

\* handle_leader_announcement.  An election p has under way goes on.
Hear(p, info) ==
  LET deposed == info.id # p /\ role[p] = "LEADER"
  IN  /\ leader' = [leader EXCEPT ![p] = info]
      /\ term' = [term EXCEPT ![p] = info.term]
      /\ role' = [role EXCEPT ![p] = IF info.id # p THEN "FOLLOWER" ELSE @]
      /\ active' = [active EXCEPT ![p] = @ /\ ~ deposed]
      /\ sched' = [sched EXCEPT ![p] = IF deposed THEN StopScheduler(@) ELSE @]

----------------------------------------------------------------------------
\* The process.

\* LeaderElection.start, which begins with an election.
Boot(m) ==
  /\ mode[m] = "down"
  /\ mode' = [mode EXCEPT ![m] = "booting"]
  /\ BeginElection(m)
  /\ UNCHANGED <<leader, seen, wake, out, late, active, sched, crashes>>

\* Nothing of the election is on disk.
Crash(m) ==
  /\ mode[m] # "down" /\ crashes < MaxCrashes
  /\ crashes' = crashes + 1
  /\ mode' = [mode EXCEPT ![m] = "down"]
  /\ role' = [role EXCEPT ![m] = "UNKNOWN"]
  /\ term' = [term EXCEPT ![m] = 0]
  /\ leader' = [leader EXCEPT ![m] = None]
  /\ seen' = [seen EXCEPT ![m] = {}]
  /\ wake' = [wake EXCEPT ![m] = FALSE]
  /\ phase' = [phase EXCEPT ![m] = "idle"]
  /\ togo' = [togo EXCEPT ![m] = {}]
  /\ answered' = [answered EXCEPT ![m] = FALSE]
  /\ out' = [out EXCEPT ![m] = None]
  /\ late' = {x \in late : x.to # m}
  /\ active' = [active EXCEPT ![m] = FALSE]
  /\ sched' = [sched EXCEPT ![m] = "off"]

\* _peer_discovery.  /ha/status answers only when every peer of the one asked
\* has been discovered by it: until then MasterPeer.is_alive subtracts a naive
\* from an aware timestamp and the request ends in an error.
StatusAnswers_WithPeers(p) ==
  mode[p] = "serving" /\ Peers[p] # {} /\ Peers[p] \subseteq seen[p]
StatusAnswers(p) == mode[p] = "serving" /\ Peers[p] \subseteq seen[p]

Discover(m, p) ==
  /\ mode[m] # "down"
  /\ p \in Peers[m] \ seen[m] /\ StatusAnswers(p)
  /\ seen' = [seen EXCEPT ![m] = @ \cup {p}]
  /\ UNCHANGED <<mode, role, term, leader, election, out, late, active, sched,
                 crashes>>

----------------------------------------------------------------------------
\* What starts an election.

\* _election_monitor: the heartbeats stay away, or only seem to.
Timeout(m) ==
  /\ mode[m] # "down" /\ role[m] # "LEADER"
  /\ BeginElection(m)
  /\ UNCHANGED <<mode, leader, seen, wake, out, late, active, sched, crashes>>

\* The task created by handle_election; it returns if an election is under way.
Woken(m) ==
  /\ wake[m]
  /\ wake' = [wake EXCEPT ![m] = FALSE]
  /\ IF phase[m] = "idle" THEN BeginElection(m)
     ELSE UNCHANGED <<role, term, phase, togo, answered>>
  /\ UNCHANGED <<mode, leader, seen, out, late, active, sched, crashes>>

\* HAHealthMonitor finds a peer UNHEALTHY: _trigger_election, leader or not.
PeerUnhealthy(m) ==
  /\ mode[m] = "serving" /\ Peers[m] # {}
  /\ BeginElection(m)
  /\ UNCHANGED <<mode, leader, seen, wake, out, late, active, sched, crashes>>

----------------------------------------------------------------------------
\* The election.

\* handle_election: a master that outranks the sender runs for itself.
Ask(m, p) ==
  /\ phase[m] = "asking" /\ p \in ToAsk(m)
  /\ mode[p] = "serving"
  /\ togo' = [togo EXCEPT ![m] = @ \ {p}]
  /\ answered' = [answered EXCEPT ![m] = TRUE]
  /\ wake' = [wake EXCEPT ![p] = @ \/ p > m]
  /\ UNCHANGED <<mode, role, term, leader, seen, phase, out, late, active,
                 sched, crashes>>

\* No answer comes in time; a peer that is up may have got the request.
AskInVain(m, p) ==
  /\ phase[m] = "asking" /\ p \in ToAsk(m)
  /\ togo' = [togo EXCEPT ![m] = @ \ {p}]
  /\ \/ UNCHANGED wake
     \/ mode[p] = "serving" /\ p > m /\ wake' = [wake EXCEPT ![p] = TRUE]
  /\ UNCHANGED <<mode, role, term, leader, seen, phase, answered, out, late,
                 active, sched, crashes>>

GiveWay(m) ==
  /\ phase[m] = "asking" /\ ToAsk(m) = {} /\ answered[m]
  /\ role' = [role EXCEPT ![m] = "FOLLOWER"]
  /\ phase' = [phase EXCEPT ![m] = "idle"]
  /\ ServeNow(m)
  /\ UNCHANGED <<term, leader, seen, wake, togo, answered, out, late, active,
                 sched, crashes>>

BecomeLeader_Anonymous(m) ==
  /\ phase[m] = "asking" /\ ToAsk(m) = {} /\ ~ answered[m]
  /\ role' = [role EXCEPT ![m] = "LEADER"]
  /\ phase' = [phase EXCEPT ![m] = "announcing"]
  /\ togo' = [togo EXCEPT ![m] = Peers[m]]
  /\ UNCHANGED <<mode, term, leader, seen, wake, answered, out, late, active,
                 sched, crashes>>

\* _become_leader up to its first await.
BecomeLeader(m) ==
  /\ phase[m] = "asking" /\ ToAsk(m) = {} /\ ~ answered[m]
  /\ role' = [role EXCEPT ![m] = "LEADER"]
  /\ leader' = [leader EXCEPT ![m] = [id |-> m, term |-> term[m]]]
  /\ phase' = [phase EXCEPT ![m] = "announcing"]
  /\ togo' = [togo EXCEPT ![m] = Peers[m]]
  /\ UNCHANGED <<mode, term, seen, wake, answered, out, late, active, sched,
                 crashes>>

\* _announce_leadership: what it announces is the leader known at that moment.
Announce(m, p) ==
  /\ phase[m] = "announcing" /\ p \in togo[m] /\ out[m] = None
  /\ togo' = [togo EXCEPT ![m] = @ \ {p}]
  /\ out' = [out EXCEPT ![m] = [to |-> p, info |-> leader[m]]]
  /\ UNCHANGED <<mode, role, term, leader, seen, wake, phase, answered, late,
                 active, sched, crashes>>

Deliver(m) ==
  /\ out[m] # None /\ mode[out[m].to] = "serving"
  /\ Hear(out[m].to, out[m].info)
  /\ out' = [out EXCEPT ![m] = None]
  /\ UNCHANGED <<mode, seen, election, late, crashes>>

\* The sender gives up; the request is lost or still to be served.
GiveUp(m) ==
  /\ out[m] # None
  /\ out' = [out EXCEPT ![m] = None]
  /\ \/ UNCHANGED late
     \/ /\ mode[out[m].to] = "serving"
        /\ Cardinality(late) < MaxLate
        /\ late' = late \cup {out[m]}
  /\ UNCHANGED <<mode, role, term, leader, seen, election, active, sched,
                 crashes>>

DeliverLate(x) ==
  /\ x \in late
  /\ Hear(x.to, x.info)
  /\ late' = late \ {x}
  /\ UNCHANGED <<mode, seen, election, out, crashes>>

\* on_became_leader, whatever was heard while announcing.
TakeOffice(m) ==
  /\ phase[m] = "announcing" /\ togo[m] = {} /\ out[m] = None
  /\ active' = [active EXCEPT ![m] = TRUE]
  /\ sched' = [sched EXCEPT ![m] = StartScheduler(@)]
  /\ phase' = [phase EXCEPT ![m] = "idle"]
  /\ ServeNow(m)
  /\ UNCHANGED <<role, term, leader, seen, wake, togo, answered, out, late,
                 crashes>>

\* _stop_scheduler after its await.
SchedulerStopped(m) ==
  /\ sched[m] = "stopping"
  /\ sched' = [sched EXCEPT ![m] = "off"]
  /\ UNCHANGED <<mode, role, term, leader, seen, election, out, late, active,
                 crashes>>

\* A leader's heartbeat counts only with a master that follows it; the one
\* thing it changes besides the clock is the term.
Heartbeat(m, p) ==
  /\ role[m] = "LEADER" /\ p \in Peers[m] /\ mode[p] = "serving"
  /\ leader[p] # None /\ leader[p].id = m
  /\ term[m] > term[p]
  /\ term' = [term EXCEPT ![p] = term[m]]
  /\ UNCHANGED <<mode, role, leader, seen, election, out, late, active, sched,
                 crashes>>

----------------------------------------------------------------------------
\* The coroutine of an election that has begun.
ElectionStep(m) ==
  \/ \E p \in Master : Ask(m, p) \/ AskInVain(m, p) \/ Announce(m, p)
  \/ GiveWay(m) \/ BecomeLeader(m) \/ TakeOffice(m)
  \/ Deliver(m) \/ GiveUp(m)

Next ==
  \/ \E m \in Master : ElectionStep(m) \/ Woken(m) \/ SchedulerStopped(m)
  \/ \E m \in Master : Boot(m) \/ Crash(m) \/ Timeout(m) \/ PeerUnhealthy(m)
  \/ \E m, p \in Master : Discover(m, p) \/ Heartbeat(m, p)
  \/ \E x \in late : DeliverLate(x)

Spec == Init /\ [][Next]_vars

\* No leader's heartbeat keeps m from timing out.
Unled(m) ==
  ~ \E q \in Master :
      /\ role[q] = "LEADER" /\ m \in Peers[q]
      /\ leader[m] # None /\ leader[m].id = q

\* The coroutines of a master that is up go on, a follower without heartbeats
\* times out, a master that is down is started again.
Fairness ==
  \A m \in Master :
    /\ WF_vars(ElectionStep(m)) /\ WF_vars(Woken(m))
    /\ WF_vars(SchedulerStopped(m)) /\ WF_vars(Boot(m))
    /\ WF_vars(Unled(m) /\ Timeout(m))
    /\ \A p \in Master : WF_vars(Discover(m, p)) /\ WF_vars(Heartbeat(m, p))

FairSpec == Spec /\ Fairness

\* One thing at a time, among masters that defer to nobody: an election runs to
\* its end before anything else starts one, and every master that is up answers
\* in time.
Calm ==
  /\ \A m \in Master : phase[m] = "idle" /\ ~ wake[m] /\ sched[m] # "stopping"
  /\ late = {}

OrderlyNext ==
  \/ \E m \in Master :
       \/ Calm /\ (Boot(m) \/ Crash(m) \/ PeerUnhealthy(m))
       \/ Calm /\ Unled(m) /\ Timeout(m)
       \/ BecomeLeader(m) \/ TakeOffice(m) \/ SchedulerStopped(m) \/ Deliver(m)
       \/ out[m] # None /\ mode[out[m].to] # "serving" /\ GiveUp(m)
  \/ \E m, p \in Master : Announce(m, p) \/ Heartbeat(m, p)

OrderlySpec == Init /\ [][OrderlyNext]_vars

----------------------------------------------------------------------------
\* Properties.

\* A leader takes nobody else for the leader, although announcements of others
\* may come in at any moment of its own election.
LeaderKnowsItself ==
  \A m \in Master :
    role[m] = "LEADER" => leader[m] # None /\ leader[m].id = m

\* A master never schedules jobs once it refuses them: no order of elections,
\* announcements and stop() calls leaves a scheduler running behind.
SchedulerOnlyWhenActive ==
  \A m \in Master : sched[m] = "on" => active[m]

\* The masters are never without a leader for ever.
LeaderEmerges == []<>(\E m \in Master : role[m] = "LEADER")

\* `The leader is the only one that accepts new jobs': at most one master is
\* active.  Holds under OrderlySpec, if no master defers to another.
OneActive == \A m, n \in Master : active[m] /\ active[n] => m = n

\* A master that settled as a follower is passive.
StandbyIsPassive ==
  \A m \in Master : active[m] /\ phase[m] = "idle" => role[m] = "LEADER"

\* A master that accepts jobs schedules them.
ActiveMeansScheduling ==
  \A m \in Master : active[m] => sched[m] # "off"

\* Two active masters do not stay that way.
SplitBrainHeals == []<> OneActive

\* Two masters that stay up discover each other.
PeersAreDiscovered ==
  \A m \in Master : \A p \in Peers[m] :
    <>[](mode[m] = "serving" /\ mode[p] = "serving") => <>(p \in seen[m])
=============================================================================
