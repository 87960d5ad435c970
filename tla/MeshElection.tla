---------------------------- MODULE MeshElection ----------------------------
(***************************************************************************)
(* Leader election between the nodes of a mesh (mesh/consensus.py), over   *)
(* one TCP connection per message (mesh/node.py): messages may be lost and *)
(* overtake each other.  Every node is an event loop; its coroutines, the  *)
(* election monitor and one handler per message, interleave at each await. *)
(*                                                                         *)
(* The flag _election_in_progress is meant to keep a node to one election; *)
(* a VICTORY clears it while the node's own election still asks, sleeps or *)
(* announces, so a node may have several under way.                        *)
(*                                                                         *)
(* timely singles out the runs in which the delays are as the time-outs    *)
(* intend: no message is lost, all arrive within an election's sleep, and  *)
(* a node that hears its leader does not time out.                         *)
(***************************************************************************)
EXTENDS Naturals, FiniteSets

CONSTANTS
  MeshNode,         \* numbers in the order of the node ids
  MeshMaxTerm,      \* bound: how far apart terms are told apart
  MeshMaxCrashes,   \* bound on crashes
  MaxNet,           \* bound on messages on their way at a time
  Slot,             \* bound: coroutines of one node that hold an election
  Nobody

ASSUME TermsTellApart == MeshMaxTerm \in Nat \ {0}
ASSUME NodesAreOrdered == MeshNode \subseteq Nat

VARIABLES
  timely,
  meshUp,           \* nodes that run
  meshPeers,        \* node.peers
  state,            \* state.state
  current,          \* state.current_leader
  meshTerm,         \* state.term
  busy,             \* _election_in_progress
  answers,          \* _received_answers
  coro,             \* coroutines that hold an election
  beat,             \* peers _send_heartbeat has still to visit
  net               \* messages on their way

meshVars == <<timely, meshUp, meshPeers, state, current, meshTerm, busy,
              answers, coro, beat, net>>

Message ==
  [type: {"ELECTION", "ANSWER", "VICTORY", "HEARTBEAT"},
   from: MeshNode, to: MeshNode, term: 0 .. MeshMaxTerm]

Coroutine ==
  [phase: {"idle", "begin", "asking", "sleeping", "announcing"},
   togo: SUBSET MeshNode]
IdleCoroutine == [phase |-> "idle", togo |-> {}]

MeshTypeOK ==
  /\ timely \in BOOLEAN
  /\ meshUp \subseteq MeshNode
  /\ meshPeers \in [MeshNode -> SUBSET MeshNode]
  /\ state \in [MeshNode -> {"FOLLOWER", "CANDIDATE", "LEADER"}]
  /\ current \in [MeshNode -> MeshNode \cup {Nobody}]
  /\ meshTerm \in [MeshNode -> 0 .. MeshMaxTerm]
  /\ busy \in [MeshNode -> BOOLEAN]
  /\ answers \in [MeshNode -> SUBSET MeshNode]
  /\ coro \in [MeshNode -> [Slot -> Coroutine]]
  /\ beat \in [MeshNode -> SUBSET MeshNode]
  /\ net \subseteq Message

\* A full mesh.  Without timeliness two nodes already do all there is to see.
MeshInit ==
  /\ timely \in BOOLEAN
  /\ meshUp = IF timely THEN MeshNode ELSE {n \in MeshNode : n < 3}
  /\ meshPeers = [n \in MeshNode |-> meshUp \ {n}]
  /\ state = [n \in MeshNode |-> "FOLLOWER"]
  /\ current = [n \in MeshNode |-> Nobody]
  /\ meshTerm = [n \in MeshNode |-> 0]
  /\ busy = [n \in MeshNode |-> FALSE]
  /\ answers = [n \in MeshNode |-> {}]
  /\ coro = [n \in MeshNode |-> [s \in Slot |-> IdleCoroutine]]
  /\ beat = [n \in MeshNode |-> {}]
  /\ net = {}

\* Terms are only compared, copied and raised by one: when the newest one reaches
\* the bound all the others move down instead, the oldest ones together.
Older(t) == IF t = 0 THEN 0 ELSE t - 1
AtBound(n) == meshTerm[n] = MeshMaxTerm
AgedTerms(n) == [[k \in MeshNode |-> Older(meshTerm[k])] EXCEPT ![n] = @ + 1]
AgedNet ==
  {[m EXCEPT !.term = IF m.type \in {"VICTORY", "HEARTBEAT"}
                      THEN Older(@) ELSE @] : m \in net}
RaiseTerm(n) ==
  IF AtBound(n)
  THEN meshTerm' = AgedTerms(n) /\ net' = AgedNet
  ELSE meshTerm' = [meshTerm EXCEPT ![n] = @ + 1] /\ UNCHANGED net

\* The term of an ELECTION or an ANSWER is read by nobody.
Letter(n, p, type) ==
  [type |-> type, from |-> n, to |-> p,
   term |-> IF type \in {"VICTORY", "HEARTBEAT"} THEN meshTerm[n] ELSE 0]

Send(n, p, type) ==
  /\ Cardinality(net) < IF timely THEN 1 ELSE MaxNet
  /\ net' = net \cup {Letter(n, p, type)}

MeshPhase(n, s) == coro[n][s].phase
Goto(n, s, phase, togo) ==
  coro' = [coro EXCEPT ![n][s] =
             IF togo = {} /\ phase = "announcing" THEN IdleCoroutine
             ELSE IF togo = {} /\ phase = "asking"
             THEN [phase |-> "sleeping", togo |-> {}]
             ELSE [phase |-> phase, togo |-> togo]]

\* Slot 1 is the monitor's, the others are those of message handlers.
Monitor == 1

\* The coroutines of which the sleep of five seconds is long enough.
Underway ==
  \E n \in meshUp, s \in Slot : MeshPhase(n, s) \in {"begin", "asking", "announcing"}
MeshCalm ==
  net = {} /\ \A n \in meshUp, s \in Slot : MeshPhase(n, s) = "idle"
Led(n) == current[n] \in meshUp /\ state[current[n]] = "LEADER"

----------------------------------------------------------------------------
\* _become_leader up to its first await; its caller clears the flag after the
\* last announcement.
BecomeMeshLeader(n, s) ==
  /\ state' = [state EXCEPT ![n] = "LEADER"]
  /\ current' = [current EXCEPT ![n] = n]
  /\ Goto(n, s, "announcing", meshPeers[n])

\* _election_monitor: the leader has been silent for election_timeout.
MeshTimeout(n, s) ==
  /\ n \in meshUp /\ state[n] # "LEADER"
  /\ timely => ~ Led(n) /\ MeshCalm
  /\ s = Monitor /\ MeshPhase(n, s) = "idle"
  /\ Goto(n, s, "begin", {})
  /\ UNCHANGED <<timely, meshUp, meshPeers, state, current, meshTerm, busy,
                 answers, beat, net>>

\* The start of _start_election, up to its first await.
BeginMeshElection(n, s) ==
  LET higher == {p \in meshPeers[n] : p > n}
  IN  /\ n \in meshUp /\ MeshPhase(n, s) = "begin" /\ ~ busy[n]
      /\ RaiseTerm(n)
      /\ answers' = [answers EXCEPT ![n] = {}]
      /\ IF higher = {}
         THEN /\ BecomeMeshLeader(n, s)
              /\ busy' = [busy EXCEPT ![n] = meshPeers[n] # {}]
         ELSE /\ state' = [state EXCEPT ![n] = "CANDIDATE"]
              /\ Goto(n, s, "asking", higher)
              /\ busy' = [busy EXCEPT ![n] = TRUE]
              /\ UNCHANGED current
      /\ UNCHANGED <<timely, meshUp, meshPeers, beat>>

\* An election is in progress already.
SkipMeshElection(n, s) ==
  /\ n \in meshUp /\ MeshPhase(n, s) = "begin" /\ busy[n]
  /\ coro' = [coro EXCEPT ![n][s] = IdleCoroutine]
  /\ UNCHANGED <<timely, meshUp, meshPeers, state, current, meshTerm, busy,
                 answers, beat, net>>

\* ELECTION to one of the higher peers; the sleep follows the last.
AskPeer(n, s, p) ==
  /\ n \in meshUp /\ MeshPhase(n, s) = "asking" /\ p \in coro[n][s].togo
  /\ Send(n, p, "ELECTION")
  /\ Goto(n, s, "asking", coro[n][s].togo \ {p})
  /\ UNCHANGED <<timely, meshUp, meshPeers, state, current, meshTerm, busy,
                 answers, beat>>

Wake_FirstAnswerOnly(n, s) ==
  /\ n \in meshUp /\ MeshPhase(n, s) = "sleeping"
  /\ timely => ~ Underway /\ net = {}
  /\ IF \A p \in answers[n] : p < n + 2
     THEN BecomeMeshLeader(n, s) /\ busy' = [busy EXCEPT ![n] = meshPeers[n] # {}]
     ELSE /\ coro' = [coro EXCEPT ![n][s] = IdleCoroutine]
          /\ busy' = [busy EXCEPT ![n] = FALSE]
          /\ UNCHANGED <<state, current>>
  /\ UNCHANGED <<timely, meshUp, meshPeers, meshTerm, answers, beat, net>>

Wake_StaysBusy(n, s) ==
  /\ n \in meshUp /\ MeshPhase(n, s) = "sleeping"
  /\ timely => ~ Underway /\ net = {}
  /\ IF answers[n] = {}
     THEN BecomeMeshLeader(n, s) /\ UNCHANGED busy
     ELSE /\ coro' = [coro EXCEPT ![n][s] = IdleCoroutine]
          /\ UNCHANGED <<state, current, busy>>
  /\ UNCHANGED <<timely, meshUp, meshPeers, meshTerm, answers, beat, net>>

\* After the sleep: whatever has happened meanwhile, no answer means victory, in
\* the term the node has by now.
Wake(n, s) ==
  /\ n \in meshUp /\ MeshPhase(n, s) = "sleeping"
  /\ timely => ~ Underway /\ net = {}
  /\ IF answers[n] = {}
     THEN /\ BecomeMeshLeader(n, s)
          /\ busy' = [busy EXCEPT ![n] = @ /\ meshPeers[n] # {}]
     ELSE /\ coro' = [coro EXCEPT ![n][s] = IdleCoroutine]
          /\ busy' = [busy EXCEPT ![n] = FALSE]
          /\ UNCHANGED <<state, current>>
  /\ UNCHANGED <<timely, meshUp, meshPeers, meshTerm, answers, beat, net>>

\* VICTORY to one peer, in the node's term of this moment.
AnnounceVictory(n, s, p) ==
  /\ n \in meshUp /\ MeshPhase(n, s) = "announcing" /\ p \in coro[n][s].togo
  /\ Send(n, p, "VICTORY")
  /\ Goto(n, s, "announcing", coro[n][s].togo \ {p})
  /\ busy' = [busy EXCEPT ![n] = @ /\ coro[n][s].togo # {p}]
  /\ UNCHANGED <<timely, meshUp, meshPeers, state, current, meshTerm, answers,
                 beat>>

\* _leader_heartbeat: the state is looked at once, before the loop.
BeginBeat(n) ==
  /\ n \in meshUp /\ state[n] = "LEADER" /\ beat[n] = {}
  /\ timely => ~ Underway /\ net = {}
  /\ beat' = [beat EXCEPT ![n] = meshPeers[n]]
  /\ UNCHANGED <<timely, meshUp, meshPeers, state, current, meshTerm, busy,
                 answers, coro, net>>

SendBeat(n, p) ==
  /\ n \in meshUp /\ p \in beat[n]
  /\ Send(n, p, "HEARTBEAT")
  /\ beat' = [beat EXCEPT ![n] = @ \ {p}]
  /\ UNCHANGED <<timely, meshUp, meshPeers, state, current, meshTerm, busy,
                 answers, coro>>

----------------------------------------------------------------------------
\* handle_election_message, by type.
Arrives(m, type) ==
  /\ m \in net /\ m.type = type /\ m.to \in meshUp
  /\ net' = net \ {m}

\* ELECTION from a lower node: answer it, then hold an election oneself (with
\* no slot left, only a handler that finds the flag set goes on).
HearElection(m, s) ==
  LET n == m.to
  IN  /\ m \in net /\ m.type = "ELECTION" /\ n \in meshUp /\ m.from < n
      /\ s # Monitor /\ \A r \in Slot : r \in Monitor + 1 .. s - 1 => MeshPhase(n, r) # "idle"
      /\ net' = (net \ {m}) \cup
           IF m.from \in meshPeers[n]
           THEN {Letter(n, m.from, "ANSWER")} ELSE {}
      /\ \/ MeshPhase(n, s) = "idle" /\ Goto(n, s, "begin", {})
         \/ MeshPhase(n, s) # "idle" /\ busy[n] /\ UNCHANGED coro
      /\ UNCHANGED <<timely, meshUp, meshPeers, state, current, meshTerm, busy,
                     answers, beat>>

HearAnswer(m) ==
  /\ Arrives(m, "ANSWER")
  /\ answers' = [answers EXCEPT ![m.to] = @ \cup {m.from}]
  /\ UNCHANGED <<timely, meshUp, meshPeers, state, current, meshTerm, busy,
                 coro, beat>>

HearVictory(m) ==
  /\ Arrives(m, "VICTORY")
  /\ m.term >= meshTerm[m.to]
  /\ state' = [state EXCEPT ![m.to] = "FOLLOWER"]
  /\ current' = [current EXCEPT ![m.to] = m.from]
  /\ meshTerm' = [meshTerm EXCEPT ![m.to] = m.term]
  /\ busy' = [busy EXCEPT ![m.to] = FALSE]
  /\ UNCHANGED <<timely, meshUp, meshPeers, answers, coro, beat>>

\* A heartbeat makes followers of all but a leader, which stays one.
HearHeartbeat(m) ==
  /\ Arrives(m, "HEARTBEAT")
  /\ m.term >= meshTerm[m.to]
  /\ state' = [state EXCEPT ![m.to] = IF @ = "LEADER" THEN @ ELSE "FOLLOWER"]
  /\ current' = [current EXCEPT ![m.to] = m.from]
  /\ meshTerm' = [meshTerm EXCEPT ![m.to] = m.term]
  /\ UNCHANGED <<timely, meshUp, meshPeers, busy, answers, coro, beat>>

\* A message from an earlier term, to a node that is down, or lost.
Discard(m) ==
  /\ m \in net
  /\ \/ ~ timely
     \/ m.to \notin meshUp
     \/ m.type \in {"VICTORY", "HEARTBEAT"} /\ m.term < meshTerm[m.to]
  /\ net' = net \ {m}
  /\ UNCHANGED <<timely, meshUp, meshPeers, state, current, meshTerm, busy,
                 answers, coro, beat>>

----------------------------------------------------------------------------
MeshCrash(n) ==
  /\ n \in meshUp /\ Cardinality(meshUp) > 1
  /\ Cardinality({k \in MeshNode : k \notin meshUp}) < MeshMaxCrashes
  /\ meshUp' = meshUp \ {n}
  /\ state' = [state EXCEPT ![n] = "FOLLOWER"]
  /\ coro' = [coro EXCEPT ![n] = [s \in Slot |-> IdleCoroutine]]
  /\ beat' = [beat EXCEPT ![n] = {}]
  /\ busy' = [busy EXCEPT ![n] = FALSE]
  /\ UNCHANGED <<timely, meshPeers, current, meshTerm, answers, net>>

\* _heartbeat_loop of the node finds a peer unreachable and removes it.  A loop
\* over node.peers that is at an await then raises: the heartbeat's is begun
\* anew, an announcement's is given up, its flag left set.
DropPeer(n, p) ==
  /\ n \in meshUp /\ p \in meshPeers[n] \ meshUp
  /\ timely => \A s \in Slot : MeshPhase(n, s) # "announcing"
  /\ meshPeers' = [meshPeers EXCEPT ![n] = @ \ {p}]
  /\ coro' = [coro EXCEPT ![n] = [s \in Slot |->
                IF @[s].phase = "announcing" THEN IdleCoroutine ELSE @[s]]]
  /\ beat' = [beat EXCEPT ![n] = {}]
  /\ UNCHANGED <<timely, meshUp, state, current, meshTerm, busy, answers, net>>

ElectionStepOf(n, s) ==
  \/ BeginMeshElection(n, s) \/ SkipMeshElection(n, s) \/ Wake(n, s)
  \/ \E p \in MeshNode : AskPeer(n, s, p) \/ AnnounceVictory(n, s, p)

Deliver(m) ==
  \/ \E s \in Slot : HearElection(m, s)
  \/ HearAnswer(m) \/ HearVictory(m) \/ HearHeartbeat(m) \/ Discard(m)

MeshNext ==
  \/ \E n \in MeshNode, s \in Slot : MeshTimeout(n, s) \/ ElectionStepOf(n, s)
  \/ \E n \in MeshNode : BeginBeat(n) \/ MeshCrash(n)
  \/ \E n, p \in MeshNode : SendBeat(n, p) \/ DropPeer(n, p)
  \/ \E m \in net : Deliver(m)

MeshSpec == MeshInit /\ [][MeshNext]_meshVars

\* The event loop runs every coroutine whose sleep is over, and hands every
\* message that has arrived to its handler; the loops run for ever.
MeshReceives ==
  (\E m \in net : Deliver(m)) \/ (\E n, p \in MeshNode : DropPeer(n, p))
MeshElects ==
  \E n \in MeshNode :
    MeshTimeout(n, Monitor) \/ \E s \in Slot : ElectionStepOf(n, s)
LeaderBeats ==
  \E n \in MeshNode : BeginBeat(n) \/ \E p \in MeshNode : SendBeat(n, p)

MeshFairness ==
  WF_meshVars(MeshReceives) /\ WF_meshVars(MeshElects) /\ WF_meshVars(LeaderBeats)

----------------------------------------------------------------------------
\* Properties.

\* The flag of a node that does not lead is set only while an election of the
\* node is under way: nothing that cuts in, a VICTORY, a second election or a
\* vanished peer, leaves a node that will never hold an election again.
MeshNotStuck ==
  \A n \in meshUp : busy[n] /\ state[n] # "LEADER" =>
    \E s \in Slot : MeshPhase(n, s) \notin {"idle", "begin"}

\* With timely messages there is one leader at a time, through crashes too.
MeshOneLeader ==
  timely => \A n, p \in meshUp :
    state[n] = "LEADER" /\ state[p] = "LEADER" => n = p

\* ... and again and again all nodes follow the same leader, or there is a node
\* that will not because its term is ahead of the leader's.
AllFollow ==
  \E l \in meshUp : state[l] = "LEADER" /\ \A n \in meshUp : current[n] = l
Outrun ==
  \E l, n \in meshUp : state[l] = "LEADER" /\ meshTerm[n] > meshTerm[l]
MeshIsLed == timely => []<>(AllFollow \/ Outrun)
=============================================================================
