---------------------------- MODULE PeerProofs ----------------------------
(***************************************************************************)
(* Theorems of the parts that talk to their peers.  The mesh: no node is   *)
(* stuck, for any nodes, peers, messages lost or late, and any number of   *)
(* elections of one node at a time; and with timely messages one node      *)
(* leads at a time.  The synchronisation of masters, for any masters,      *)
(* registrations, submissions and bounds: with lost and late requests,     *)
(* restarts and changes of leader.                                         *)
(***************************************************************************)
EXTENDS MeshElection, StateSync, SequenceTheorems, FiniteSetTheorems, TLAPS

-----------------------------------------------------------------------------
(* MeshElection *)

\* A node that holds the flag and does not lead has a coroutine that still asks
\* or sleeps.  One that announces will not do: DropPeer can end it and leave the
\* flag.  It does not have to, since a node that announces leads, and loses the
\* office only with the flag.
ElectionsGoOn ==
  \A n \in meshUp : busy[n] /\ state[n] # "LEADER" =>
    \E s \in Slot : MeshPhase(n, s) \in {"asking", "sleeping"}

\* The inductive invariant.
MeshInv == MeshTypeOK /\ ElectionsGoOn

\* The same in timely runs.  A node that runs knows all the others that do, ...
PeersKnown ==
  timely => \A n \in meshUp : meshUp \ {n} \subseteq meshPeers[n]

\* ... the question of an election under way, or its answer, is not lost: a
\* higher node has answered, is still to be asked, or a letter is on its way, ...
WillAnswer(n, p) ==
  \/ p \in answers[n]
  \/ \E s \in Slot : MeshPhase(n, s) = "asking" /\ p \in coro[n][s].togo
  \/ \E m \in net : \/ m.type = "ELECTION" /\ m.from = n /\ m.to = p
                    \/ m.type = "ANSWER" /\ m.from = p /\ m.to = n

Asks(n) == \E s \in Slot : MeshPhase(n, s) \in {"asking", "sleeping"}

HigherWillAnswer ==
  timely => \A n, p \in meshUp : p > n /\ Asks(n) => WillAnswer(n, p)

\* ... and so only the highest node that runs gets to lead.
HighestLeads ==
  timely => \A n, p \in meshUp : p > n => state[n] # "LEADER"

TimelyInv == MeshInv /\ PeersKnown /\ HigherWillAnswer /\ HighestLeads

-----------------------------------------------------------------------------
(* Types of what the actions write. *)

LEMMA OlderTyped ==
  ASSUME NEW t \in 0 .. MeshMaxTerm
  PROVE  Older(t) \in 0 .. MeshMaxTerm /\ Older(t) + 1 \in 0 .. MeshMaxTerm
BY TermsTellApart DEF TermsTellApart, Older

LEMMA LetterTyped ==
  ASSUME MeshTypeOK, NEW n \in MeshNode, NEW p \in MeshNode,
         NEW type \in {"ELECTION", "ANSWER", "VICTORY", "HEARTBEAT"}
  PROVE  Letter(n, p, type) \in Message
BY TermsTellApart DEF TermsTellApart, MeshTypeOK, Letter, Message

LEMMA RaiseTermTyped ==
  ASSUME MeshTypeOK, NEW n \in MeshNode, RaiseTerm(n)
  PROVE  meshTerm' \in [MeshNode -> 0 .. MeshMaxTerm] /\ net' \subseteq Message
<1>1. CASE AtBound(n)
  <2>1. meshTerm' \in [MeshNode -> 0 .. MeshMaxTerm]
    <3>1. [k \in MeshNode |-> Older(meshTerm[k])] \in [MeshNode -> 0 .. MeshMaxTerm]
      BY OlderTyped DEF MeshTypeOK
    <3>2. Older(meshTerm[n]) + 1 \in 0 .. MeshMaxTerm
      BY OlderTyped DEF MeshTypeOK
    <3> QED BY <1>1, <3>1, <3>2 DEF RaiseTerm, AgedTerms
  <2>2. ASSUME NEW m \in net
        PROVE  [m EXCEPT !.term = IF m.type \in {"VICTORY", "HEARTBEAT"}
                                  THEN Older(@) ELSE @] \in Message
    <3>1. m \in Message
      BY DEF MeshTypeOK
    <3>2. Older(m.term) \in 0 .. MeshMaxTerm
      BY <3>1, OlderTyped DEF Message
    <3> QED BY <3>1, <3>2 DEF Message
  <2> QED BY <1>1, <2>1, <2>2 DEF RaiseTerm, AgedNet
<1>2. CASE ~ AtBound(n)
  <2>1. meshTerm[n] \in 0 .. MeshMaxTerm
    BY DEF MeshTypeOK
  <2>2. meshTerm[n] + 1 \in 0 .. MeshMaxTerm
    BY <1>2, <2>1, TermsTellApart DEF TermsTellApart, AtBound
  <2> QED BY <1>2, <2>2 DEF RaiseTerm, MeshTypeOK
<1> QED BY <1>1, <1>2

LEMMA GotoTyped ==
  ASSUME MeshTypeOK, NEW n \in MeshNode, NEW s \in Slot,
         NEW phase \in {"begin", "asking", "announcing"},
         NEW togo \in SUBSET MeshNode, Goto(n, s, phase, togo)
  PROVE  coro' \in [MeshNode -> [Slot -> Coroutine]]
<1>1. coro[n] \in [Slot -> Coroutine]
  BY DEF MeshTypeOK
<1>2. /\ IdleCoroutine \in Coroutine
      /\ [phase |-> "sleeping", togo |-> {}] \in Coroutine
      /\ [phase |-> phase, togo |-> togo] \in Coroutine
  BY DEF IdleCoroutine, Coroutine
<1> DEFINE c == IF togo = {} /\ phase = "announcing" THEN IdleCoroutine
                ELSE IF togo = {} /\ phase = "asking"
                THEN [phase |-> "sleeping", togo |-> {}]
                ELSE [phase |-> phase, togo |-> togo]
<1>3. c \in Coroutine
  BY <1>2
<1>4. coro' = [coro EXCEPT ![n] = [coro[n] EXCEPT ![s] = c]]
  BY DEF Goto
<1>5. [coro[n] EXCEPT ![s] = c] \in [Slot -> Coroutine]
  BY <1>1, <1>3
<1> HIDE DEF c
<1> QED BY <1>4, <1>5 DEF MeshTypeOK

LEMMA IdleTyped ==
  ASSUME MeshTypeOK, NEW n \in MeshNode, NEW s \in Slot,
         coro' = [coro EXCEPT ![n][s] = IdleCoroutine]
  PROVE  coro' \in [MeshNode -> [Slot -> Coroutine]]
<1>1. coro[n] \in [Slot -> Coroutine]
  BY DEF MeshTypeOK
<1>2. [coro[n] EXCEPT ![s] = IdleCoroutine] \in [Slot -> Coroutine]
  BY <1>1 DEF IdleCoroutine, Coroutine
<1>3. coro' = [coro EXCEPT ![n] = [coro[n] EXCEPT ![s] = IdleCoroutine]]
  OBVIOUS
<1> QED BY <1>2, <1>3 DEF MeshTypeOK

\* What Goto does to the phases.
LEMMA GotoPhases ==
  ASSUME MeshTypeOK, NEW n \in MeshNode, NEW s \in Slot,
         NEW phase, NEW togo, Goto(n, s, phase, togo)
  PROVE  /\ \A k \in MeshNode, r \in Slot :
              k # n \/ r # s => MeshPhase(k, r)' = MeshPhase(k, r)
         /\ phase = "asking" => MeshPhase(n, s)' \in {"asking", "sleeping"}
<1> DEFINE c == IF togo = {} /\ phase = "announcing" THEN IdleCoroutine
                ELSE IF togo = {} /\ phase = "asking"
                THEN [phase |-> "sleeping", togo |-> {}]
                ELSE [phase |-> phase, togo |-> togo]
<1>1. phase = "asking" => c.phase \in {"asking", "sleeping"}
  OBVIOUS
<1>2. coro' = [coro EXCEPT ![n][s] = c]
  BY DEF Goto
<1> HIDE DEF c
<1> QED BY <1>1, <1>2 DEF MeshTypeOK, MeshPhase

LEMMA SendTyped ==
  ASSUME MeshTypeOK, NEW n \in MeshNode, NEW p \in MeshNode,
         NEW type \in {"ELECTION", "ANSWER", "VICTORY", "HEARTBEAT"},
         Send(n, p, type)
  PROVE  net' \subseteq Message
BY LetterTyped DEF Send, MeshTypeOK

LEMMA TogoTyped ==
  ASSUME MeshTypeOK, NEW n \in MeshNode, NEW s \in Slot
  PROVE  coro[n][s].togo \subseteq MeshNode
BY DEF MeshTypeOK, Coroutine

-----------------------------------------------------------------------------
(* The two conjuncts of the invariant, action by action. *)

LEMMA TimeoutStep ==
  ASSUME MeshInv, NEW n \in MeshNode, NEW s \in Slot, MeshTimeout(n, s)
  PROVE  MeshInv'
<1>1. MeshTypeOK'
  BY GotoTyped DEF MeshInv, MeshTimeout, MeshTypeOK
<1>2. \A k \in MeshNode, r \in Slot :
        MeshPhase(k, r) # "idle" => MeshPhase(k, r)' = MeshPhase(k, r)
  BY GotoPhases DEF MeshInv, MeshTimeout
<1>3. ElectionsGoOn'
  BY <1>2 DEF MeshInv, ElectionsGoOn, MeshTimeout, MeshTypeOK
<1> QED BY <1>1, <1>3 DEF MeshInv

LEMMA BeginStep ==
  ASSUME MeshInv, NEW n \in MeshNode, NEW s \in Slot, BeginMeshElection(n, s)
  PROVE  MeshInv'
<1> DEFINE higher == {p \in meshPeers[n] : p > n}
<1>1. higher \in SUBSET MeshNode /\ meshPeers[n] \in SUBSET MeshNode
  BY DEF MeshInv, MeshTypeOK
<1>2. meshTerm' \in [MeshNode -> 0 .. MeshMaxTerm] /\ net' \subseteq Message
  BY RaiseTermTyped DEF MeshInv, BeginMeshElection
<1>3. CASE higher = {}
  <2>1. BecomeMeshLeader(n, s) /\ busy' = [busy EXCEPT ![n] = meshPeers[n] # {}]
    BY <1>3 DEF BeginMeshElection
  <2>2. coro' \in [MeshNode -> [Slot -> Coroutine]]
    BY <1>1, <2>1, GotoTyped DEF MeshInv, BecomeMeshLeader
  <2>3. MeshTypeOK'
    BY <1>2, <2>1, <2>2 DEF MeshInv, MeshTypeOK, BeginMeshElection, BecomeMeshLeader
  <2>4. \A k \in MeshNode \ {n}, r \in Slot : MeshPhase(k, r)' = MeshPhase(k, r)
    BY <2>1, GotoPhases DEF MeshInv, BecomeMeshLeader
  <2>5. ElectionsGoOn'
    BY <2>1, <2>4
    DEF MeshInv, MeshTypeOK, ElectionsGoOn, BeginMeshElection, BecomeMeshLeader
  <2> QED BY <2>3, <2>5 DEF MeshInv
<1>4. CASE higher # {}
  <2>1. /\ state' = [state EXCEPT ![n] = "CANDIDATE"]
        /\ Goto(n, s, "asking", higher)
        /\ busy' = [busy EXCEPT ![n] = TRUE]
        /\ UNCHANGED current
    BY <1>4 DEF BeginMeshElection
  <2>2. coro' \in [MeshNode -> [Slot -> Coroutine]]
    BY <1>1, <2>1, GotoTyped DEF MeshInv
  <2>3. MeshTypeOK'
    BY <1>2, <2>1, <2>2 DEF MeshInv, MeshTypeOK, BeginMeshElection
  <2>4. /\ \A k \in MeshNode \ {n}, r \in Slot : MeshPhase(k, r)' = MeshPhase(k, r)
        /\ MeshPhase(n, s)' \in {"asking", "sleeping"}
    BY <2>1, GotoPhases DEF MeshInv
  <2>5. ElectionsGoOn'
    BY <2>1, <2>4 DEF MeshInv, MeshTypeOK, ElectionsGoOn, BeginMeshElection
  <2> QED BY <2>3, <2>5 DEF MeshInv
<1> QED BY <1>3, <1>4

LEMMA SkipStep ==
  ASSUME MeshInv, NEW n \in MeshNode, NEW s \in Slot, SkipMeshElection(n, s)
  PROVE  MeshInv'
<1>1. coro' \in [MeshNode -> [Slot -> Coroutine]]
  BY IdleTyped DEF MeshInv, SkipMeshElection
<1>2. MeshTypeOK'
  BY <1>1 DEF MeshInv, MeshTypeOK, SkipMeshElection
<1>3. \A k \in MeshNode, r \in Slot :
        MeshPhase(k, r) # "begin" => MeshPhase(k, r)' = MeshPhase(k, r)
  BY DEF MeshInv, MeshTypeOK, SkipMeshElection, MeshPhase
<1>4. ElectionsGoOn'
  BY <1>3 DEF MeshInv, MeshTypeOK, ElectionsGoOn, SkipMeshElection
<1> QED BY <1>2, <1>4 DEF MeshInv

LEMMA AskStep ==
  ASSUME MeshInv, NEW n \in MeshNode, NEW s \in Slot, NEW p \in MeshNode,
         AskPeer(n, s, p)
  PROVE  MeshInv'
<1>1. coro[n][s].togo \ {p} \in SUBSET MeshNode
  BY TogoTyped DEF MeshInv
<1>2. coro' \in [MeshNode -> [Slot -> Coroutine]]
  BY <1>1, GotoTyped DEF MeshInv, AskPeer
<1>3. net' \subseteq Message
  BY SendTyped DEF MeshInv, AskPeer
<1>4. MeshTypeOK'
  BY <1>2, <1>3 DEF MeshInv, MeshTypeOK, AskPeer
<1>5. /\ \A k \in MeshNode, r \in Slot :
           k # n \/ r # s => MeshPhase(k, r)' = MeshPhase(k, r)
      /\ MeshPhase(n, s)' \in {"asking", "sleeping"}
  BY GotoPhases DEF MeshInv, AskPeer
<1>6. ElectionsGoOn'
  BY <1>5 DEF MeshInv, MeshTypeOK, ElectionsGoOn, AskPeer
<1> QED BY <1>4, <1>6 DEF MeshInv

\* Waking up to no answer is victory, otherwise the flag is cleared.
LEMMA WakeStep ==
  ASSUME MeshInv, NEW n \in MeshNode, NEW s \in Slot, Wake(n, s)
  PROVE  MeshInv'
<1>1. CASE answers[n] = {}
  <2>1. BecomeMeshLeader(n, s) /\ busy' = [busy EXCEPT ![n] = @ /\ meshPeers[n] # {}]
    BY <1>1 DEF Wake
  <2>2. meshPeers[n] \in SUBSET MeshNode
    BY DEF MeshInv, MeshTypeOK
  <2>3. coro' \in [MeshNode -> [Slot -> Coroutine]]
    BY <2>1, <2>2, GotoTyped DEF MeshInv, BecomeMeshLeader
  <2>4. MeshTypeOK'
    BY <2>1, <2>3 DEF MeshInv, MeshTypeOK, Wake, BecomeMeshLeader
  <2>5. \A k \in MeshNode \ {n}, r \in Slot : MeshPhase(k, r)' = MeshPhase(k, r)
    BY <2>1, GotoPhases DEF MeshInv, BecomeMeshLeader
  <2>6. ElectionsGoOn'
    BY <2>1, <2>5 DEF MeshInv, MeshTypeOK, ElectionsGoOn, Wake, BecomeMeshLeader
  <2> QED BY <2>4, <2>6 DEF MeshInv
<1>2. CASE answers[n] # {}
  <2>1. /\ coro' = [coro EXCEPT ![n][s] = IdleCoroutine]
        /\ busy' = [busy EXCEPT ![n] = FALSE]
        /\ UNCHANGED <<state, current>>
    BY <1>2 DEF Wake
  <2>2. coro' \in [MeshNode -> [Slot -> Coroutine]]
    BY <2>1, IdleTyped DEF MeshInv
  <2>3. MeshTypeOK'
    BY <2>1, <2>2 DEF MeshInv, MeshTypeOK, Wake
  <2>4. \A k \in MeshNode \ {n}, r \in Slot : MeshPhase(k, r)' = MeshPhase(k, r)
    BY <2>1 DEF MeshInv, MeshTypeOK, MeshPhase
  <2>5. ElectionsGoOn'
    BY <2>1, <2>4 DEF MeshInv, MeshTypeOK, ElectionsGoOn, Wake
  <2> QED BY <2>3, <2>5 DEF MeshInv
<1> QED BY <1>1, <1>2

LEMMA AnnounceStep ==
  ASSUME MeshInv, NEW n \in MeshNode, NEW s \in Slot, NEW p \in MeshNode,
         AnnounceVictory(n, s, p)
  PROVE  MeshInv'
<1>1. coro[n][s].togo \ {p} \in SUBSET MeshNode
  BY TogoTyped DEF MeshInv
<1>2. coro' \in [MeshNode -> [Slot -> Coroutine]]
  BY <1>1, GotoTyped DEF MeshInv, AnnounceVictory
<1>3. net' \subseteq Message
  BY SendTyped DEF MeshInv, AnnounceVictory
<1>4. MeshTypeOK'
  BY <1>2, <1>3 DEF MeshInv, MeshTypeOK, AnnounceVictory
<1>5. \A k \in MeshNode, r \in Slot :
        MeshPhase(k, r) # "announcing" => MeshPhase(k, r)' = MeshPhase(k, r)
  BY GotoPhases DEF MeshInv, AnnounceVictory
<1>6. ElectionsGoOn'
  BY <1>5 DEF MeshInv, MeshTypeOK, ElectionsGoOn, AnnounceVictory
<1> QED BY <1>4, <1>6 DEF MeshInv

LEMMA BeatStep ==
  ASSUME MeshInv, NEW n \in MeshNode, NEW p \in MeshNode,
         BeginBeat(n) \/ SendBeat(n, p)
  PROVE  MeshInv'
<1>1. CASE BeginBeat(n)
  BY <1>1 DEF MeshInv, MeshTypeOK, ElectionsGoOn, BeginBeat, MeshPhase
<1>2. CASE SendBeat(n, p)
  <2>1. net' \subseteq Message
    BY <1>2, SendTyped DEF MeshInv, SendBeat
  <2> QED BY <1>2, <2>1 DEF MeshInv, MeshTypeOK, ElectionsGoOn, SendBeat, MeshPhase
<1> QED BY <1>1, <1>2

LEMMA HearElectionStep ==
  ASSUME MeshInv, NEW m \in net, NEW s \in Slot, HearElection(m, s)
  PROVE  MeshInv'
<1>1. m.to \in MeshNode /\ m.from \in MeshNode
  BY DEF MeshInv, MeshTypeOK, Message
<1>2. net' \subseteq Message
  BY <1>1, LetterTyped DEF MeshInv, MeshTypeOK, HearElection
<1>3. /\ coro' \in [MeshNode -> [Slot -> Coroutine]]
      /\ \A k \in MeshNode, r \in Slot :
           MeshPhase(k, r) # "idle" => MeshPhase(k, r)' = MeshPhase(k, r)
  <2>1. CASE MeshPhase(m.to, s) = "idle" /\ Goto(m.to, s, "begin", {})
    BY <1>1, <2>1, GotoTyped, GotoPhases DEF MeshInv
  <2>2. CASE UNCHANGED coro
    BY <2>2 DEF MeshInv, MeshTypeOK, MeshPhase
  <2> QED BY <2>1, <2>2 DEF HearElection
<1>4. MeshTypeOK'
  BY <1>2, <1>3 DEF MeshInv, MeshTypeOK, HearElection
<1>5. UNCHANGED <<meshUp, busy, state>>
  BY DEF HearElection
<1>6. \A k \in MeshNode, r \in Slot :
        MeshPhase(k, r) \in {"asking", "sleeping"} =>
          MeshPhase(k, r)' \in {"asking", "sleeping"}
  BY <1>3
<1>7. ElectionsGoOn'
  BY <1>5, <1>6 DEF MeshInv, MeshTypeOK, ElectionsGoOn
<1> QED BY <1>4, <1>7 DEF MeshInv

\* A leader deposed by a VICTORY gives up the flag with the office.
LEMMA HearOtherStep ==
  ASSUME MeshInv, NEW m \in net,
         HearAnswer(m) \/ HearVictory(m) \/ HearHeartbeat(m) \/ Discard(m)
  PROVE  MeshInv'
<1>1. m \in Message /\ m.from \in MeshNode /\ m.term \in 0 .. MeshMaxTerm
  BY DEF MeshInv, MeshTypeOK, Message
<1>2. MeshTypeOK'
  <2>1. CASE HearAnswer(m)
    BY <1>1, <2>1 DEF MeshInv, MeshTypeOK, HearAnswer, Arrives
  <2>2. CASE HearVictory(m)
    BY <1>1, <2>2 DEF MeshInv, MeshTypeOK, HearVictory, Arrives
  <2>3. CASE HearHeartbeat(m)
    BY <1>1, <2>3 DEF MeshInv, MeshTypeOK, HearHeartbeat, Arrives
  <2>4. CASE Discard(m)
    BY <2>4 DEF MeshInv, MeshTypeOK, Discard
  <2> QED BY <2>1, <2>2, <2>3, <2>4
<1>3. ElectionsGoOn'
  <2>1. CASE HearAnswer(m) \/ Discard(m)
    BY <2>1 DEF MeshInv, ElectionsGoOn, HearAnswer, Discard, MeshPhase
  <2>2. CASE HearVictory(m)
    BY <2>2 DEF MeshInv, MeshTypeOK, ElectionsGoOn, HearVictory, MeshPhase
  <2>3. CASE HearHeartbeat(m)
    BY <2>3 DEF MeshInv, MeshTypeOK, ElectionsGoOn, HearHeartbeat, MeshPhase
  <2> QED BY <2>1, <2>2, <2>3
<1> QED BY <1>2, <1>3 DEF MeshInv

LEMMA CrashStep ==
  ASSUME MeshInv, NEW n \in MeshNode, MeshCrash(n)
  PROVE  MeshInv'
<1>1. [s \in Slot |-> IdleCoroutine] \in [Slot -> Coroutine]
  BY DEF IdleCoroutine, Coroutine
<1>2. MeshTypeOK'
  BY <1>1 DEF MeshInv, MeshTypeOK, MeshCrash
<1>3. ElectionsGoOn'
  BY DEF MeshInv, MeshTypeOK, ElectionsGoOn, MeshCrash, MeshPhase
<1> QED BY <1>2, <1>3 DEF MeshInv

\* Only announcements end when a peer vanishes.
LEMMA DropStep ==
  ASSUME MeshInv, NEW n \in MeshNode, NEW p \in MeshNode, DropPeer(n, p)
  PROVE  MeshInv'
<1> DEFINE left == [s \in Slot |->
                     IF coro[n][s].phase = "announcing" THEN IdleCoroutine
                     ELSE coro[n][s]]
<1>1. coro' = [coro EXCEPT ![n] = left]
  BY DEF DropPeer
<1>2. coro[n] \in [Slot -> Coroutine] /\ IdleCoroutine \in Coroutine
  BY DEF MeshInv, MeshTypeOK, IdleCoroutine, Coroutine
<1>3. left \in [Slot -> Coroutine]
  BY <1>2
<1>4. \A s \in Slot : MeshPhase(n, s) # "announcing" => left[s] = coro[n][s]
  BY DEF MeshPhase
<1> HIDE DEF left
<1>5. MeshTypeOK'
  BY <1>1, <1>3 DEF MeshInv, MeshTypeOK, DropPeer
<1>6. \A k \in MeshNode, s \in Slot :
        MeshPhase(k, s) # "announcing" => MeshPhase(k, s)' = MeshPhase(k, s)
  BY <1>1, <1>4 DEF MeshInv, MeshTypeOK, MeshPhase
<1>7. ElectionsGoOn'
  BY <1>6 DEF MeshInv, MeshTypeOK, ElectionsGoOn, DropPeer
<1> QED BY <1>5, <1>7 DEF MeshInv

-----------------------------------------------------------------------------
LEMMA MeshInvInit == MeshInit => MeshInv
<1> SUFFICES ASSUME MeshInit PROVE MeshInv
  OBVIOUS
<1>1. MeshTypeOK
  BY TermsTellApart
  DEF TermsTellApart, MeshInit, MeshTypeOK, IdleCoroutine, Coroutine
<1>2. ElectionsGoOn
  BY DEF MeshInit, ElectionsGoOn
<1> QED BY <1>1, <1>2 DEF MeshInv

LEMMA MeshInvStep == MeshInv /\ [MeshNext]_meshVars => MeshInv'
<1> SUFFICES ASSUME MeshInv, [MeshNext]_meshVars PROVE MeshInv'
  OBVIOUS
<1>1. ASSUME NEW n \in MeshNode, NEW s \in Slot, MeshTimeout(n, s) PROVE MeshInv'
  BY <1>1, TimeoutStep
<1>2. ASSUME NEW n \in MeshNode, NEW s \in Slot, ElectionStepOf(n, s) PROVE MeshInv'
  BY <1>2, BeginStep, SkipStep, WakeStep, AskStep, AnnounceStep DEF ElectionStepOf
<1>3. ASSUME NEW n \in MeshNode, BeginBeat(n) \/ MeshCrash(n) PROVE MeshInv'
  BY <1>3, BeatStep, CrashStep
<1>4. ASSUME NEW n \in MeshNode, NEW p \in MeshNode, SendBeat(n, p) \/ DropPeer(n, p)
      PROVE  MeshInv'
  BY <1>4, BeatStep, DropStep
<1>5. ASSUME NEW m \in net, Deliver(m) PROVE MeshInv'
  BY <1>5, HearElectionStep, HearOtherStep DEF Deliver
<1>6. CASE UNCHANGED meshVars
  BY <1>6 DEF meshVars, MeshInv, MeshTypeOK, ElectionsGoOn, MeshPhase
<1> QED BY <1>1, <1>2, <1>3, <1>4, <1>5, <1>6 DEF MeshNext

\* A mesh node's state keeps its type, whatever messages it gets and loses.
THEOREM MeshTypeCorrect == MeshSpec => []MeshTypeOK
<1>1. MeshInv => MeshTypeOK
  BY DEF MeshInv
<1> QED BY <1>1, MeshInvInit, MeshInvStep, PTL DEF MeshSpec

\* A node that does not lead is free to hold the next election as soon as its
\* present one is over: _start_election, handle_election_message and the removal
\* of peers leave no _election_in_progress behind.
THEOREM NoNodeIsStuck == MeshSpec => []MeshNotStuck
<1>1. MeshInv => MeshNotStuck
  BY DEF MeshInv, ElectionsGoOn, MeshNotStuck
<1> QED BY <1>1, MeshInvInit, MeshInvStep, PTL DEF MeshSpec
-----------------------------------------------------------------------------
(* Timely runs. *)

\* An answer stays on its way while elections that ask and letters are let be.
LEMMA AnswerKept ==
  ASSUME NEW n, NEW p, WillAnswer(n, p), answers[n] \subseteq answers'[n],
         \A s \in Slot : MeshPhase(n, s) = "asking" => coro'[n][s] = coro[n][s],
         \A m \in net : /\ m.type \in {"ELECTION", "ANSWER"}
                        /\ {m.from, m.to} = {n, p}
                        => m \in net'
  PROVE  WillAnswer(n, p)'
<1>1. ASSUME NEW s \in Slot, MeshPhase(n, s) = "asking", p \in coro[n][s].togo
      PROVE  MeshPhase(n, s)' = "asking" /\ p \in coro'[n][s].togo
  BY <1>1 DEF MeshPhase
<1>2. ASSUME NEW m \in net,
             \/ m.type = "ELECTION" /\ m.from = n /\ m.to = p
             \/ m.type = "ANSWER" /\ m.from = p /\ m.to = n
      PROVE  m \in net'
  BY <1>2
<1> QED BY <1>1, <1>2 DEF WillAnswer

\* A step that elects nobody, asks nobody anew and loses no answer.
LEMMA QuietStep ==
  ASSUME TimelyInv, MeshInv', timely' = timely, meshUp' \subseteq meshUp,
         \A n \in meshUp' : meshPeers[n] \cap meshUp' \subseteq meshPeers'[n],
         \A n \in meshUp' : state'[n] = "LEADER" => state[n] = "LEADER",
         \A n \in meshUp' : Asks(n)' => Asks(n),
         timely => \A n, p \in meshUp' :
                     p > n /\ WillAnswer(n, p) => WillAnswer(n, p)'
  PROVE  TimelyInv'
<1>1. PeersKnown'
  BY DEF TimelyInv, PeersKnown
<1>2. HigherWillAnswer'
  BY DEF TimelyInv, HigherWillAnswer
<1>3. HighestLeads'
  BY DEF TimelyInv, HighestLeads
<1> QED BY <1>1, <1>2, <1>3 DEF TimelyInv

\* A node without a higher one running may lead.
LEMMA VictoryStep ==
  ASSUME TimelyInv, MeshInv', NEW n \in meshUp,
         UNCHANGED <<timely, meshUp, meshPeers>>,
         timely => \A p \in meshUp : ~ (p > n),
         \A k \in meshUp \ {n} : state'[k] = state[k] /\ (Asks(k)' => Asks(k)),
         timely => \A k, p \in meshUp : k # n /\ p > k /\ WillAnswer(k, p)
                                        => WillAnswer(k, p)'
  PROVE  TimelyInv'
<1>1. PeersKnown'
  BY DEF TimelyInv, PeersKnown
<1>2. HigherWillAnswer'
  BY DEF TimelyInv, HigherWillAnswer
<1>3. HighestLeads'
  BY DEF TimelyInv, HighestLeads
<1> QED BY <1>1, <1>2, <1>3 DEF TimelyInv

\* Raising a term touches no question and no answer.
LEMMA RaiseTermKeeps ==
  ASSUME MeshTypeOK, NEW n, RaiseTerm(n), NEW m \in net,
         m.type \in {"ELECTION", "ANSWER"}
  PROVE  m \in net'
<1>1. [m EXCEPT !.term = IF m.type \in {"VICTORY", "HEARTBEAT"}
                         THEN Older(@) ELSE @] = m
  BY DEF MeshTypeOK, Message
<1>2. m \in AgedNet
  BY <1>1 DEF AgedNet
<1> QED BY <1>2 DEF RaiseTerm

LEMMA TimelyBegin ==
  ASSUME TimelyInv, MeshInv', NEW n \in MeshNode, NEW s \in Slot,
         BeginMeshElection(n, s)
  PROVE  TimelyInv'
<1> DEFINE higher == {p \in meshPeers[n] : p > n}
<1>1. /\ n \in meshUp /\ RaiseTerm(n) /\ answers' = [answers EXCEPT ![n] = {}]
      /\ UNCHANGED <<timely, meshUp, meshPeers>>
  BY DEF BeginMeshElection
<1>2. /\ Goto(n, s, IF higher = {} THEN "announcing" ELSE "asking",
                    IF higher = {} THEN meshPeers[n] ELSE higher)
      /\ \A k \in meshUp \ {n} : state'[k] = state[k]
      /\ higher # {} => state' = [state EXCEPT ![n] = "CANDIDATE"]
  BY DEF BeginMeshElection, BecomeMeshLeader, TimelyInv, MeshInv, MeshTypeOK
<1>3. \A k \in MeshNode \ {n} : coro'[k] = coro[k] /\ answers'[k] = answers[k]
  <2> HIDE DEF higher
  <2> QED BY <1>1, <1>2 DEF Goto, TimelyInv, MeshInv, MeshTypeOK
<1>4. \A k \in meshUp \ {n} : Asks(k)' => Asks(k)
  BY <1>3 DEF Asks, MeshPhase, TimelyInv, MeshInv, MeshTypeOK
<1>5. ASSUME NEW k \in meshUp, k # n, NEW p, WillAnswer(k, p)
      PROVE  WillAnswer(k, p)'
  <2>1. k \in MeshNode
    BY DEF TimelyInv, MeshInv, MeshTypeOK
  <2>2. \A m \in net : m.type \in {"ELECTION", "ANSWER"} => m \in net'
    BY <1>1, RaiseTermKeeps DEF TimelyInv, MeshInv
  <2> QED BY <1>3, <1>5, <2>1, <2>2, AnswerKept
<1>6. timely => meshUp \ {n} \subseteq meshPeers[n]
  BY <1>1 DEF TimelyInv, PeersKnown
<1>7. \A p \in meshUp : p > n => p # n
  BY NodesAreOrdered DEF NodesAreOrdered, TimelyInv, MeshInv, MeshTypeOK
<1>8. CASE higher = {}
  <2>1. timely => \A p \in meshUp : ~ (p > n)
    BY <1>6, <1>7, <1>8
  <2> HIDE DEF higher
  <2> QED BY <1>1, <1>2, <1>4, <1>5, <2>1, VictoryStep
<1>9. CASE higher # {}
  <2>1. PeersKnown'
    BY <1>1 DEF TimelyInv, PeersKnown
  <2>2. HighestLeads'
    <3> HIDE DEF higher
    <3> QED BY <1>1, <1>2, <1>9 DEF TimelyInv, HighestLeads, MeshInv, MeshTypeOK
  <2>3. MeshPhase(n, s)' = "asking" /\ coro'[n][s].togo = higher
    <3>1. coro' = [coro EXCEPT ![n][s] = [phase |-> "asking", togo |-> higher]]
      BY <1>2, <1>9 DEF Goto
    <3> HIDE DEF higher
    <3> QED BY <3>1 DEF MeshPhase, TimelyInv, MeshInv, MeshTypeOK
  <2>4. timely => \A p \in meshUp : p > n => WillAnswer(n, p)'
    BY <1>6, <1>7, <2>3 DEF WillAnswer
  <2>5. HigherWillAnswer'
    <3> HIDE DEF higher
    <3> QED BY <1>1, <1>4, <1>5, <2>4 DEF TimelyInv, HigherWillAnswer
  <2> QED BY <2>1, <2>2, <2>5 DEF TimelyInv
<1> QED BY <1>8, <1>9

\* A question is on its way when the coroutine no longer has to ask it.
LEMMA TimelyAsk ==
  ASSUME TimelyInv, MeshInv', NEW n \in MeshNode, NEW s \in Slot,
         NEW q \in MeshNode, AskPeer(n, s, q)
  PROVE  TimelyInv'
<1>1. /\ n \in meshUp /\ MeshPhase(n, s) = "asking"
      /\ net' = net \cup {Letter(n, q, "ELECTION")}
      /\ Goto(n, s, "asking", coro[n][s].togo \ {q})
      /\ UNCHANGED <<timely, meshUp, meshPeers, state, answers>>
  BY DEF AskPeer, Send
<1> DEFINE left == coro[n][s].togo \ {q}
           c == IF left = {} THEN [phase |-> "sleeping", togo |-> {}]
                ELSE [phase |-> "asking", togo |-> left]
<1>2. coro' = [coro EXCEPT ![n][s] = c]
  BY <1>1 DEF Goto
<1>3. c.togo = left /\ (left # {} => c.phase = "asking")
  OBVIOUS
<1> HIDE DEF c
<1>4. /\ coro'[n][s] = c
      /\ \A k \in MeshNode, r \in Slot : k # n \/ r # s => coro'[k][r] = coro[k][r]
  BY <1>2 DEF TimelyInv, MeshInv, MeshTypeOK
<1>5. \A k \in meshUp : Asks(k)' => Asks(k)
  BY <1>1, <1>4 DEF Asks, MeshPhase, TimelyInv, MeshInv, MeshTypeOK
<1>6. ASSUME NEW k \in meshUp, NEW p \in meshUp, WillAnswer(k, p)
      PROVE  WillAnswer(k, p)'
  <2>0. k \in MeshNode
    BY DEF TimelyInv, MeshInv, MeshTypeOK
  <2>1. CASE k = n /\ p = q
    <3>1. /\ Letter(n, q, "ELECTION").type = "ELECTION"
          /\ Letter(n, q, "ELECTION").from = n /\ Letter(n, q, "ELECTION").to = q
      BY DEF Letter
    <3> QED BY <1>1, <2>1, <3>1 DEF WillAnswer
  <2>2. CASE p \in answers[k] \/ \E m \in net :
                \/ m.type = "ELECTION" /\ m.from = k /\ m.to = p
                \/ m.type = "ANSWER" /\ m.from = p /\ m.to = k
    BY <1>1, <2>2 DEF WillAnswer
  <2>3. ASSUME ~ (k = n /\ p = q), NEW r \in Slot, MeshPhase(k, r) = "asking",
               p \in coro[k][r].togo
        PROVE  WillAnswer(k, p)'
    <3>1. MeshPhase(k, r)' = "asking" /\ p \in coro'[k][r].togo
      <4>1. CASE k = n /\ r = s
        BY <1>3, <1>4, <2>3, <4>1 DEF MeshPhase
      <4>2. CASE k # n \/ r # s
        BY <1>4, <2>0, <2>3, <4>2 DEF MeshPhase
      <4> QED BY <4>1, <4>2
    <3> QED BY <3>1 DEF WillAnswer
  <2> QED BY <1>6, <2>1, <2>2, <2>3 DEF WillAnswer
<1> QED BY <1>1, <1>5, <1>6, QuietStep

\* Nobody wins an election while a higher node runs: it would have answered.
LEMMA TimelyWake ==
  ASSUME TimelyInv, MeshInv', NEW n \in MeshNode, NEW s \in Slot, Wake(n, s)
  PROVE  TimelyInv'
<1>1. /\ n \in meshUp /\ MeshPhase(n, s) = "sleeping"
      /\ timely => ~ Underway /\ net = {}
      /\ UNCHANGED <<timely, meshUp, meshPeers, answers, net>>
  BY DEF Wake
<1>2. \A k \in MeshNode, r \in Slot :
        k # n \/ r # s => MeshPhase(k, r)' = MeshPhase(k, r)
  <2>1. CASE answers[n] = {}
    BY <2>1, GotoPhases DEF Wake, BecomeMeshLeader, TimelyInv, MeshInv
  <2>2. CASE answers[n] # {}
    BY <2>2 DEF Wake, MeshPhase, TimelyInv, MeshInv, MeshTypeOK
  <2> QED BY <2>1, <2>2
<1>3. \A k \in meshUp \ {n} : Asks(k)' => Asks(k)
  BY <1>2 DEF Asks, TimelyInv, MeshInv, MeshTypeOK
<1>4. Asks(n)
  BY <1>1 DEF Asks
<1>5. timely => \A k \in meshUp, p \in meshUp : WillAnswer(k, p) => p \in answers[k]
  BY <1>1 DEF WillAnswer, Underway
<1>6. CASE answers[n] = {}
  <2>1. timely => \A p \in meshUp : ~ (p > n)
    BY <1>1, <1>4, <1>5, <1>6 DEF TimelyInv, HigherWillAnswer
  <2>2. \A k \in meshUp \ {n} : state'[k] = state[k]
    BY <1>6 DEF Wake, BecomeMeshLeader, TimelyInv, MeshInv, MeshTypeOK
  <2>3. timely => \A k, p \in meshUp : WillAnswer(k, p) => WillAnswer(k, p)'
    BY <1>1, <1>5 DEF WillAnswer
  <2> QED BY <1>1, <1>3, <2>1, <2>2, <2>3, VictoryStep
<1>7. CASE answers[n] # {}
  <2>1. state' = state
    BY <1>7 DEF Wake
  <2>2. timely => \A k, p \in meshUp : WillAnswer(k, p) => WillAnswer(k, p)'
    BY <1>1, <1>5 DEF WillAnswer
  <2>3. \A k \in meshUp : Asks(k)' => Asks(k)
    BY <1>3, <1>4
  <2> QED BY <1>1, <2>1, <2>2, <2>3, QuietStep
<1> QED BY <1>6, <1>7

\* An ELECTION that is heard is answered.
LEMMA TimelyHearElection ==
  ASSUME TimelyInv, MeshInv', NEW m \in net, NEW s \in Slot, HearElection(m, s)
  PROVE  TimelyInv'
<1>1. /\ m.to \in MeshNode /\ m.from \in MeshNode /\ m.to \in meshUp
      /\ m.type = "ELECTION" /\ m.from < m.to
      /\ UNCHANGED <<timely, meshUp, meshPeers, state, answers>>
      /\ net' = (net \ {m}) \cup
           IF m.from \in meshPeers[m.to]
           THEN {Letter(m.to, m.from, "ANSWER")} ELSE {}
  BY DEF HearElection, TimelyInv, MeshInv, MeshTypeOK, Message
<1>2. \A k \in MeshNode, r \in Slot :
        /\ MeshPhase(k, r) # "idle" => coro'[k][r] = coro[k][r]
        /\ MeshPhase(k, r) = "idle" => MeshPhase(k, r)' \in {"idle", "begin"}
  <2>1. CASE MeshPhase(m.to, s) = "idle" /\ Goto(m.to, s, "begin", {})
    <3>1. coro' = [coro EXCEPT ![m.to][s] = [phase |-> "begin", togo |-> {}]]
      BY <2>1 DEF Goto
    <3> QED BY <1>1, <2>1, <3>1 DEF MeshPhase, TimelyInv, MeshInv, MeshTypeOK
  <2>2. CASE UNCHANGED coro
    BY <2>2 DEF MeshPhase
  <2> QED BY <2>1, <2>2 DEF HearElection
<1>3. \A k \in meshUp : Asks(k)' => Asks(k)
  BY <1>2 DEF Asks, MeshPhase, TimelyInv, MeshInv, MeshTypeOK
<1>4. ASSUME timely, NEW k \in meshUp, NEW p \in meshUp, WillAnswer(k, p)
      PROVE  WillAnswer(k, p)'
  <2>0. k \in MeshNode
    BY DEF TimelyInv, MeshInv, MeshTypeOK
  <2>1. CASE m.from = k /\ m.to = p
    <3>1. k # p
      <4>1. p \in Nat
        BY <1>1, <2>1, NodesAreOrdered DEF NodesAreOrdered
      <4> QED BY <1>1, <2>1, <4>1
    <3>2. k \in meshPeers[p]
      BY <1>4, <3>1 DEF TimelyInv, PeersKnown
    <3>3. Letter(p, k, "ANSWER") \in net'
      BY <1>1, <2>1, <3>2
    <3>4. /\ Letter(p, k, "ANSWER").type = "ANSWER"
          /\ Letter(p, k, "ANSWER").from = p /\ Letter(p, k, "ANSWER").to = k
      BY DEF Letter
    <3> QED BY <3>3, <3>4 DEF WillAnswer
  <2>2. CASE p \in answers[k]
    BY <1>1, <2>2 DEF WillAnswer
  <2>3. ASSUME NEW r \in Slot, MeshPhase(k, r) = "asking", p \in coro[k][r].togo
        PROVE  WillAnswer(k, p)'
    <3>1. coro'[k][r] = coro[k][r]
      BY <1>2, <2>0, <2>3
    <3> QED BY <2>3, <3>1 DEF WillAnswer, MeshPhase
  <2>4. ASSUME ~ (m.from = k /\ m.to = p), NEW l \in net,
               \/ l.type = "ELECTION" /\ l.from = k /\ l.to = p
               \/ l.type = "ANSWER" /\ l.from = p /\ l.to = k
        PROVE  WillAnswer(k, p)'
    <3>1. l # m
      BY <1>1, <2>4
    <3>2. l \in net'
      BY <1>1, <3>1
    <3> QED BY <2>4, <3>2 DEF WillAnswer
  <2> QED BY <1>4, <2>1, <2>2, <2>3, <2>4 DEF WillAnswer
<1> QED BY <1>1, <1>3, <1>4, QuietStep

LEMMA TimelyHearOther ==
  ASSUME TimelyInv, MeshInv', NEW m \in net,
         HearAnswer(m) \/ HearVictory(m) \/ HearHeartbeat(m) \/ Discard(m)
  PROVE  TimelyInv'
<1>1. /\ UNCHANGED <<timely, meshUp, meshPeers, coro>> /\ net' = net \ {m}
      /\ \A k \in meshUp : state'[k] = "LEADER" => state[k] = "LEADER"
      /\ \A k \in meshUp : answers[k] \subseteq answers'[k]
  <2>0. MeshTypeOK /\ m.to \in MeshNode
    BY DEF TimelyInv, MeshInv, MeshTypeOK, Message
  <2>1. CASE HearAnswer(m)
    BY <2>0, <2>1 DEF HearAnswer, Arrives, MeshTypeOK
  <2>2. CASE HearVictory(m)
    BY <2>0, <2>2 DEF HearVictory, Arrives, MeshTypeOK
  <2>3. CASE HearHeartbeat(m)
    BY <2>0, <2>3 DEF HearHeartbeat, Arrives, MeshTypeOK
  <2>4. CASE Discard(m)
    BY <2>4 DEF Discard
  <2> QED BY <2>1, <2>2, <2>3, <2>4
<1>2. \A k : Asks(k)' <=> Asks(k)
  BY <1>1 DEF Asks, MeshPhase
<1>3. ASSUME timely, NEW k \in meshUp, NEW p \in meshUp, WillAnswer(k, p)
      PROVE  WillAnswer(k, p)'
  <2>1. CASE m.type = "ANSWER" /\ m.from = p /\ m.to = k
    <3>1. HearAnswer(m)
      BY <1>3, <2>1 DEF HearVictory, HearHeartbeat, Discard, Arrives
    <3>2. p \in answers'[k]
      BY <2>1, <3>1 DEF HearAnswer, TimelyInv, MeshInv, MeshTypeOK
    <3> QED BY <3>2 DEF WillAnswer
  <2>2. CASE m.type = "ELECTION" /\ m.to = p
    BY <1>3, <2>2 DEF HearAnswer, HearVictory, HearHeartbeat, Discard, Arrives
  <2>3. CASE ~ (m.type = "ANSWER" /\ m.from = p /\ m.to = k)
             /\ ~ (m.type = "ELECTION" /\ m.to = p)
    BY <1>1, <1>3, <2>3 DEF WillAnswer, MeshPhase
  <2> QED BY <2>1, <2>2, <2>3
<1> QED BY <1>1, <1>2, <1>3, QuietStep

\* The steps that neither ask, answer nor win.
LEMMA TimelyRest ==
  ASSUME TimelyInv, MeshInv', NEW n \in MeshNode, NEW s, NEW p,
         \/ /\ s \in Slot
            /\ MeshTimeout(n, s) \/ SkipMeshElection(n, s) \/ AnnounceVictory(n, s, p)
         \/ BeginBeat(n) \/ SendBeat(n, p) \/ MeshCrash(n) \/ DropPeer(n, p)
  PROVE  TimelyInv'
<1>0. MeshTypeOK
  BY DEF TimelyInv, MeshInv
<1>1. timely' = timely /\ meshUp' \subseteq meshUp /\ answers' = answers
      /\ net \subseteq net'
  BY DEF MeshTimeout, SkipMeshElection, AnnounceVictory, BeginBeat, SendBeat,
         MeshCrash, DropPeer, Send
<1>2. \A k \in meshUp' : state'[k] = state[k]
  BY <1>0 DEF MeshTimeout, SkipMeshElection, AnnounceVictory, BeginBeat, SendBeat,
         MeshCrash, DropPeer, MeshTypeOK
<1>3. \A k \in meshUp' : meshPeers[k] \cap meshUp' \subseteq meshPeers'[k]
  <2>1. CASE DropPeer(n, p)
    <3>1. /\ p \notin meshUp /\ meshUp' = meshUp
          /\ meshPeers' = [meshPeers EXCEPT ![n] = @ \ {p}]
      BY <2>1 DEF DropPeer
    <3> QED BY <1>0, <3>1 DEF MeshTypeOK
  <2>2. CASE ~ DropPeer(n, p)
    <3>1. meshPeers' = meshPeers
      BY <2>2 DEF MeshTimeout, SkipMeshElection, AnnounceVictory, BeginBeat, SendBeat,
                  MeshCrash
    <3> QED BY <3>1
  <2> QED BY <2>1, <2>2
<1>4. \A k \in meshUp', r \in Slot :
        /\ MeshPhase(k, r) \in {"asking", "sleeping"} => coro'[k][r] = coro[k][r]
        /\ MeshPhase(k, r)' \in {"asking", "sleeping"} =>
             MeshPhase(k, r) \in {"asking", "sleeping"}
  <2>1. CASE s \in Slot /\ MeshTimeout(n, s)
    <3>1. coro' = [coro EXCEPT ![n][s] = [phase |-> "begin", togo |-> {}]]
          /\ MeshPhase(n, s) = "idle" /\ meshUp' = meshUp
      BY <2>1 DEF MeshTimeout, Goto
    <3> QED BY <1>0, <3>1 DEF MeshPhase, MeshTypeOK
  <2>2. CASE s \in Slot /\ SkipMeshElection(n, s)
    BY <1>0, <2>2 DEF SkipMeshElection, MeshPhase, MeshTypeOK, IdleCoroutine
  <2>3. CASE s \in Slot /\ AnnounceVictory(n, s, p)
    <3> DEFINE left == coro[n][s].togo \ {p}
               c == IF left = {} THEN IdleCoroutine
                    ELSE [phase |-> "announcing", togo |-> left]
    <3>1. /\ coro' = [coro EXCEPT ![n][s] = c] /\ meshUp' = meshUp
          /\ MeshPhase(n, s) = "announcing"
      BY <2>3 DEF AnnounceVictory, Goto
    <3>2. c.phase \in {"announcing", "idle"}
      BY DEF IdleCoroutine
    <3> HIDE DEF c
    <3> QED BY <1>0, <3>1, <3>2 DEF MeshPhase, MeshTypeOK
  <2>4. CASE BeginBeat(n) \/ SendBeat(n, p)
    BY <2>4 DEF BeginBeat, SendBeat, MeshPhase
  <2>5. CASE MeshCrash(n)
    BY <1>0, <2>5 DEF MeshCrash, MeshPhase, MeshTypeOK
  <2>6. CASE DropPeer(n, p)
    <3> DEFINE left == [r \in Slot |->
                         IF coro[n][r].phase = "announcing" THEN IdleCoroutine
                         ELSE coro[n][r]]
    <3>1. coro' = [coro EXCEPT ![n] = left] /\ meshUp' = meshUp
      BY <2>6 DEF DropPeer
    <3>2. \A r \in Slot : \/ left[r] = coro[n][r]
                          \/ MeshPhase(n, r) = "announcing" /\ left[r].phase = "idle"
      BY DEF MeshPhase, IdleCoroutine
    <3> HIDE DEF left
    <3> QED BY <1>0, <3>1, <3>2 DEF MeshPhase, MeshTypeOK
  <2> QED BY <2>1, <2>2, <2>3, <2>4, <2>5, <2>6
<1>5. \A k \in meshUp' : Asks(k)' => Asks(k)
  BY <1>4 DEF Asks
<1>6. \A k, q \in meshUp' : WillAnswer(k, q) => WillAnswer(k, q)'
  BY <1>1, <1>4, AnswerKept
<1> QED BY <1>1, <1>2, <1>3, <1>5, <1>6, QuietStep

LEMMA TimelyInvInit == MeshInit => TimelyInv
<1> SUFFICES ASSUME MeshInit PROVE TimelyInv
  OBVIOUS
<1>1. PeersKnown /\ HighestLeads
  BY DEF MeshInit, PeersKnown, HighestLeads
<1>2. \A n \in meshUp : ~ Asks(n)
  BY DEF MeshInit, Asks, MeshPhase, IdleCoroutine
<1> QED BY <1>1, <1>2, MeshInvInit DEF TimelyInv, HigherWillAnswer

LEMMA TimelyInvStep == TimelyInv /\ [MeshNext]_meshVars => TimelyInv'
<1> SUFFICES ASSUME TimelyInv, [MeshNext]_meshVars PROVE TimelyInv'
  OBVIOUS
<1>0. MeshInv'
  BY MeshInvStep DEF TimelyInv
<1>1. ASSUME NEW n \in MeshNode, NEW s \in Slot, ElectionStepOf(n, s)
      PROVE  TimelyInv'
  BY <1>0, <1>1, TimelyBegin, TimelyRest, TimelyWake, TimelyAsk DEF ElectionStepOf
<1>2. ASSUME NEW n \in MeshNode, NEW s \in Slot, MeshTimeout(n, s)
      PROVE  TimelyInv'
  BY <1>0, <1>2, TimelyRest
<1>3. ASSUME NEW n \in MeshNode, NEW p \in MeshNode,
             BeginBeat(n) \/ MeshCrash(n) \/ SendBeat(n, p) \/ DropPeer(n, p)
      PROVE  TimelyInv'
  BY <1>0, <1>3, TimelyRest
<1>4. ASSUME NEW m \in net, Deliver(m) PROVE TimelyInv'
  BY <1>0, <1>4, TimelyHearElection, TimelyHearOther DEF Deliver
<1>5. CASE UNCHANGED meshVars
  BY <1>0, <1>5 DEF meshVars, TimelyInv, PeersKnown, HigherWillAnswer, HighestLeads,
                    Asks, WillAnswer, MeshPhase
<1> QED BY <1>1, <1>2, <1>3, <1>4, <1>5 DEF MeshNext

\* With timely messages _start_election and handle_election_message let no two
\* nodes lead at once, for any number of nodes, crashes, elections and terms.
THEOREM MeshHasOneLeader == MeshSpec => []MeshOneLeader
<1>1. TimelyInv => MeshOneLeader
  BY NodesAreOrdered
  DEF NodesAreOrdered, TimelyInv, MeshInv, MeshTypeOK, HighestLeads, MeshOneLeader
<1> QED BY <1>1, TimelyInvInit, TimelyInvStep, PTL DEF MeshSpec

-----------------------------------------------------------------------------
(* StateSync *)

Request ==
  [from: SyncMaster, to: SyncMaster, full: BOOLEAN, seq: 0 .. Cardinality(Item),
   updates: Seq(Update), held: [Item -> 0 .. MaxCopies]]

\* Numbers count the items accepted, each of which is accepted once.
SyncShape ==
  /\ accepted \subseteq Item
  /\ seq \in [SyncMaster -> Nat]
  /\ \A m \in SyncMaster : seq[m] <= Cardinality(accepted)
  /\ pendingUpdates \in [SyncMaster -> Seq(Update)]
  /\ \A m \in SyncMaster : Len(pendingUpdates[m]) <= MaxPendingUpdates
  /\ \A m \in SyncMaster : \A a \in DOMAIN pendingUpdates[m] :
       pendingUpdates[m][a].item \in accepted
  /\ copies \in [SyncMaster -> [Item -> 0 .. MaxCopies]]
  /\ posted \subseteq Request

\* The rest of the type invariant.
SyncFlags ==
  /\ reliable \in BOOLEAN /\ leading \subseteq SyncMaster
  /\ lastReceived \in [SyncMaster -> [SyncMaster -> 0 .. Cardinality(Item)]]
  /\ cutOff \subseteq accepted /\ restarts \in 0 .. SyncMaxRestarts

\* A submission waits in one queue at most, at one place; ...
QueuedOnce(j) ==
  \A m, k \in SyncMaster :
    \A a \in DOMAIN pendingUpdates[m], b \in DOMAIN pendingUpdates[k] :
      pendingUpdates[m][a].item = j /\ pendingUpdates[k][b].item = j => m = k /\ a = b

\* ... as long as it does, no other master has it and none is sent it.
QueuedIsNew(j) ==
  \A m \in SyncMaster : \A a \in DOMAIN pendingUpdates[m] :
    pendingUpdates[m][a].item = j =>
      /\ \A k \in SyncMaster : k # m => copies[k][j] = 0
      /\ \A p \in posted : \A n \in DOMAIN p.updates : p.updates[n].item # j

\* It is under way to a master in one request at most, at one place; ...
PostedOnce(j) ==
  \A p, q \in posted : \A a \in DOMAIN p.updates, b \in DOMAIN q.updates :
    p.to = q.to /\ p.updates[a].item = j /\ q.updates[b].item = j => p = q /\ a = b

\* ... and as long as it is, that master does not have it.
PostedIsNew(j) ==
  \A p \in posted : \A n \in DOMAIN p.updates :
    p.updates[n].item = j => copies[p.to][j] = 0

\* Full syncs carry no submission.
FullHoldsNone(j) == \A p \in posted : p.full => p.held[j] = 0

\* Before it is accepted it is nowhere.
UnknownIsNowhere(j) ==
  j \notin accepted =>
    \A m \in SyncMaster :
      /\ copies[m][j] = 0
      /\ \A a \in DOMAIN pendingUpdates[m] : pendingUpdates[m][a].item # j
      /\ \A p \in posted : \A n \in DOMAIN p.updates : p.updates[n].item # j

OnItsWay(j) ==
  /\ QueuedOnce(j) /\ QueuedIsNew(j) /\ PostedOnce(j) /\ PostedIsNew(j)
  /\ FullHoldsNone(j) /\ UnknownIsNowhere(j)
  /\ \A m \in SyncMaster : copies[m][j] <= 1

SyncInv == SyncShape /\ SyncFlags /\ \A j \in SyncJob : OnItsWay(j)

-----------------------------------------------------------------------------
LEMMA ItemsAreFinite ==
  /\ IsFiniteSet(Item) /\ Cardinality(Item) \in Nat
  /\ \A S \in SUBSET Item :
       IsFiniteSet(S) /\ Cardinality(S) \in Nat /\ Cardinality(S) <= Cardinality(Item)
<1>1. IsFiniteSet(Item)
  BY SyncConstants, FS_Union DEF SyncConstants, Item
<1> QED BY <1>1, FS_Subset, FS_CardinalityType

\* The queue after an update: what it held, moved up by one if the oldest entry is
\* cut off, and the new item last.
LEMMA QueueGrows ==
  ASSUME SyncShape, NEW m \in SyncMaster, NEW i \in Item, seq[m] < Cardinality(Item),
         QueueUpdate(m, i)
  PROVE  \E queue \in Seq(Update), shift \in {0, 1} :
           /\ pendingUpdates' = [pendingUpdates EXCEPT ![m] = queue]
           /\ Len(queue) <= MaxPendingUpdates
           /\ \A b \in DOMAIN queue :
                \/ /\ b + shift \in DOMAIN pendingUpdates[m]
                   /\ queue[b] = pendingUpdates[m][b + shift]
                \/ b + shift = Len(pendingUpdates[m]) + 1 /\ queue[b].item = i
           /\ cutOff' \subseteq
                cutOff \cup {i} \cup {u.item : u \in ToSet(pendingUpdates[m])}
<1> DEFINE old == pendingUpdates[m]
           new == [seq |-> seq[m] + 1, item |-> i]
           longer == Append(old, new)
           full == Len(longer) > MaxPendingUpdates
<1>1. /\ pendingUpdates' = [pendingUpdates EXCEPT ![m] = IF full THEN Tail(longer) ELSE longer]
      /\ cutOff' = cutOff \cup IF full THEN {Head(longer).item} ELSE {}
  BY DEF QueueUpdate
<1>2. /\ old \in Seq(Update) /\ Len(old) <= MaxPendingUpdates /\ Len(old) \in Nat
      /\ DOMAIN old = 1 .. Len(old) /\ MaxPendingUpdates \in Nat
  BY SyncConstants DEF SyncShape, SyncConstants
<1>3. new \in Update /\ new.item = i
  BY ItemsAreFinite DEF SyncShape, Update
<1> HIDE DEF new
<1>4. /\ longer \in Seq(Update) /\ Len(longer) = Len(old) + 1 /\ longer # <<>>
      /\ \A b \in 1 .. Len(old) : longer[b] = old[b]
      /\ longer[Len(old) + 1] = new
  BY <1>2, <1>3, AppendProperties
<1>5. Head(longer).item = i \/ Head(longer) \in ToSet(old)
  <2>1. Head(longer) = longer[1]
    BY <1>4, HeadTailProperties
  <2>2. CASE Len(old) = 0
    BY <1>3, <1>4, <2>1, <2>2
  <2>3. CASE Len(old) # 0
    BY <1>2, <1>4, <2>1, <2>3 DEF ToSet
  <2> QED BY <2>2, <2>3
<1> HIDE DEF longer, old
<1>6. CASE full
  <2>1. /\ Tail(longer) \in Seq(Update) /\ Len(Tail(longer)) = Len(old)
        /\ DOMAIN Tail(longer) = 1 .. Len(old)
        /\ \A b \in 1 .. Len(old) : Tail(longer)[b] = longer[b + 1]
    BY <1>2, <1>4, HeadTailProperties
  <2>2. ASSUME NEW b \in DOMAIN Tail(longer)
        PROVE  \/ b + 1 \in DOMAIN old /\ Tail(longer)[b] = old[b + 1]
               \/ b + 1 = Len(old) + 1 /\ Tail(longer)[b].item = i
    <3>1. CASE b = Len(old)
      BY <1>3, <1>4, <2>1, <3>1
    <3>2. CASE b # Len(old)
      <4>1. b + 1 \in 1 .. Len(old)
        BY <1>2, <2>1, <3>2
      <4> QED BY <1>2, <1>4, <2>1, <4>1
    <3> QED BY <3>1, <3>2
  <2>3. pendingUpdates' = [pendingUpdates EXCEPT ![m] = Tail(longer)]
    BY <1>1, <1>6
  <2>4. cutOff' \subseteq cutOff \cup {i} \cup {u.item : u \in ToSet(old)}
    BY <1>1, <1>5, <1>6
  <2> DEFINE queue == Tail(longer)
  <2> HIDE DEF queue
  <2> QED BY <1>2, <2>1, <2>2, <2>3, <2>4 DEF queue, old
<1>7. CASE ~ full
  <2>1. Len(longer) <= MaxPendingUpdates
    BY <1>2, <1>4, <1>7
  <2>2. ASSUME NEW b \in DOMAIN longer
        PROVE  \/ b + 0 \in DOMAIN old /\ longer[b] = old[b + 0]
               \/ b + 0 = Len(old) + 1 /\ longer[b].item = i
    <3>1. b \in 1 .. Len(old) + 1
      BY <1>4
    <3> QED BY <1>2, <1>3, <1>4, <3>1
  <2>3. /\ pendingUpdates' = [pendingUpdates EXCEPT ![m] = longer]
        /\ cutOff' = cutOff
    BY <1>1, <1>7
  <2> QED BY <1>4, <2>1, <2>2, <2>3 DEF old
<1> QED BY <1>6, <1>7

LEMMA AcceptShape ==
  ASSUME SyncInv, NEW m \in SyncMaster, NEW i \in Item, Accept(m, i)
  PROVE  /\ SyncShape' /\ cutOff' \subseteq cutOff \cup accepted'
         /\ \E shift \in {0, 1} :
              \A k \in SyncMaster : \A b \in DOMAIN pendingUpdates'[k] :
                \/ /\ b + (IF k = m THEN shift ELSE 0) \in DOMAIN pendingUpdates[k]
                   /\ pendingUpdates'[k][b]
                        = pendingUpdates[k][b + (IF k = m THEN shift ELSE 0)]
                \/ /\ k = m /\ b + shift = Len(pendingUpdates[m]) + 1
                   /\ pendingUpdates'[k][b].item = i
<1>0. SyncShape
  BY DEF SyncInv
<1>1. /\ i \notin accepted /\ accepted' = accepted \cup {i} /\ posted' = posted
      /\ copies' = [copies EXCEPT ![m][i] = 1]
  BY DEF Accept
<1>2. /\ accepted' \subseteq Item /\ Cardinality(accepted') = Cardinality(accepted) + 1
      /\ Cardinality(accepted) \in Nat /\ Cardinality(accepted') <= Cardinality(Item)
      /\ Cardinality(Item) \in Nat
  BY <1>0, <1>1, ItemsAreFinite, FS_AddElement DEF SyncShape
<1>3. copies' \in [SyncMaster -> [Item -> 0 .. MaxCopies]]
  BY <1>0, <1>1, SyncConstants DEF SyncShape, SyncConstants
<1>4. CASE m \notin leading
  <2>1. seq' = seq /\ pendingUpdates' = pendingUpdates /\ cutOff' = cutOff
    BY <1>4 DEF Accept
  <2>2. SyncShape'
    BY <1>0, <1>1, <1>2, <1>3, <2>1 DEF SyncShape
  <2>3. \A k \in SyncMaster : \A b \in DOMAIN pendingUpdates[k] : b + 0 = b
    BY <1>0 DEF SyncShape
  <2> QED BY <2>1, <2>2, <2>3
<1>5. CASE m \in leading
  <2>1. QueueUpdate(m, i)
    BY <1>5 DEF Accept
  <2>2. seq' = [seq EXCEPT ![m] = seq[m] + 1] /\ seq[m] < Cardinality(Item)
    BY <1>0, <1>2, <2>1 DEF QueueUpdate, SyncShape
  <2>3. PICK queue \in Seq(Update), shift \in {0, 1} :
           /\ pendingUpdates' = [pendingUpdates EXCEPT ![m] = queue]
           /\ Len(queue) <= MaxPendingUpdates
           /\ \A b \in DOMAIN queue :
                \/ /\ b + shift \in DOMAIN pendingUpdates[m]
                   /\ queue[b] = pendingUpdates[m][b + shift]
                \/ b + shift = Len(pendingUpdates[m]) + 1 /\ queue[b].item = i
           /\ cutOff' \subseteq
                cutOff \cup {i} \cup {u.item : u \in ToSet(pendingUpdates[m])}
    BY <1>0, <2>1, <2>2, QueueGrows
  <2>4. SyncShape'
    <3>1. /\ pendingUpdates' \in [SyncMaster -> Seq(Update)]
          /\ \A k \in SyncMaster : Len(pendingUpdates'[k]) <= MaxPendingUpdates
      BY <1>0, <2>3 DEF SyncShape
    <3>2. /\ seq' \in [SyncMaster -> Nat]
          /\ \A k \in SyncMaster : seq'[k] <= Cardinality(accepted')
      BY <1>0, <1>2, <2>2 DEF SyncShape
    <3>3. \A k \in SyncMaster : \A b \in DOMAIN pendingUpdates'[k] :
            pendingUpdates'[k][b].item \in accepted'
      BY <1>0, <1>1, <2>3 DEF SyncShape
    <3> QED BY <1>0, <1>1, <1>2, <1>3, <3>1, <3>2, <3>3 DEF SyncShape
  <2>5. ASSUME NEW k \in SyncMaster, NEW b \in DOMAIN pendingUpdates'[k]
        PROVE  \/ /\ b + (IF k = m THEN shift ELSE 0) \in DOMAIN pendingUpdates[k]
                  /\ pendingUpdates'[k][b]
                       = pendingUpdates[k][b + (IF k = m THEN shift ELSE 0)]
               \/ /\ k = m /\ b + shift = Len(pendingUpdates[m]) + 1
                  /\ pendingUpdates'[k][b].item = i
    <3>1. CASE k = m
      BY <1>0, <2>3, <3>1 DEF SyncShape
    <3>2. CASE k # m
      <4>1. pendingUpdates'[k] = pendingUpdates[k]
        BY <1>0, <2>3, <3>2 DEF SyncShape
      <4>2. b + 0 = b
        BY <1>0, <4>1 DEF SyncShape
      <4> QED BY <3>2, <4>1, <4>2
    <3> QED BY <3>1, <3>2
  <2>6. cutOff' \subseteq cutOff \cup accepted'
    <3>1. \A u \in ToSet(pendingUpdates[m]) : u.item \in accepted
      BY <1>0 DEF SyncShape, ToSet
    <3> QED BY <1>1, <2>3, <3>1
  <2> QED BY <2>4, <2>5, <2>6
<1> QED BY <1>4, <1>5

\* A submission that is accepted was nowhere; the others stay where they are.
LEMMA AcceptOnce ==
  ASSUME SyncInv, NEW m \in SyncMaster, NEW i \in Item, Accept(m, i), NEW j \in SyncJob
  PROVE  OnItsWay(j)'
<1>0. SyncShape /\ OnItsWay(j) /\ j \in Item /\ SyncShape'
  BY AcceptShape DEF SyncInv, Item
<1>1. PICK shift \in {0, 1} :
        \A k \in SyncMaster : \A b \in DOMAIN pendingUpdates'[k] :
          \/ /\ b + (IF k = m THEN shift ELSE 0) \in DOMAIN pendingUpdates[k]
             /\ pendingUpdates'[k][b]
                  = pendingUpdates[k][b + (IF k = m THEN shift ELSE 0)]
          \/ /\ k = m /\ b + shift = Len(pendingUpdates[m]) + 1
             /\ pendingUpdates'[k][b].item = i
  BY AcceptShape
<1> DEFINE At(k, b) == b + (IF k = m THEN shift ELSE 0)
<1>2. /\ i \notin accepted /\ accepted' = accepted \cup {i} /\ posted' = posted
      /\ copies' = [copies EXCEPT ![m][i] = 1]
  BY DEF Accept
<1>3. \A k \in SyncMaster : copies'[k][j] = IF k = m /\ j = i THEN 1 ELSE copies[k][j]
  BY <1>0, <1>2 DEF SyncShape
<1>4. \A k \in SyncMaster : \A b, c \in DOMAIN pendingUpdates'[k] :
        /\ At(k, b) = At(k, c) => b = c
        /\ k = m /\ b + shift = c + shift => b = c
  <2>1. \A k \in SyncMaster : DOMAIN pendingUpdates'[k] \subseteq Int
    BY <1>0 DEF SyncShape
  <2>2. \A b, c \in Int : \A d \in {0, 1} : b + d = c + d => b = c
    OBVIOUS
  <2>3. \A k \in SyncMaster : (IF k = m THEN shift ELSE 0) \in {0, 1}
    OBVIOUS
  <2> QED BY <2>1, <2>2, <2>3
<1>5. CASE i # j
  <2>1. \A k \in SyncMaster : \A b \in DOMAIN pendingUpdates'[k] :
          pendingUpdates'[k][b].item = j =>
            At(k, b) \in DOMAIN pendingUpdates[k] /\ pendingUpdates[k][At(k, b)].item = j
    BY <1>1, <1>5
  <2> HIDE DEF At
  <2>2. QueuedOnce(j)'
    BY <1>0, <1>4, <2>1 DEF OnItsWay, QueuedOnce
  <2>3. QueuedIsNew(j)'
    BY <1>0, <1>2, <1>3, <1>5, <2>1 DEF OnItsWay, QueuedIsNew
  <2>4. PostedIsNew(j)'
    BY <1>0, <1>2, <1>3, <1>5 DEF OnItsWay, PostedIsNew, SyncShape, Request
  <2>5. UnknownIsNowhere(j)'
    BY <1>0, <1>2, <1>3, <1>5, <2>1 DEF OnItsWay, UnknownIsNowhere
  <2>6. PostedOnce(j)' /\ FullHoldsNone(j)'
    BY <1>0, <1>2 DEF OnItsWay, PostedOnce, FullHoldsNone
  <2> QED BY <1>0, <1>3, <1>5, <2>2, <2>3, <2>4, <2>5, <2>6 DEF OnItsWay
<1>6. CASE i = j
  <2>1. \A k \in SyncMaster :
          /\ copies[k][j] = 0
          /\ \A a \in DOMAIN pendingUpdates[k] : pendingUpdates[k][a].item # j
          /\ \A p \in posted : \A n \in DOMAIN p.updates : p.updates[n].item # j
    BY <1>0, <1>2, <1>6 DEF OnItsWay, UnknownIsNowhere
  <2>2. \A k \in SyncMaster : \A b \in DOMAIN pendingUpdates'[k] :
          pendingUpdates'[k][b].item = j =>
            k = m /\ b + shift = Len(pendingUpdates[m]) + 1
    BY <1>1, <2>1
  <2>3. QueuedOnce(j)'
    BY <1>4, <2>2 DEF QueuedOnce
  <2>4. QueuedIsNew(j)'
    BY <1>2, <1>3, <2>1, <2>2 DEF QueuedIsNew
  <2>5. PostedOnce(j)' /\ PostedIsNew(j)' /\ FullHoldsNone(j)'
    BY <1>0, <1>2, <2>1 DEF OnItsWay, PostedOnce, PostedIsNew, FullHoldsNone, SyncShape, Request
  <2>6. UnknownIsNowhere(j)'
    BY <1>2, <1>6 DEF UnknownIsNowhere
  <2>7. \A k \in SyncMaster : copies'[k][j] <= 1
    BY <1>3, <2>1
  <2> QED BY <2>3, <2>4, <2>5, <2>6, <2>7 DEF OnItsWay
<1> QED BY <1>5, <1>6

LEMMA AcceptStep ==
  ASSUME SyncInv, NEW m \in SyncMaster, NEW i \in Item, Accept(m, i)
  PROVE  SyncInv'
<1>1. SyncShape' /\ \A j \in SyncJob : OnItsWay(j)'
  BY AcceptShape, AcceptOnce
<1>2. SyncFlags'
  <2>1. cutOff' \subseteq accepted'
    BY AcceptShape DEF Accept, SyncInv, SyncFlags
  <2> QED BY <2>1 DEF SyncInv, SyncFlags, Accept
<1> QED BY <1>1, <1>2 DEF SyncInv

-----------------------------------------------------------------------------
LEMMA SendUpdatesStep ==
  ASSUME SyncInv, NEW m \in SyncMaster, SendUpdates(m)
  PROVE  SyncInv'
<1>0. SyncShape /\ SyncFlags
  BY DEF SyncInv
<1> DEFINE batch(k) == [from |-> m, to |-> k, full |-> FALSE, seq |-> 0,
                        updates |-> pendingUpdates[m], held |-> NoCopies]
           sent == {batch(k) : k \in OthersThan(m)}
<1>1. /\ posted' = posted \cup sent
      /\ pendingUpdates' = [pendingUpdates EXCEPT ![m] = <<>>]
      /\ UNCHANGED <<reliable, leading, accepted, seq, lastReceived, copies, cutOff, restarts>>
  BY DEF SendUpdates
<1>2. \A p \in sent : /\ p \in Request /\ ~ p.full /\ p.to # m
                      /\ p.updates = pendingUpdates[m]
  <2>1. NoCopies \in [Item -> 0 .. MaxCopies] /\ 0 \in 0 .. Cardinality(Item)
    BY ItemsAreFinite, SyncConstants DEF NoCopies, SyncConstants
  <2>2. ASSUME NEW k \in OthersThan(m)
        PROVE  /\ batch(k) \in Request /\ ~ batch(k).full /\ batch(k).to # m
               /\ batch(k).updates = pendingUpdates[m]
    <3>1. k \in SyncMaster /\ k # m /\ pendingUpdates[m] \in Seq(Update)
      BY <1>0 DEF OthersThan, SyncShape
    <3> QED BY <2>1, <3>1 DEF Request
  <2> HIDE DEF batch
  <2> QED BY <2>2
<1>3. \A p, q \in sent : p.to = q.to => p = q
  <2>1. \A k \in OthersThan(m) : batch(k).to = k
    OBVIOUS
  <2> HIDE DEF batch
  <2> QED BY <2>1
<1> HIDE DEF sent, batch
<1>4. SyncShape'
  <2>1. <<>> \in Seq(Update) /\ Len(<<>>) = 0 /\ DOMAIN <<>> = {} /\ MaxPendingUpdates \in Nat
    BY SyncConstants DEF SyncConstants
  <2> QED BY <1>0, <1>1, <1>2, <2>1 DEF SyncShape
<1>5. SyncFlags'
  BY <1>0, <1>1 DEF SyncFlags
<1>6. \A k \in SyncMaster : \A a \in DOMAIN pendingUpdates'[k] :
        /\ k # m /\ a \in DOMAIN pendingUpdates[k]
        /\ pendingUpdates'[k][a] = pendingUpdates[k][a]
  BY <1>0, <1>1 DEF SyncShape
<1>7. ASSUME NEW j \in SyncJob PROVE OnItsWay(j)'
  <2>0. OnItsWay(j)
    BY DEF SyncInv
  <2>1. QueuedOnce(j)'
    BY <1>6, <2>0 DEF OnItsWay, QueuedOnce
  <2>2. QueuedIsNew(j)'
    <3> SUFFICES ASSUME NEW k \in SyncMaster, NEW a \in DOMAIN pendingUpdates'[k],
                        pendingUpdates'[k][a].item = j
                 PROVE  /\ \A l \in SyncMaster : l # k => copies'[l][j] = 0
                        /\ \A p \in posted' : \A n \in DOMAIN p.updates :
                             p.updates[n].item # j
      BY DEF QueuedIsNew
    <3>1. /\ a \in DOMAIN pendingUpdates[k] /\ pendingUpdates[k][a].item = j /\ k # m
      BY <1>6
    <3>2. \A n \in DOMAIN pendingUpdates[m] : pendingUpdates[m][n].item # j
      BY <2>0, <3>1 DEF OnItsWay, QueuedOnce
    <3> QED BY <1>1, <1>2, <2>0, <3>1, <3>2 DEF OnItsWay, QueuedIsNew
  <2>3. PostedOnce(j)'
    <3> SUFFICES ASSUME NEW p \in posted', NEW q \in posted',
                        NEW a \in DOMAIN p.updates, NEW b \in DOMAIN q.updates,
                        p.to = q.to, p.updates[a].item = j, q.updates[b].item = j
                 PROVE  p = q /\ a = b
      BY DEF PostedOnce
    <3>1. CASE p \in posted /\ q \in posted
      BY <2>0, <3>1 DEF OnItsWay, PostedOnce
    <3>2. CASE p \in sent /\ q \in sent
      <4>1. p = q /\ p.updates = pendingUpdates[m]
        BY <1>2, <1>3, <3>2
      <4> QED BY <2>0, <4>1 DEF OnItsWay, QueuedOnce
    <3>3. CASE p \in sent /\ q \in posted
      BY <1>2, <2>0, <3>3 DEF OnItsWay, QueuedIsNew
    <3>4. CASE p \in posted /\ q \in sent
      BY <1>2, <2>0, <3>4 DEF OnItsWay, QueuedIsNew
    <3> QED BY <1>1, <3>1, <3>2, <3>3, <3>4
  <2>4. PostedIsNew(j)'
    BY <1>1, <1>2, <2>0 DEF OnItsWay, PostedIsNew, QueuedIsNew, Request
  <2>5. FullHoldsNone(j)'
    BY <1>1, <1>2, <2>0 DEF OnItsWay, FullHoldsNone
  <2>6. UnknownIsNowhere(j)'
    BY <1>1, <1>2, <1>6, <2>0 DEF OnItsWay, UnknownIsNowhere
  <2> QED BY <1>1, <2>0, <2>1, <2>2, <2>3, <2>4, <2>5, <2>6 DEF OnItsWay
<1> QED BY <1>4, <1>5, <1>7 DEF SyncInv

LEMMA SendFullSyncStep ==
  ASSUME SyncInv, NEW m \in SyncMaster, SendFullSync(m)
  PROVE  SyncInv'
<1>0. SyncShape /\ SyncFlags
  BY DEF SyncInv
<1> DEFINE sync(k) == [from |-> m, to |-> k, full |-> TRUE, seq |-> seq[m],
                       updates |-> <<>>, held |-> copies[m]]
           sent == {sync(k) : k \in OthersThan(m)}
<1>1. /\ posted' = posted \cup sent
      /\ UNCHANGED <<reliable, leading, accepted, seq, pendingUpdates, lastReceived,
                     copies, cutOff, restarts>>
      /\ \A j \in SyncJob : copies[m][j] = 0
  BY DEF SendFullSync, FullSync
<1>2. seq[m] \in 0 .. Cardinality(Item)
  BY <1>0, ItemsAreFinite DEF SyncShape
<1>3. \A p \in sent : /\ p \in Request /\ DOMAIN p.updates = {}
                      /\ p.held = copies[m]
  <2>1. <<>> \in Seq(Update) /\ DOMAIN <<>> = {} /\ copies[m] \in [Item -> 0 .. MaxCopies]
    BY <1>0 DEF SyncShape
  <2>2. ASSUME NEW k \in OthersThan(m)
        PROVE  /\ sync(k) \in Request /\ DOMAIN sync(k).updates = {}
               /\ sync(k).held = copies[m]
    <3>1. k \in SyncMaster
      BY DEF OthersThan
    <3> QED BY <1>2, <2>1, <3>1 DEF Request
  <2> HIDE DEF sync
  <2> QED BY <2>2
<1> HIDE DEF sent, sync
<1>4. SyncShape'
  BY <1>0, <1>1, <1>3 DEF SyncShape
<1>5. SyncFlags'
  BY <1>0, <1>1 DEF SyncFlags
<1>6. ASSUME NEW j \in SyncJob PROVE OnItsWay(j)'
  <2>0. OnItsWay(j)
    BY DEF SyncInv
  <2>1. QueuedOnce(j)' /\ QueuedIsNew(j)'
    BY <1>1, <1>3, <2>0 DEF OnItsWay, QueuedOnce, QueuedIsNew
  <2>2. PostedOnce(j)' /\ PostedIsNew(j)'
    BY <1>1, <1>3, <2>0 DEF OnItsWay, PostedOnce, PostedIsNew
  <2>3. FullHoldsNone(j)' /\ UnknownIsNowhere(j)'
    BY <1>1, <1>3, <2>0 DEF OnItsWay, FullHoldsNone, UnknownIsNowhere
  <2> QED BY <1>1, <2>0, <2>1, <2>2, <2>3 DEF OnItsWay
<1> QED BY <1>4, <1>5, <1>6 DEF SyncInv

-----------------------------------------------------------------------------
\* What a follower has, after it took in some updates or workers.
LEMMA SumShape ==
  ASSUME NEW f \in [Item -> Nat], NEW g \in [Item -> Nat]
  PROVE  /\ Sum2(f, g) \in [Item -> 0 .. MaxCopies]
         /\ \A i \in Item : Sum2(f, g)[i] <= f[i] + g[i]
<1>1. MaxCopies \in Nat
  BY SyncConstants DEF SyncConstants
<1>2. \A i \in Item : f[i] \in Nat /\ g[i] \in Nat /\ Sum2(f, g)[i] = Capped(f[i] + g[i])
  BY DEF Sum2
<1>3. \A n \in Nat : Capped(n) \in 0 .. MaxCopies /\ Capped(n) <= n
  BY <1>1 DEF Capped
<1>4. \A i \in Item : Sum2(f, g)[i] \in 0 .. MaxCopies /\ Sum2(f, g)[i] <= f[i] + g[i]
  <2> SUFFICES ASSUME NEW i \in Item
               PROVE  Sum2(f, g)[i] \in 0 .. MaxCopies /\ Sum2(f, g)[i] <= f[i] + g[i]
    OBVIOUS
  <2> DEFINE n == f[i] + g[i]
  <2>1. n \in Nat /\ Sum2(f, g)[i] = Capped(n)
    BY <1>2
  <2> HIDE DEF n
  <2>2. Capped(n) \in 0 .. MaxCopies /\ Capped(n) <= n
    BY <1>3, <2>1
  <2> QED BY <2>1, <2>2 DEF n
<1>5. Sum2(f, g) \in [Item -> 0 .. MaxCopies]
  BY <1>4 DEF Sum2
<1> QED BY <1>4, <1>5

\* Positions of a sequence are finitely many.
LEMMA CountsShape ==
  ASSUME NEW s \in Seq(Update), NEW P \in SUBSET DOMAIN s
  PROVE  /\ Counts(s, P) \in [Item -> Nat]
         /\ \A i \in Item : Counts(s, P)[i] = Cardinality({n \in P : s[n].item = i})
<1>1. IsFiniteSet(DOMAIN s)
  BY FS_Interval DEF Update
<1>2. \A i \in Item : Cardinality({n \in P : s[n].item = i}) \in Nat
  BY <1>1, FS_Subset, FS_CardinalityType
<1> QED BY <1>2 DEF Counts

\* A follower gets a submission it does not have, once; what a request brings and
\* the follower has is nothing more.
LEMMA TakenOnce ==
  ASSUME SyncInv, NEW p \in posted, NEW g \in [Item -> Nat],
         posted' = posted \ {p},
         copies' = [copies EXCEPT ![p.to] = Sum2(copies[p.to], g)],
         UNCHANGED <<accepted, seq, pendingUpdates>>,
         \A j \in SyncJob :
           g[j] = 0 \/ (g[j] = 1 /\ \E n \in DOMAIN p.updates : p.updates[n].item = j)
  PROVE  SyncShape' /\ \A j \in SyncJob : OnItsWay(j)'
<1>0. SyncShape
  BY DEF SyncInv
<1>1. p.to \in SyncMaster /\ copies[p.to] \in [Item -> 0 .. MaxCopies]
  BY <1>0 DEF SyncShape, Request
<1>2. copies[p.to] \in [Item -> Nat]
  BY <1>1, SyncConstants DEF SyncConstants
<1> DEFINE sum == Sum2(copies[p.to], g)
<1>3. /\ sum \in [Item -> 0 .. MaxCopies]
      /\ \A i \in Item : sum[i] <= copies[p.to][i] + g[i]
  BY <1>2, SumShape
<1> HIDE DEF sum
<1>4. copies' = [copies EXCEPT ![p.to] = sum]
  BY DEF sum
<1>5. SyncShape'
  BY <1>0, <1>1, <1>3, <1>4 DEF SyncShape
<1>6. \A k \in SyncMaster : copies'[k] = IF k = p.to THEN sum ELSE copies[k]
  BY <1>0, <1>4 DEF SyncShape
<1>7. ASSUME NEW j \in SyncJob PROVE OnItsWay(j)'
  <2>0. OnItsWay(j) /\ j \in Item
    BY DEF SyncInv, Item
  <2>1. \A k \in SyncMaster : copies[k][j] \in Nat /\ copies'[k][j] \in Nat
    BY <1>0, <1>5, <2>0, SyncConstants DEF SyncShape, SyncConstants
  <2>2. CASE g[j] = 0
    <3>1. sum[j] <= copies[p.to][j]
      BY <1>1, <1>3, <2>0, <2>1, <2>2
    <3>2. \A k \in SyncMaster : copies'[k][j] <= copies[k][j]
      BY <1>6, <2>1, <3>1
    <3>3. \A k \in SyncMaster : /\ copies[k][j] = 0 => copies'[k][j] = 0
                                /\ copies'[k][j] <= 1
      BY <2>0, <2>1, <3>2 DEF OnItsWay
    <3>4. QueuedOnce(j)' /\ QueuedIsNew(j)'
      BY <2>0, <3>3 DEF OnItsWay, QueuedOnce, QueuedIsNew
    <3>5. PostedOnce(j)' /\ PostedIsNew(j)' /\ FullHoldsNone(j)'
      BY <1>0, <2>0, <3>3
      DEF OnItsWay, PostedOnce, PostedIsNew, FullHoldsNone, SyncShape, Request
    <3>6. UnknownIsNowhere(j)'
      BY <2>0, <3>3 DEF OnItsWay, UnknownIsNowhere
    <3> QED BY <3>3, <3>4, <3>5, <3>6 DEF OnItsWay
  <2>3. CASE g[j] = 1 /\ \E n \in DOMAIN p.updates : p.updates[n].item = j
    <3>1. copies[p.to][j] = 0
      BY <2>0, <2>3 DEF OnItsWay, PostedIsNew
    <3>2. sum[j] <= 1
      BY <1>3, <2>0, <2>3, <3>1
    <3>3. \A k \in SyncMaster : /\ k # p.to => copies'[k][j] = copies[k][j]
                                /\ copies'[k][j] <= 1
      BY <1>6, <2>0, <3>2 DEF OnItsWay
    <3>4. \A q \in posted' : q.to = p.to =>
             \A n \in DOMAIN q.updates : q.updates[n].item # j
      BY <2>0, <2>3 DEF OnItsWay, PostedOnce
    <3>5. \A k \in SyncMaster : \A a \in DOMAIN pendingUpdates[k] :
            pendingUpdates[k][a].item # j
      BY <2>0, <2>3 DEF OnItsWay, QueuedIsNew
    <3>6. j \in accepted
      BY <1>1, <2>0, <2>3 DEF OnItsWay, UnknownIsNowhere
    <3>7. QueuedOnce(j)' /\ QueuedIsNew(j)' /\ UnknownIsNowhere(j)'
      BY <3>5, <3>6 DEF QueuedOnce, QueuedIsNew, UnknownIsNowhere
    <3>8. PostedOnce(j)' /\ FullHoldsNone(j)'
      BY <2>0 DEF OnItsWay, PostedOnce, FullHoldsNone
    <3>9. PostedIsNew(j)'
      <4> SUFFICES ASSUME NEW q \in posted', NEW n \in DOMAIN q.updates,
                          q.updates[n].item = j
                   PROVE  copies'[q.to][j] = 0
        BY DEF PostedIsNew
      <4>1. q \in posted /\ q.to \in SyncMaster /\ q.to # p.to
        BY <1>0, <3>4 DEF SyncShape, Request
      <4> QED BY <2>0, <3>3, <4>1 DEF OnItsWay, PostedIsNew
    <3> QED BY <3>3, <3>7, <3>8, <3>9 DEF OnItsWay
  <2> QED BY <2>2, <2>3
<1> QED BY <1>5, <1>7

\* A request less keeps the rest in order.
LEMMA PostedLess ==
  ASSUME SyncInv, NEW p, posted' = posted \ {p},
         UNCHANGED <<accepted, seq, pendingUpdates, copies>>
  PROVE  SyncShape' /\ \A j \in SyncJob : OnItsWay(j)'
<1>1. SyncShape'
  BY DEF SyncInv, SyncShape
<1>2. ASSUME NEW j \in SyncJob PROVE OnItsWay(j)'
  <2>0. OnItsWay(j)
    BY DEF SyncInv
  <2>1. QueuedOnce(j)' /\ QueuedIsNew(j)'
    BY <2>0 DEF OnItsWay, QueuedOnce, QueuedIsNew
  <2>2. PostedOnce(j)' /\ PostedIsNew(j)'
    BY <2>0 DEF OnItsWay, PostedOnce, PostedIsNew
  <2>3. FullHoldsNone(j)' /\ UnknownIsNowhere(j)'
    BY <2>0 DEF OnItsWay, FullHoldsNone, UnknownIsNowhere
  <2> QED BY <2>0, <2>1, <2>2, <2>3 DEF OnItsWay
<1> QED BY <1>1, <1>2

LEMMA TakeUpdatesStep ==
  ASSUME SyncInv, NEW p \in posted, TakeUpdates(p)
  PROVE  SyncInv'
<1> DEFINE k == p.to
           s == p.updates
           fresh == {n \in DOMAIN s : s[n].seq > lastReceived[k][p.from]}
<1>0. SyncShape /\ SyncFlags
  BY DEF SyncInv
<1>1. posted' = posted \ {p}
      /\ UNCHANGED <<reliable, leading, accepted, seq, pendingUpdates, cutOff, restarts>>
  BY DEF TakeUpdates
<1>2. k \in SyncMaster /\ p.from \in SyncMaster /\ s \in Seq(Update)
  BY <1>0 DEF SyncShape, Request
<1>3. CASE UNCHANGED <<copies, lastReceived>>
  <2>1. SyncFlags'
    BY <1>0, <1>1, <1>3 DEF SyncFlags
  <2> QED BY <1>1, <1>3, <2>1, PostedLess DEF SyncInv
<1>4. CASE /\ copies' = [copies EXCEPT ![k] = Sum2(copies[k], Counts(s, fresh))]
           /\ \E last \in fresh :
                lastReceived' = [lastReceived EXCEPT ![k][p.from] = s[last].seq]
  <2>1. fresh \in SUBSET DOMAIN s
    OBVIOUS
  <2> HIDE DEF fresh
  <2> DEFINE g == Counts(s, fresh)
  <2>2. /\ g \in [Item -> Nat]
        /\ \A i \in Item : g[i] = Cardinality({n \in fresh : s[n].item = i})
    BY <1>2, <2>1, CountsShape
  <2> HIDE DEF g
  <2>3. ASSUME NEW j \in SyncJob
        PROVE  g[j] = 0 \/ (g[j] = 1 /\ \E n \in DOMAIN s : s[n].item = j)
    <3> DEFINE at == {n \in fresh : s[n].item = j}
    <3>1. \A a, b \in at : a = b
      BY <2>1 DEF SyncInv, OnItsWay, PostedOnce
    <3>2. at = {} \/ \E n \in at : at = {n}
      BY <3>1
    <3>3. Cardinality(at) = 0 \/ (Cardinality(at) = 1 /\ \E n \in at : TRUE)
      BY <3>2, FS_EmptySet, FS_Singleton, Zenon
    <3> QED BY <2>1, <2>2, <3>3 DEF Item
  <2>4. copies' = [copies EXCEPT ![p.to] = Sum2(copies[p.to], g)]
    BY <1>4 DEF g
  <2>5. SyncShape' /\ \A j \in SyncJob : OnItsWay(j)'
    BY <1>1, <2>2, <2>3, <2>4, TakenOnce
  <2>6. lastReceived' \in [SyncMaster -> [SyncMaster -> 0 .. Cardinality(Item)]]
    <3>1. PICK last \in fresh :
                lastReceived' = [lastReceived EXCEPT ![k][p.from] = s[last].seq]
      BY <1>4
    <3>2. s[last] \in Update
      BY <1>2, <2>1, ElementOfSeq
    <3>3. s[last].seq \in 0 .. Cardinality(Item)
      BY <3>2, ItemsAreFinite DEF Update
    <3> QED BY <1>0, <1>2, <3>1, <3>3 DEF SyncFlags
  <2>7. SyncFlags'
    BY <1>0, <1>1, <2>6 DEF SyncFlags
  <2> QED BY <2>5, <2>7 DEF SyncInv
<1> QED BY <1>3, <1>4 DEF TakeUpdates

LEMMA TakeFullSyncStep ==
  ASSUME SyncInv, NEW p \in posted, TakeFullSync(p)
  PROVE  SyncInv'
<1>0. SyncShape /\ SyncFlags
  BY DEF SyncInv
<1>1. /\ p.full /\ posted' = posted \ {p}
      /\ UNCHANGED <<reliable, leading, accepted, seq, pendingUpdates, cutOff, restarts>>
  BY DEF TakeFullSync
<1>2. /\ p.to \in SyncMaster /\ p.from \in SyncMaster
      /\ p.held \in [Item -> 0 .. MaxCopies] /\ p.seq \in 0 .. Cardinality(Item)
  BY <1>0 DEF SyncShape, Request
<1>3. p.held \in [Item -> Nat]
  BY <1>2, SyncConstants DEF SyncConstants
<1>4. CASE UNCHANGED <<copies, lastReceived>>
  <2>1. SyncFlags'
    BY <1>0, <1>1, <1>4 DEF SyncFlags
  <2> QED BY <1>1, <1>4, <2>1, PostedLess DEF SyncInv
<1>5. CASE /\ copies' = [copies EXCEPT ![p.to] = Sum2(copies[p.to], p.held)]
           /\ lastReceived' = [lastReceived EXCEPT ![p.to][p.from] = p.seq]
  <2>1. \A j \in SyncJob : p.held[j] = 0
    BY <1>1 DEF SyncInv, OnItsWay, FullHoldsNone
  <2>2. SyncShape' /\ \A j \in SyncJob : OnItsWay(j)'
    BY <1>1, <1>3, <1>5, <2>1, TakenOnce
  <2>3. lastReceived' \in [SyncMaster -> [SyncMaster -> 0 .. Cardinality(Item)]]
    BY <1>0, <1>2, <1>5 DEF SyncFlags
  <2>4. SyncFlags'
    BY <1>0, <1>1, <2>3 DEF SyncFlags
  <2> QED BY <2>2, <2>4 DEF SyncInv
<1> QED BY <1>4, <1>5 DEF TakeFullSync

LEMMA LoseRequestStep ==
  ASSUME SyncInv, NEW p \in posted, LoseRequest(p)
  PROVE  SyncInv'
<1>1. SyncFlags'
  BY DEF SyncInv, SyncFlags, LoseRequest
<1> QED BY <1>1, PostedLess DEF SyncInv, LoseRequest

LEMMA ChangeLeadingStep ==
  ASSUME SyncInv, NEW m \in SyncMaster, ChangeLeading(m)
  PROVE  SyncInv'
<1>1. SyncFlags'
  BY DEF SyncInv, SyncFlags, ChangeLeading
<1>2. SyncShape'
  BY DEF SyncInv, SyncShape, ChangeLeading
<1>3. \A j \in SyncJob : OnItsWay(j)'
  BY DEF SyncInv, ChangeLeading, OnItsWay, QueuedOnce, QueuedIsNew, PostedOnce,
         PostedIsNew, FullHoldsNone, UnknownIsNowhere
<1> QED BY <1>1, <1>2, <1>3 DEF SyncInv

\* A master that restarts has less; what is under way to it comes once as before.
LEMMA RestartMasterStep ==
  ASSUME SyncInv, NEW m \in SyncMaster, RestartMaster(m)
  PROVE  SyncInv'
<1>0. SyncShape /\ SyncFlags
  BY DEF SyncInv
<1>1. /\ restarts < SyncMaxRestarts /\ restarts' = restarts + 1
      /\ leading' = leading \ {m}
      /\ seq' = [seq EXCEPT ![m] = 0]
      /\ pendingUpdates' = [pendingUpdates EXCEPT ![m] = <<>>]
      /\ lastReceived' = [lastReceived EXCEPT ![m] = [k \in SyncMaster |-> 0]]
      /\ copies' = [copies EXCEPT ![m] = NoCopies]
      /\ UNCHANGED <<reliable, accepted, posted, cutOff>>
  BY DEF RestartMaster
<1>2. /\ NoCopies \in [Item -> 0 .. MaxCopies] /\ \A j \in Item : NoCopies[j] = 0
      /\ Cardinality(Item) \in Nat /\ Cardinality(accepted) \in Nat
      /\ <<>> \in Seq(Update) /\ Len(<<>>) = 0 /\ DOMAIN <<>> = {}
      /\ MaxPendingUpdates \in Nat /\ SyncMaxRestarts \in Nat
  BY <1>0, ItemsAreFinite, SyncConstants DEF SyncShape, NoCopies, SyncConstants
<1>3. SyncFlags'
  <2>1. lastReceived' \in [SyncMaster -> [SyncMaster -> 0 .. Cardinality(Item)]]
    BY <1>0, <1>1, <1>2 DEF SyncFlags
  <2>2. restarts' \in 0 .. SyncMaxRestarts
    BY <1>0, <1>1, <1>2 DEF SyncFlags
  <2> QED BY <1>0, <1>1, <2>1, <2>2 DEF SyncFlags
<1>4. SyncShape'
  <2>1. seq' \in [SyncMaster -> Nat] /\ \A k \in SyncMaster : seq'[k] <= Cardinality(accepted)
    BY <1>0, <1>1, <1>2 DEF SyncShape
  <2>2. /\ pendingUpdates' \in [SyncMaster -> Seq(Update)]
        /\ \A k \in SyncMaster : Len(pendingUpdates'[k]) <= MaxPendingUpdates
        /\ \A k \in SyncMaster : \A a \in DOMAIN pendingUpdates'[k] :
             pendingUpdates'[k][a].item \in accepted
    BY <1>0, <1>1, <1>2 DEF SyncShape
  <2>3. copies' \in [SyncMaster -> [Item -> 0 .. MaxCopies]]
    BY <1>0, <1>1, <1>2 DEF SyncShape
  <2> QED BY <1>0, <1>1, <2>1, <2>2, <2>3 DEF SyncShape
<1>5. \A k \in SyncMaster : \A a \in DOMAIN pendingUpdates'[k] :
        a \in DOMAIN pendingUpdates[k] /\ pendingUpdates'[k][a] = pendingUpdates[k][a]
  BY <1>0, <1>1, <1>2 DEF SyncShape
<1>6. ASSUME NEW j \in SyncJob PROVE OnItsWay(j)'
  <2>0. OnItsWay(j) /\ j \in Item
    BY DEF SyncInv, Item
  <2>1. \A k \in SyncMaster : copies'[k][j] = 0 \/ copies'[k][j] = copies[k][j]
    BY <1>0, <1>1, <1>2, <2>0 DEF SyncShape
  <2>2. QueuedOnce(j)' /\ QueuedIsNew(j)'
    BY <1>1, <1>5, <2>0, <2>1 DEF OnItsWay, QueuedOnce, QueuedIsNew
  <2>3. PostedOnce(j)' /\ FullHoldsNone(j)'
    BY <1>1, <2>0 DEF OnItsWay, PostedOnce, FullHoldsNone
  <2>4. PostedIsNew(j)'
    BY <1>0, <1>1, <2>0, <2>1 DEF OnItsWay, PostedIsNew, SyncShape, Request
  <2>5. UnknownIsNowhere(j)'
    BY <1>1, <1>5, <2>0, <2>1 DEF OnItsWay, UnknownIsNowhere
  <2>6. \A k \in SyncMaster : copies'[k][j] <= 1
    BY <2>0, <2>1 DEF OnItsWay
  <2> QED BY <2>2, <2>3, <2>4, <2>5, <2>6 DEF OnItsWay
<1> QED BY <1>3, <1>4, <1>6 DEF SyncInv

-----------------------------------------------------------------------------
LEMMA SyncInvInit == SyncInit => SyncInv
<1> SUFFICES ASSUME SyncInit PROVE SyncInv
  OBVIOUS
<1>1. /\ NoCopies \in [Item -> 0 .. MaxCopies] /\ \A j \in Item : NoCopies[j] = 0
      /\ <<>> \in Seq(Update) /\ Len(<<>>) = 0 /\ DOMAIN <<>> = {}
      /\ Cardinality(Item) \in Nat /\ Cardinality({}) = 0
      /\ MaxPendingUpdates \in Nat /\ SyncMaxRestarts \in Nat
  BY ItemsAreFinite, FS_EmptySet, SyncConstants DEF NoCopies, SyncConstants
<1>2. SyncShape
  BY <1>1 DEF SyncInit, SyncShape
<1>3. SyncFlags
  BY <1>1 DEF SyncInit, SyncFlags
<1>4. \A j \in SyncJob : OnItsWay(j)
  BY <1>1 DEF SyncInit, Item, OnItsWay, QueuedOnce, QueuedIsNew, PostedOnce,
              PostedIsNew, FullHoldsNone, UnknownIsNowhere
<1> QED BY <1>2, <1>3, <1>4 DEF SyncInv

LEMMA SyncInvStep == SyncInv /\ [SyncNext]_syncVars => SyncInv'
<1> SUFFICES ASSUME SyncInv, [SyncNext]_syncVars PROVE SyncInv'
  OBVIOUS
<1>1. CASE UNCHANGED syncVars
  BY <1>1 DEF syncVars, SyncInv, SyncShape, SyncFlags, OnItsWay, QueuedOnce,
              QueuedIsNew, PostedOnce, PostedIsNew, FullHoldsNone, UnknownIsNowhere
<1> QED
  BY <1>1, AcceptStep, SendUpdatesStep, SendFullSyncStep, ChangeLeadingStep,
     RestartMasterStep, TakeUpdatesStep, TakeFullSyncStep, LoseRequestStep
  DEF SyncNext

\* Numbers, queues and requests keep their types: no master numbers more updates than
\* there are items, and no queue outgrows max_pending_updates.
THEOREM SyncTypeCorrect == SyncSpec => []SyncTypeOK
<1>1. SyncInv => SyncTypeOK
  <2> SUFFICES ASSUME SyncInv PROVE SyncTypeOK
    OBVIOUS
  <2>0. SyncShape /\ SyncFlags
    BY DEF SyncInv
  <2>1. \A s \in Seq(Update) : ToSet(s) \subseteq Update
    BY DEF ToSet
  <2>2. \A p \in posted : RequestType(p)
    BY <2>0, <2>1 DEF SyncShape, Request, RequestType
  <2>3. seq \in [SyncMaster -> 0 .. Cardinality(Item)]
    BY <2>0, ItemsAreFinite DEF SyncShape
  <2> QED BY <2>0, <2>1, <2>2, <2>3 DEF SyncShape, SyncFlags, SyncTypeOK
<1> QED BY <1>1, SyncInvInit, SyncInvStep, PTL DEF SyncSpec

\* No master ever holds a submission twice, for any masters and submissions, whatever
\* requests are lost or late, masters restart and leaders change: queue_update and
\* _sync_loop let each update out once, and a full sync carries no jobs.
THEOREM SubmissionsArriveOnce == SyncSpec => []JobsArriveOnce
<1>1. SyncInv => JobsArriveOnce
  BY DEF SyncInv, OnItsWay, JobsArriveOnce
<1> QED BY <1>1, SyncInvInit, SyncInvStep, PTL DEF SyncSpec
=============================================================================
