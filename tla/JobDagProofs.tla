----------------------------- MODULE JobDagProofs -----------------------------
(* The executor submits the jobs of a graph in order and once, for any graph,  *)
(* any limit and any number of passes, as long as no job is reported while a   *)
(* pass is under way.                                                          *)
EXTENDS JobDag, WellFoundedInduction, TLAPS

NodeStatus == {"PENDING", "SCHEDULED"} \cup Settled

ParentsAllow(n, st) == \A p \in Parents(n) : Allows(edge[p, n], st[p])

\* What a pass still has to submit or awaits: its parents let it run, and none of
\* its children has been listed or submitted.
Untouched(todo, st) ==
  \A n \in todo : /\ ParentsAllow(n, st)
                  /\ \A c \in ChildrenOf(n) : c \notin todo /\ submissions[c] = 0

\* A node is submitted once, after its parents.
NodesInOrder(st) ==
  \A n \in DagNode : /\ submissions[n] \in {0, 1}
                     /\ st[n] = "PENDING" => submissions[n] = 0
                     /\ submissions[n] = 1 => ParentsAllow(n, st)

OnePass == \A r, s \in Pass : pass[r].todo # {} /\ pass[s].todo # {} => r = s

\* The list of a pass is as sound as when it was taken, whatever cancel_dag did.
ListSound(s) ==
  pass[s].todo # {} =>
    /\ nodeStatus[Awaited(s)] = "SCHEDULED"
    /\ Untouched(pass[s].todo, nodeStatus)
    /\ \A n \in pass[s].todo \ {Awaited(s)} : submissions[n] = 0

OverIsIdle ==
  dagStatus \in {"SUCCEEDED", "FAILED", "PARTIAL"} =>
    /\ \A n \in DagNode : nodeStatus[n] \in Settled
    /\ \A s \in Pass : pass[s].todo = {}

SerialInv ==
  serial => /\ NodesInOrder(nodeStatus) /\ OnePass /\ OverIsIdle
            /\ \A s \in Pass : ListSound(s)

\* The inductive invariant.
DagInv == DagTypeOK /\ SerialInv

-----------------------------------------------------------------------------
\* A pass awaits a node of its list.
LEMMA MinIsIn ==
  ASSUME NEW S, S \subseteq DagNode, S # {}
  PROVE  Min(S) \in S
<1>1. S \subseteq Nat
  BY NodesAreNumbers DEF NodesAreNumbers
<1>2. PICK x \in S : \A y \in S : ~ (<<y, x>> \in OpToRel(<, Nat))
  <2> HIDE DEF OpToRel
  <2> QED BY <1>1, NatLessThanWellFounded, WFMin
<1>3. \A y, z \in Nat : y < z => <<y, z>> \in OpToRel(<, Nat)
  BY SMT DEF OpToRel
<1>4. ASSUME NEW y \in S PROVE x <= y
  <2>1. ~ (y < x)
    BY <1>1, <1>2, <1>3, Zenon
  <2> QED BY <1>1, <2>1
<1> QED BY <1>4 DEF Min

\* The list of a new pass.
LEMMA NewListSound ==
  ASSUME NEW st \in [DagNode -> NodeStatus], NodesInOrder(st)
  PROVE  /\ FirstOf(ReadyNodes(st)) \subseteq DagNode
         /\ Untouched(FirstOf(ReadyNodes(st)), st)
         /\ \A n \in FirstOf(ReadyNodes(st)) : submissions[n] = 0
<1> DEFINE todo == FirstOf(ReadyNodes(st))
<1>1. todo \subseteq ReadyNodes(st)
  BY DEF FirstOf
<1>2. \A n \in todo : n \in DagNode /\ st[n] = "PENDING" /\ ParentsAllow(n, st)
  BY <1>1 DEF ReadyNodes, ParentsAllow
<1>3. ASSUME NEW n \in todo, NEW c \in ChildrenOf(n)
      PROVE  c \notin todo /\ submissions[c] = 0
  <2>1. c \in DagNode /\ n \in Parents(c)
    BY <1>2 DEF ChildrenOf, Parents
  <2>2. ~ Allows(edge[n, c], st[n])
    BY <1>2 DEF Allows, Settled
  <2>3. ~ ParentsAllow(c, st)
    BY <2>1, <2>2 DEF ParentsAllow
  <2> QED BY <1>2, <2>1, <2>3 DEF NodesInOrder
<1>4. \A n \in todo : submissions[n] = 0
  BY <1>2 DEF NodesInOrder
<1> QED BY <1>2, <1>3, <1>4 DEF Untouched

\* Statuses that change only where nothing was allowed by them keep the order.
LEMMA OrderKept ==
  ASSUME NEW st \in [DagNode -> NodeStatus], DagTypeOK, NodesInOrder(nodeStatus),
         \A n \in DagNode : nodeStatus[n] \in Settled => st[n] = nodeStatus[n],
         \A n \in DagNode : st[n] = "PENDING" => nodeStatus[n] = "PENDING"
  PROVE  /\ NodesInOrder(st)
         /\ \A todo \in SUBSET DagNode :
              Untouched(todo, nodeStatus) => Untouched(todo, st)
<1>1. ASSUME NEW n \in DagNode, ParentsAllow(n, nodeStatus)
      PROVE  ParentsAllow(n, st)
  BY <1>1 DEF ParentsAllow, Parents, Allows, Settled
<1> QED BY <1>1 DEF NodesInOrder, Untouched

-----------------------------------------------------------------------------
(* A pass, from one await to the next. *)

LEMMA AdvanceTyped ==
  ASSUME DagTypeOK, NEW s \in Pass, NEW todo \in SUBSET DagNode,
         NEW checks \in BOOLEAN, NEW st \in [DagNode -> NodeStatus],
         NEW run \in SUBSET DagNode, NEW status \in {"PENDING", "RUNNING"} \cup Ended,
         Advance(s, todo, checks, st, run, status),
         UNCHANGED <<serial, maxParallel, edge>>
  PROVE  DagTypeOK'
<1> DEFINE gone == {n \in todo : \A k \in todo : k <= n => ShouldSkip(k, st)}
           left == todo \ gone
           st2  == [n \in DagNode |->
                      IF n \in gone THEN "CANCELLED"
                      ELSE IF left # {} /\ n = Min(left) THEN "SCHEDULED" ELSE st[n]]
<1>1. left \subseteq DagNode /\ nodeStatus' = st2
  BY DEF Advance
<1>2. st2 \in [DagNode -> NodeStatus]
  BY DEF NodeStatus, Settled
<1>3. nodeStatus' \in [DagNode -> NodeStatus]
  BY <1>1, <1>2
<1>4. serial' \in BOOLEAN /\ maxParallel' \in ParallelLimits
      /\ edge' \in [DagNode \X DagNode -> {"none", "SUCCESS", "COMPLETION", "FAILURE"}]
  BY DEF DagTypeOK
<1>5. CASE left = {}
  <2>1. /\ pass' = [pass EXCEPT ![s] = IdlePass] /\ runningJobs' = run
        /\ dagStatus' = IF checks /\ Over(st2) THEN Outcome(st2) ELSE status
        /\ UNCHANGED submissions
    BY <1>5 DEF Advance
  <2>2. Outcome(st2) \in Ended
    BY DEF Outcome, Ended
  <2>3. dagStatus' \in {"PENDING", "RUNNING"} \cup Ended
    BY <2>1, <2>2
  <2>4. pass' \in [Pass -> [todo: SUBSET DagNode, checks: BOOLEAN]]
    BY <2>1 DEF DagTypeOK, IdlePass
  <2> HIDE DEF st2, left
  <2> QED BY <1>3, <1>4, <2>1, <2>3, <2>4 DEF DagTypeOK, NodeStatus
<1>6. CASE left # {}
  <2>1. /\ submissions[Min(left)] < MaxSubmissions
        /\ pass' = [pass EXCEPT ![s] = [todo |-> left, checks |-> checks]]
        /\ runningJobs' = run \cup {Min(left)}
        /\ submissions' = [submissions EXCEPT ![Min(left)] = @ + 1]
        /\ dagStatus' = status
    BY <1>6 DEF Advance
  <2> HIDE DEF st2, left
  <2>2. Min(left) \in DagNode
    BY <1>1, <1>6, MinIsIn
  <2>3. submissions' \in [DagNode -> 0 .. MaxSubmissions]
    <3> DEFINE m == Min(left)
    <3>1. submissions \in [DagNode -> 0 .. MaxSubmissions]
      BY DEF DagTypeOK
    <3>2. submissions[m] < MaxSubmissions /\ m \in DagNode
      BY <2>1, <2>2
    <3> HIDE DEF m
    <3>3. submissions[m] + 1 \in 0 .. MaxSubmissions
      BY <3>1, <3>2, NodesAreNumbers DEF NodesAreNumbers
    <3>4. submissions' = [submissions EXCEPT ![m] = submissions[m] + 1]
      BY <2>1 DEF m
    <3> QED BY <3>1, <3>3, <3>4
  <2>4. pass' \in [Pass -> [todo: SUBSET DagNode, checks: BOOLEAN]]
    BY <1>1, <2>1 DEF DagTypeOK
  <2> QED BY <1>3, <1>4, <2>1, <2>2, <2>3, <2>4 DEF DagTypeOK, NodeStatus
<1> QED BY <1>5, <1>6

LEMMA AdvanceSound ==
  ASSUME DagTypeOK, NEW s \in Pass, NEW todo \in SUBSET DagNode,
         NEW checks \in BOOLEAN, NEW st \in [DagNode -> NodeStatus],
         NEW run, NEW status,
         \A r \in Pass \ {s} : pass[r].todo = {},
         NodesInOrder(st), Untouched(todo, st),
         \A n \in todo : submissions[n] = 0,
         status \in {"SUCCEEDED", "FAILED", "PARTIAL"} =>
           todo = {} /\ \A n \in DagNode : st[n] \in Settled,
         Advance(s, todo, checks, st, run, status),
         UNCHANGED <<serial, maxParallel, edge>>
  PROVE  SerialInv'
<1> DEFINE gone == {n \in todo : \A k \in todo : k <= n => ShouldSkip(k, st)}
           left == todo \ gone
           st2  == [n \in DagNode |->
                      IF n \in gone THEN "CANCELLED"
                      ELSE IF left # {} /\ n = Min(left) THEN "SCHEDULED" ELSE st[n]]
<1>1. left \subseteq todo /\ gone \subseteq todo /\ nodeStatus' = st2
  BY DEF Advance
<1>2. left # {} => Min(left) \in left
  BY <1>1, MinIsIn
<1>3. \A n \in DagNode : n \notin todo => st2[n] = st[n]
  BY <1>1, <1>2
<1>4. ASSUME NEW n \in DagNode, n \in todo \/ submissions[n] = 1
      PROVE  ParentsAllow(n, st2)
  <2>1. ParentsAllow(n, st)
    BY <1>4 DEF Untouched, NodesInOrder
  <2>2. ASSUME NEW p \in Parents(n) PROVE p \notin todo
    <3>1. n \in ChildrenOf(p)
      BY DEF Parents, ChildrenOf
    <3> QED BY <1>4, <3>1 DEF Untouched
  <2> QED BY <1>3, <2>1, <2>2 DEF ParentsAllow, Parents
<1>5. \A n \in DagNode : ParentsAllow(n, st2) => ParentsAllow(n, nodeStatus)'
  BY <1>1 DEF ParentsAllow, Parents
<1>6. \A n \in DagNode : st2[n] = "PENDING" => st[n] = "PENDING"
  OBVIOUS
<1>7. CASE left = {}
  <2>1. /\ pass' = [pass EXCEPT ![s] = IdlePass]
        /\ dagStatus' = IF checks /\ Over(st2) THEN Outcome(st2) ELSE status
        /\ submissions' = submissions
    BY <1>7 DEF Advance
  <2>2. status \in {"SUCCEEDED", "FAILED", "PARTIAL"} => Over(st2)
    BY <1>3 DEF Over
  <2> HIDE DEF st2, left, gone
  <2>3. \A r \in Pass : pass'[r].todo = {}
    BY <2>1 DEF DagTypeOK, IdlePass
  <2>4. NodesInOrder(nodeStatus)'
    BY <1>1, <1>4, <1>5, <1>6, <2>1 DEF NodesInOrder
  <2>5. OverIsIdle'
    BY <1>1, <2>1, <2>2, <2>3 DEF OverIsIdle, Over
  <2> QED BY <2>3, <2>4, <2>5 DEF SerialInv, OnePass, ListSound
<1>8. CASE left # {}
  <2> DEFINE m == Min(left)
  <2>1. /\ pass' = [pass EXCEPT ![s] = [todo |-> left, checks |-> checks]]
        /\ submissions' = [submissions EXCEPT ![m] = @ + 1]
        /\ dagStatus' = status
    BY <1>8 DEF Advance
  <2>2. m \in left /\ m \in todo /\ m \in DagNode /\ st2[m] = "SCHEDULED"
    BY <1>1, <1>2, <1>8
  <2> HIDE DEF st2, left, gone, m
  <2>3. submissions[m] = 0 /\ \A n \in DagNode :
           submissions'[n] = IF n = m THEN 1 ELSE submissions[n]
    BY <2>1, <2>2 DEF DagTypeOK
  <2>4. NodesInOrder(nodeStatus)'
    BY <1>1, <1>4, <1>5, <1>6, <2>2, <2>3 DEF NodesInOrder
  <2>5. pass'[s].todo = left /\ \A r \in Pass \ {s} : pass'[r].todo = {}
    BY <2>1 DEF DagTypeOK
  <2>6. OverIsIdle'
    BY <1>1, <1>8, <2>1 DEF OverIsIdle
  <2>7. ListSound(s)'
    <3>1. Awaited(s)' = m
      BY <2>5 DEF Awaited, m
    <3>2. ASSUME NEW n \in left, NEW c \in ChildrenOf(n)
          PROVE  c \notin left /\ submissions'[c] = 0
      <4>1. c \in DagNode /\ c \notin todo /\ submissions[c] = 0
        BY <1>1, <3>2 DEF Untouched, ChildrenOf
      <4> QED BY <1>1, <2>2, <2>3, <4>1
    <3>3. \A n : ChildrenOf(n)' = ChildrenOf(n)
      BY DEF ChildrenOf
    <3>4. \A n \in left : ParentsAllow(n, nodeStatus)'
      BY <1>1, <1>4, <1>5
    <3>5. Untouched(pass[s].todo, nodeStatus)'
      BY <2>5, <3>2, <3>3, <3>4 DEF Untouched
    <3>6. \A n \in left \ {m} : submissions'[n] = 0
      BY <1>1, <2>3
    <3> QED BY <1>1, <2>2, <2>5, <3>1, <3>5, <3>6 DEF ListSound
  <2> QED BY <2>4, <2>5, <2>6, <2>7 DEF SerialInv, OnePass, ListSound
<1> QED BY <1>7, <1>8

\* A pass begins: the list is taken from the statuses st it sees.
LEMMA BeginPassKeeps ==
  ASSUME DagInv, NEW s \in Pass, IdleAt(s), NEW checks \in BOOLEAN,
         NEW st \in [DagNode -> NodeStatus], NEW run \in SUBSET DagNode,
         NEW status \in {"PENDING", "RUNNING"} \cup Ended,
         \A n \in DagNode : nodeStatus[n] \in Settled => st[n] = nodeStatus[n],
         \A n \in DagNode : st[n] = "PENDING" => nodeStatus[n] = "PENDING",
         serial /\ status \in {"SUCCEEDED", "FAILED", "PARTIAL"} =>
           \A n \in DagNode : st[n] \in Settled,
         BeginPass(s, checks, st, run, status),
         UNCHANGED <<serial, maxParallel, edge>>
  PROVE  DagInv'
<1> DEFINE todo == IF status \in {"PENDING", "RUNNING"}
                   THEN FirstOf(ReadyNodes(st)) ELSE {}
<1>1. Advance(s, todo, checks, st, run, status) /\ todo \in SUBSET DagNode
  BY DEF BeginPass, FirstOf, ReadyNodes
<1>2. DagTypeOK'
  <2> HIDE DEF todo
  <2> QED BY <1>1, AdvanceTyped DEF DagInv
<1>3. ASSUME serial PROVE SerialInv'
  <2>1. NodesInOrder(st)
    BY <1>3, OrderKept DEF DagInv, SerialInv
  <2>2. Untouched(todo, st) /\ \A n \in todo : submissions[n] = 0
    BY <2>1, NewListSound DEF Untouched
  <2>3. \A r \in Pass \ {s} : pass[r].todo = {}
    BY <1>3 DEF IdleAt, IdlePass
  <2>4. status \in {"SUCCEEDED", "FAILED", "PARTIAL"} =>
          todo = {} /\ \A n \in DagNode : st[n] \in Settled
    BY <1>3
  <2> HIDE DEF todo
  <2> QED BY <1>1, <2>1, <2>2, <2>3, <2>4, AdvanceSound DEF DagInv
<1>4. ~ serial => SerialInv'
  BY DEF SerialInv
<1> QED BY <1>2, <1>3, <1>4 DEF DagInv

\* A pass goes on with the nodes after the one it awaited.
LEMMA GoOnKeeps ==
  ASSUME DagInv, NEW s \in Pass, NEW st \in [DagNode -> NodeStatus],
         \A n \in DagNode : n # Awaited(s) => st[n] = nodeStatus[n],
         pass[s].todo # {} =>
           st[Awaited(s)] \in {nodeStatus[Awaited(s)], "FAILED"},
         GoOn(s, st)
  PROVE  DagInv'
<1> DEFINE todo == pass[s].todo \ {Awaited(s)}
<1>1. /\ Advance(s, todo, pass[s].checks, st, runningJobs, dagStatus)
      /\ pass[s].todo # {} /\ UNCHANGED <<serial, maxParallel, edge>>
  BY DEF GoOn
<1>2. /\ pass[s].todo \in SUBSET DagNode /\ todo \in SUBSET DagNode
      /\ pass[s].checks \in BOOLEAN /\ runningJobs \in SUBSET DagNode
      /\ dagStatus \in {"PENDING", "RUNNING"} \cup Ended
  BY DEF DagInv, DagTypeOK
<1>3. Awaited(s) \in DagNode
  BY <1>1, <1>2, MinIsIn DEF Awaited
<1>4. DagTypeOK'
  <2> HIDE DEF todo
  <2> QED BY <1>1, <1>2, AdvanceTyped DEF DagInv
<1>5. ASSUME serial PROVE SerialInv'
  <2>1. ListSound(s) /\ NodesInOrder(nodeStatus) /\ OnePass /\ OverIsIdle
    BY <1>5 DEF DagInv, SerialInv
  <2>2. nodeStatus[Awaited(s)] = "SCHEDULED"
    BY <1>1, <2>1 DEF ListSound
  <2>3. /\ \A n \in DagNode : nodeStatus[n] \in Settled => st[n] = nodeStatus[n]
        /\ \A n \in DagNode : st[n] = "PENDING" => nodeStatus[n] = "PENDING"
    BY <1>1, <1>3, <2>2 DEF Settled
  <2>4. NodesInOrder(st) /\ Untouched(pass[s].todo, st)
    BY <1>1, <1>2, <2>1, <2>3, OrderKept DEF DagInv, ListSound
  <2>5. Untouched(todo, st) /\ \A n \in todo : submissions[n] = 0
    BY <1>1, <2>1, <2>4 DEF Untouched, ListSound
  <2>6. \A r \in Pass \ {s} : pass[r].todo = {}
    BY <1>1, <2>1 DEF OnePass
  <2>7. dagStatus \notin {"SUCCEEDED", "FAILED", "PARTIAL"}
    BY <1>1, <2>1 DEF OverIsIdle
  <2> HIDE DEF todo
  <2> QED BY <1>1, <1>2, <2>4, <2>5, <2>6, <2>7, AdvanceSound DEF DagInv
<1>6. ~ serial => SerialInv'
  BY <1>1 DEF SerialInv
<1> QED BY <1>4, <1>5, <1>6 DEF DagInv

-----------------------------------------------------------------------------
LEMMA InitKeepsDagInv == DagInit => DagInv
<1> SUFFICES ASSUME DagInit PROVE DagInv
  OBVIOUS
<1>1. /\ serial \in BOOLEAN /\ maxParallel \in ParallelLimits
      /\ edge \in [DagNode \X DagNode -> {"none", "SUCCESS", "COMPLETION", "FAILURE"}]
  BY DEF DagInit
<1>2. /\ dagStatus = "PENDING" /\ runningJobs = {}
      /\ nodeStatus = [n \in DagNode |-> "PENDING"]
      /\ submissions = [n \in DagNode |-> 0]
      /\ pass = [s \in Pass |-> IdlePass]
  BY DEF DagInit
<1>3. submissions \in [DagNode -> 0 .. MaxSubmissions]
  BY <1>2, NodesAreNumbers DEF NodesAreNumbers
<1>4. /\ nodeStatus \in [DagNode -> {"PENDING", "SCHEDULED"} \cup Settled]
      /\ pass \in [Pass -> [todo: SUBSET DagNode, checks: BOOLEAN]]
  BY <1>2 DEF IdlePass
<1>5. DagTypeOK
  BY <1>1, <1>2, <1>3, <1>4 DEF DagTypeOK
<1>6. \A s \in Pass : pass[s].todo = {}
  BY <1>2 DEF IdlePass
<1>7. NodesInOrder(nodeStatus)
  BY <1>2 DEF NodesInOrder
<1>8. OnePass /\ OverIsIdle /\ \A s \in Pass : ListSound(s)
  BY <1>2, <1>6 DEF OnePass, OverIsIdle, ListSound
<1> QED BY <1>5, <1>7, <1>8 DEF DagInv, SerialInv

LEMMA StepKeepsDagInv == DagInv /\ [DagNext]_dagVars => DagInv'
<1> SUFFICES ASSUME DagInv, [DagNext]_dagVars PROVE DagInv'
  OBVIOUS
<1>0. /\ nodeStatus \in [DagNode -> NodeStatus] /\ runningJobs \in SUBSET DagNode
      /\ dagStatus \in {"PENDING", "RUNNING"} \cup Ended
  BY DEF DagInv, DagTypeOK, NodeStatus
<1>1. CASE CancelDag
  <2>1. /\ nodeStatus' = [n \in DagNode |-> IF nodeStatus[n] = "PENDING"
                                          THEN "CANCELLED" ELSE nodeStatus[n]]
        /\ dagStatus' = "CANCELLED"
        /\ UNCHANGED <<serial, maxParallel, edge, runningJobs, submissions, pass>>
    BY <1>1 DEF CancelDag
  <2>2. nodeStatus' \in [DagNode -> NodeStatus]
    BY <1>0, <2>1 DEF NodeStatus, Settled
  <2>3. DagTypeOK'
    BY <2>1, <2>2 DEF DagInv, DagTypeOK, NodeStatus, Ended
  <2>4. ASSUME serial PROVE SerialInv'
    <3>1. /\ \A n \in DagNode :
               nodeStatus[n] \in Settled => nodeStatus'[n] = nodeStatus[n]
          /\ \A n \in DagNode : nodeStatus'[n] = "PENDING" => nodeStatus[n] = "PENDING"
      BY <2>1 DEF Settled
    <3>2. /\ NodesInOrder(nodeStatus) /\ OnePass
          /\ \A s \in Pass : ListSound(s)
      BY <2>4 DEF DagInv, SerialInv
    <3> DEFINE st == [n \in DagNode |-> IF nodeStatus[n] = "PENDING"
                                       THEN "CANCELLED" ELSE nodeStatus[n]]
    <3>3. st \in [DagNode -> NodeStatus] /\ nodeStatus' = st
      BY <2>1, <2>2
    <3> HIDE DEF st
    <3>4. /\ NodesInOrder(st)
          /\ \A todo \in SUBSET DagNode :
               Untouched(todo, nodeStatus) => Untouched(todo, st)
      BY <3>1, <3>2, <3>3, OrderKept DEF DagInv
    <3>5. NodesInOrder(nodeStatus)'
      BY <2>1, <3>3, <3>4 DEF NodesInOrder, ParentsAllow, Parents
    <3>6. OverIsIdle' /\ OnePass'
      BY <2>1, <3>2 DEF OverIsIdle, OnePass
    <3>7. ASSUME NEW s \in Pass PROVE ListSound(s)'
      <4>1. CASE pass[s].todo = {}
        BY <2>1, <4>1 DEF ListSound
      <4>2. CASE pass[s].todo # {}
        <5>1. pass[s].todo \in SUBSET DagNode
          BY DEF DagInv, DagTypeOK
        <5>2. Untouched(pass[s].todo, st)
          BY <3>2, <3>4, <4>2, <5>1 DEF ListSound
        <5>3. Untouched(pass[s].todo, nodeStatus)'
          BY <2>1, <3>3, <5>2
          DEF Untouched, ParentsAllow, Parents, ChildrenOf
        <5>4. Awaited(s) \in DagNode /\ Awaited(s)' = Awaited(s)
          BY <2>1, <4>2, <5>1, MinIsIn DEF Awaited
        <5> QED BY <2>1, <3>2, <4>2, <5>3, <5>4 DEF ListSound
      <4> QED BY <4>1, <4>2
    <3> QED BY <3>5, <3>6, <3>7 DEF SerialInv
  <2>5. ~ serial => SerialInv'
    BY <2>1 DEF SerialInv
  <2> QED BY <2>3, <2>4, <2>5 DEF DagInv
<1>2. ASSUME NEW s \in Pass, SubmitDag(s) PROVE DagInv'
  <2>1. /\ IdleAt(s) /\ UNCHANGED <<serial, maxParallel, edge>>
        /\ BeginPass(s, FALSE, nodeStatus, runningJobs, "RUNNING")
    BY <1>2 DEF SubmitDag
  <2> QED BY <1>0, <2>1, BeginPassKeeps
<1>3. ASSUME NEW s \in Pass, SubmitReturns(s) PROVE DagInv'
  BY <1>0, <1>3, GoOnKeeps DEF SubmitReturns
<1>4. ASSUME NEW s \in Pass, SubmitRaises(s) PROVE DagInv'
  <2> DEFINE st == [nodeStatus EXCEPT ![Awaited(s)] = "FAILED"]
  <2>1. GoOn(s, st)
    BY <1>4 DEF SubmitRaises
  <2>2. pass[s].todo # {} /\ pass[s].todo \in SUBSET DagNode
    BY <2>1 DEF GoOn, DagInv, DagTypeOK
  <2>3. Awaited(s) \in DagNode
    BY <2>2, MinIsIn DEF Awaited
  <2>4. /\ st \in [DagNode -> NodeStatus] /\ st[Awaited(s)] = "FAILED"
        /\ \A n \in DagNode : n # Awaited(s) => st[n] = nodeStatus[n]
    BY <1>0, <2>3 DEF NodeStatus, Settled
  <2> HIDE DEF st
  <2> QED BY <2>1, <2>4, GoOnKeeps
<1>5. ASSUME NEW s \in Pass, NEW n \in DagNode, NEW status \in Settled,
             Notify(s, n, status)
      PROVE  DagInv'
  <2> DEFINE st == [k \in DagNode |->
               IF k = n THEN status
               ELSE IF /\ status = "FAILED" /\ nodeStatus[k] = "PENDING"
                       /\ k \in DoomedBy(n)
               THEN "CANCELLED" ELSE nodeStatus[k]]
  <2>1. /\ nodeStatus[n] = "SCHEDULED" /\ IdleAt(s)
        /\ BeginPass(s, TRUE, st, runningJobs \ {n}, dagStatus)
        /\ UNCHANGED <<serial, maxParallel, edge>>
    BY <1>5 DEF Notify, Reportable
  <2>2. /\ st \in [DagNode -> NodeStatus]
        /\ \A k \in DagNode : nodeStatus[k] \in Settled => st[k] = nodeStatus[k]
        /\ \A k \in DagNode : st[k] = "PENDING" => nodeStatus[k] = "PENDING"
    BY <1>0, <2>1 DEF NodeStatus, Settled
  <2>3. serial => dagStatus \notin {"SUCCEEDED", "FAILED", "PARTIAL"}
    BY <2>1 DEF DagInv, SerialInv, OverIsIdle, Settled
  <2>4. runningJobs \ {n} \in SUBSET DagNode
    BY <1>0
  <2> HIDE DEF st
  <2> QED BY <1>0, <2>1, <2>2, <2>3, <2>4, BeginPassKeeps
<1>6. CASE UNCHANGED dagVars
  <2>1. DagTypeOK'
    BY <1>6 DEF dagVars, DagInv, DagTypeOK
  <2>2. /\ UNCHANGED <<serial, edge, dagStatus, nodeStatus, submissions, pass>>
        /\ \A n : ParentsAllow(n, nodeStatus)' = ParentsAllow(n, nodeStatus)
        /\ \A n : ChildrenOf(n)' = ChildrenOf(n)
        /\ \A s : Awaited(s)' = Awaited(s)
    BY <1>6 DEF dagVars, ParentsAllow, Parents, ChildrenOf, Awaited
  <2>3. (NodesInOrder(nodeStatus) => NodesInOrder(nodeStatus)')
        /\ (OnePass => OnePass') /\ (OverIsIdle => OverIsIdle')
    BY <2>2 DEF NodesInOrder, OnePass, OverIsIdle
  <2>4. ASSUME NEW s \in Pass, ListSound(s) PROVE ListSound(s)'
    BY <2>2, <2>4 DEF ListSound, Untouched
  <2>5. SerialInv'
    BY <2>2, <2>3, <2>4 DEF DagInv, SerialInv
  <2> QED BY <2>1, <2>5 DEF DagInv
<1> QED BY <1>1, <1>2, <1>3, <1>4, <1>5, <1>6 DEF DagNext, PassMoves, NotifyOf

LEMMA DagInvImplies == DagInv => DagTypeOK /\ SubmittedInOrder /\ OverIsOver
<1>1. NodesInOrder(nodeStatus) =>
        \A n \in DagNode :
          /\ submissions[n] <= 1
          /\ submissions[n] = 1 => \A p \in Parents(n) : Allows(edge[p, n], nodeStatus[p])
  <2>1. \A n \in DagNode : submissions[n] \in {0, 1} => submissions[n] <= 1
    OBVIOUS
  <2> QED BY <2>1, Zenon DEF NodesInOrder, ParentsAllow
<1>2. DagInv => SubmittedInOrder
  BY <1>1, Zenon DEF DagInv, SerialInv, SubmittedInOrder
<1>3. DagInv => DagTypeOK /\ OverIsOver
  BY DEF DagInv, SerialInv, OverIsIdle, OverIsOver
<1> QED BY <1>2, <1>3

LEMMA DagInvariant == DagSpec => []DagInv
BY InitKeepsDagInv, StepKeepsDagInv, PTL DEF DagSpec

\* Every state of a graph and its passes is type-correct, with any number of
\* passes at a time.
THEOREM DagTypeCorrect == DagSpec => []DagTypeOK
BY DagInvariant, DagInvImplies, PTL

\* _schedule_ready_jobs submits no node before its parents ended the way its
\* edges ask, nor twice, for every graph and limit.
THEOREM DagSubmitsInOrder == DagSpec => []SubmittedInOrder
BY DagInvariant, DagInvImplies, PTL

\* _check_dag_completion calls a graph over only when no node waits or runs.
THEOREM DagOverIsOver == DagSpec => []OverIsOver
BY DagInvariant, DagInvImplies, PTL
=============================================================================
