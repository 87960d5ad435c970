-------------------------- MODULE HAElectionProofs --------------------------
(***************************************************************************)
(* Theorems about HAElection for any number of masters, peers and          *)
(* deference: what holds whatever overlaps, and what holds when one        *)
(* election runs at a time between masters that all know each other.       *)
(***************************************************************************)
EXTENDS HAElection, TLAPS

\* A master that announces has a leader to announce.
AnnouncersKnowALeader ==
  \A m \in Master : phase[m] = "announcing" => leader[m] # None

\* The inductive invariant of Spec.
ElectionInv ==
  /\ TypeOK
  /\ AnnouncersKnowALeader
  /\ LeaderKnowsItself
  /\ SchedulerOnlyWhenActive

LEMMA NextTermType == \A t \in 0 .. MaxTerm : NextTerm(t) \in 0 .. MaxTerm
  BY BoundsAreNat DEF NextTerm

LEMMA InitInv == Init => ElectionInv
  BY BoundsAreNat, MastersAreNumbers
  DEF Init, ElectionInv, TypeOK, AnnouncersKnowALeader, LeaderKnowsItself,
      SchedulerOnlyWhenActive, LeaderInfo, Announcement

\* The handler of an announcement, whoever delivers it.
LEMMA HearKeepsInv ==
  ASSUME ElectionInv, NEW p \in Master, NEW info \in LeaderInfo, Hear(p, info),
         UNCHANGED <<mode, seen, election, crashes>>,
         out' \in [Master -> Announcement \cup {None}],
         late' \subseteq Announcement
  PROVE  ElectionInv'
<1>. DEFINE deposed == info.id # p /\ role[p] = "LEADER"
<1>. USE DEF ElectionInv, TypeOK, election
<1>1. /\ info.id \in Master /\ info.term \in 0 .. MaxTerm
  BY DEF LeaderInfo
<1>2. \A s \in {"off", "on", "stopping"} :
        StopScheduler(s) \in {"off", "stopping"}
  BY DEF StopScheduler
<1>3. TypeOK'
  BY <1>1, <1>2 DEF Hear
<1>4. AnnouncersKnowALeader'
  BY NoneIsNew DEF Hear, AnnouncersKnowALeader
<1>5. LeaderKnowsItself'
  BY NoneIsNew DEF Hear, LeaderKnowsItself
<1>6. SchedulerOnlyWhenActive'
  BY <1>2 DEF Hear, SchedulerOnlyWhenActive
<1>. QED  BY <1>3, <1>4, <1>5, <1>6

\* The start of an election, whatever triggers it.
LEMMA BeginKeepsInv ==
  ASSUME ElectionInv, NEW m \in Master, BeginElection(m),
         UNCHANGED <<leader, seen, out, late, active, sched, crashes>>,
         mode' \in [Master -> {"down", "booting", "serving"}],
         wake' \in [Master -> BOOLEAN]
  PROVE  ElectionInv'
<1>. USE DEF ElectionInv, TypeOK
<1>1. TypeOK'
  BY NextTermType, PeersAreOthers DEF BeginElection
<1>2. AnnouncersKnowALeader'
  BY DEF BeginElection, AnnouncersKnowALeader
<1>3. LeaderKnowsItself'
  BY DEF BeginElection, LeaderKnowsItself
<1>4. SchedulerOnlyWhenActive'
  BY DEF SchedulerOnlyWhenActive
<1>. QED  BY <1>1, <1>2, <1>3, <1>4

LEMMA StepKeepsInv == ElectionInv /\ [Next]_vars => ElectionInv'
<1>. SUFFICES ASSUME ElectionInv, [Next]_vars PROVE ElectionInv'
  OBVIOUS
<1>. USE DEF ElectionInv
<1>1. ASSUME NEW m \in Master, Boot(m) PROVE ElectionInv'
  BY <1>1, BeginKeepsInv DEF Boot, TypeOK
<1>2. ASSUME NEW m \in Master, Timeout(m) PROVE ElectionInv'
  BY <1>2, BeginKeepsInv DEF Timeout, TypeOK
<1>3. ASSUME NEW m \in Master, PeerUnhealthy(m) PROVE ElectionInv'
  BY <1>3, BeginKeepsInv DEF PeerUnhealthy, TypeOK
<1>4. ASSUME NEW m \in Master, Woken(m) PROVE ElectionInv'
  <2>1. wake' \in [Master -> BOOLEAN]
    BY <1>4 DEF Woken, TypeOK
  <2>2. CASE phase[m] = "idle"
    BY <1>4, <2>1, <2>2, BeginKeepsInv DEF Woken, TypeOK
  <2>3. CASE phase[m] # "idle"
    BY <1>4, <2>1, <2>3
    DEF Woken, TypeOK, AnnouncersKnowALeader, LeaderKnowsItself,
        SchedulerOnlyWhenActive
  <2>. QED  BY <2>2, <2>3
<1>5. ASSUME NEW m \in Master, Crash(m) PROVE ElectionInv'
  <2>. USE <1>5 DEF Crash
  <2>1. TypeOK'
    BY BoundsAreNat DEF TypeOK
  <2>2. AnnouncersKnowALeader'
    BY DEF AnnouncersKnowALeader, TypeOK
  <2>3. LeaderKnowsItself'
    BY DEF LeaderKnowsItself, TypeOK
  <2>4. SchedulerOnlyWhenActive'
    BY DEF SchedulerOnlyWhenActive, TypeOK
  <2>. QED  BY <2>1, <2>2, <2>3, <2>4
<1>6. ASSUME NEW m \in Master, NEW p \in Master, Discover(m, p)
      PROVE  ElectionInv'
  BY <1>6
  DEF Discover, election, TypeOK, AnnouncersKnowALeader, LeaderKnowsItself,
      SchedulerOnlyWhenActive
<1>7. ASSUME NEW m \in Master, NEW p \in Master, Ask(m, p) \/ AskInVain(m, p)
      PROVE  ElectionInv'
  <2>. DEFINE b == wake[p] \/ p > m
  <2>1. b \in BOOLEAN
    OBVIOUS
  <2>2. \/ wake' = wake \/ wake' = [wake EXCEPT ![p] = b]
        \/ wake' = [wake EXCEPT ![p] = TRUE]
    BY <1>7 DEF Ask, AskInVain
  <2>. HIDE DEF b
  <2>3. wake' \in [Master -> BOOLEAN]
    BY <2>1, <2>2 DEF TypeOK
  <2>4. answered' \in [Master -> BOOLEAN]
    BY <1>7 DEF Ask, AskInVain, TypeOK
  <2>5. togo' \in [Master -> SUBSET Master]
    BY <1>7 DEF Ask, AskInVain, TypeOK
  <2>6. UNCHANGED <<mode, role, term, leader, seen, phase, out, late, active,
                    sched, crashes>>
    BY <1>7 DEF Ask, AskInVain
  <2>. QED
    BY <2>3, <2>4, <2>5, <2>6
    DEF TypeOK, AnnouncersKnowALeader, LeaderKnowsItself,
        SchedulerOnlyWhenActive
<1>8. ASSUME NEW m \in Master, GiveWay(m) PROVE ElectionInv'
  BY <1>8
  DEF GiveWay, ServeNow, TypeOK, AnnouncersKnowALeader, LeaderKnowsItself,
      SchedulerOnlyWhenActive
<1>9. ASSUME NEW m \in Master, BecomeLeader(m) PROVE ElectionInv'
  <2>. USE <1>9 DEF BecomeLeader
  <2>. DEFINE me == [id |-> m, term |-> term[m]]
  <2>1. me \in LeaderInfo /\ me # None /\ me.id = m
    BY NoneIsNew DEF TypeOK, LeaderInfo
  <2>2. leader' = [leader EXCEPT ![m] = me]
    OBVIOUS
  <2>. HIDE DEF me
  <2>3. TypeOK'
    BY <2>1, <2>2, PeersAreOthers DEF TypeOK
  <2>4. AnnouncersKnowALeader'
    BY <2>1, <2>2 DEF AnnouncersKnowALeader, TypeOK
  <2>5. LeaderKnowsItself'
    BY <2>1, <2>2 DEF LeaderKnowsItself, TypeOK
  <2>6. SchedulerOnlyWhenActive'
    BY DEF SchedulerOnlyWhenActive
  <2>. QED  BY <2>3, <2>4, <2>5, <2>6
<1>10. ASSUME NEW m \in Master, NEW p \in Master, Announce(m, p)
       PROVE  ElectionInv'
  <2>. USE <1>10 DEF Announce
  <2>1. [to |-> p, info |-> leader[m]] \in Announcement
    BY DEF TypeOK, AnnouncersKnowALeader, Announcement
  <2>2. TypeOK'
    BY <2>1 DEF TypeOK
  <2>. QED
    BY <2>2 DEF AnnouncersKnowALeader, LeaderKnowsItself, SchedulerOnlyWhenActive
<1>11. ASSUME NEW m \in Master, Deliver(m) PROVE ElectionInv'
  <2>1. out[m] \in Announcement
    BY <1>11 DEF Deliver, TypeOK
  <2>2. out[m].to \in Master /\ out[m].info \in LeaderInfo
    BY <2>1 DEF Announcement
  <2>3. out' \in [Master -> Announcement \cup {None}] /\ late' \subseteq Announcement
    BY <1>11 DEF Deliver, TypeOK
  <2>. QED  BY <1>11, <2>2, <2>3, HearKeepsInv DEF Deliver
<1>12. ASSUME NEW m \in Master, GiveUp(m) PROVE ElectionInv'
  <2>1. TypeOK'
    BY <1>12 DEF GiveUp, TypeOK, election
  <2>. QED
    BY <1>12, <2>1
    DEF GiveUp, election, AnnouncersKnowALeader, LeaderKnowsItself,
        SchedulerOnlyWhenActive
<1>13. ASSUME NEW x \in late, DeliverLate(x) PROVE ElectionInv'
  <2>1. x.to \in Master /\ x.info \in LeaderInfo
    BY DEF TypeOK, Announcement
  <2>2. out' \in [Master -> Announcement \cup {None}] /\ late' \subseteq Announcement
    BY <1>13 DEF DeliverLate, TypeOK
  <2>. QED  BY <1>13, <2>1, <2>2, HearKeepsInv DEF DeliverLate
<1>14. ASSUME NEW m \in Master, TakeOffice(m) PROVE ElectionInv'
  <2>. USE <1>14 DEF TakeOffice, ServeNow
  <2>1. \A s \in {"off", "on", "stopping"} :
          StartScheduler(s) \in {"off", "on", "stopping"}
    BY DEF StartScheduler
  <2>2. TypeOK'
    BY <2>1 DEF TypeOK
  <2>3. AnnouncersKnowALeader' /\ LeaderKnowsItself'
    BY DEF TypeOK, AnnouncersKnowALeader, LeaderKnowsItself
  <2>4. SchedulerOnlyWhenActive'
    BY DEF TypeOK, SchedulerOnlyWhenActive
  <2>. QED  BY <2>2, <2>3, <2>4
<1>15. ASSUME NEW m \in Master, SchedulerStopped(m) PROVE ElectionInv'
  BY <1>15
  DEF SchedulerStopped, election, TypeOK, AnnouncersKnowALeader,
      LeaderKnowsItself, SchedulerOnlyWhenActive
<1>16. ASSUME NEW m \in Master, NEW p \in Master, Heartbeat(m, p)
       PROVE  ElectionInv'
  BY <1>16
  DEF Heartbeat, election, TypeOK, AnnouncersKnowALeader, LeaderKnowsItself,
      SchedulerOnlyWhenActive
<1>17. CASE UNCHANGED vars
  BY <1>17
  DEF vars, TypeOK, AnnouncersKnowALeader, LeaderKnowsItself,
      SchedulerOnlyWhenActive
<1>. QED
  BY <1>1, <1>2, <1>3, <1>4, <1>5, <1>6, <1>7, <1>8, <1>9, <1>10, <1>11, <1>12,
     <1>13, <1>14, <1>15, <1>16, <1>17
  DEF Next, ElectionStep

LEMMA InvariantHolds == Spec => []ElectionInv
  BY InitInv, StepKeepsInv, PTL DEF Spec

\* Every state of the masters is type-correct: whatever is announced, late or
\* not, names a leader.
THEOREM TypeCorrect == Spec => []TypeOK
  BY InvariantHolds, PTL DEF ElectionInv

\* A leader takes nobody else for the leader, whatever announcements cross its
\* own election.
THEOREM LeadersKnowThemselves == Spec => []LeaderKnowsItself
  BY InvariantHolds, PTL DEF ElectionInv

\* No scheduler runs on in a master that gave up its office.
THEOREM SchedulersStopWithOffice == Spec => []SchedulerOnlyWhenActive
  BY InvariantHolds, PTL DEF ElectionInv

----------------------------------------------------------------------------
\* One election at a time, between masters that all know each other.

OneRunner ==
  /\ late = {}
  /\ \A m \in Master : ~ wake[m]
  /\ \A m, n \in Master : phase[m] # "idle" /\ phase[n] # "idle" => m = n

\* Nobody takes the runner's lead away while it announces it.
AnnouncerLeads ==
  \A m \in Master :
    /\ phase[m] = "announcing" =>
         role[m] = "LEADER" /\ leader[m].id = m /\ m \notin togo[m]
    /\ out[m] # None =>
         phase[m] = "announcing" /\ out[m].info.id = m /\ out[m].to # m

\* Whoever else is active is still going to hear of the runner's lead.
ToldInTime ==
  \A m, p \in Master :
    phase[m] = "announcing" /\ active[p] /\ p # m =>
      p \in togo[m] \/ (out[m] # None /\ out[m].to = p)

\* Only a master that is up runs for office, only one that serves requests is
\* active.
ActiveServe ==
  \A m \in Master :
    /\ active[m] => mode[m] = "serving"
    /\ phase[m] # "idle" => mode[m] # "down"

\* A scheduler that is being stopped is the scheduler of a bystander.
StoppingIsOver ==
  \A m \in Master : sched[m] = "stopping" => ~ active[m] /\ phase[m] = "idle"

OrderInv ==
  /\ ElectionInv
  /\ OneRunner /\ AnnouncerLeads /\ ToldInTime /\ ActiveServe /\ StoppingIsOver
  /\ OneActive /\ StandbyIsPassive /\ ActiveMeansScheduling

EveryoneKnown == \A m \in Master : Peers[m] = Master \ {m}

LEMMA OrderlyIsNext == ElectionInv /\ [OrderlyNext]_vars => ElectionInv'
  BY StepKeepsInv DEF OrderlyNext, Next, ElectionStep

LEMMA InitOrder == Init => OrderInv
  BY InitInv
  DEF Init, OrderInv, OneRunner, AnnouncerLeads, ToldInTime, ActiveServe,
      StoppingIsOver, OneActive, StandbyIsPassive, ActiveMeansScheduling

LEMMA OrderlyBegin ==
  ASSUME OrderInv, NEW m \in Master, Calm, BeginElection(m),
         UNCHANGED <<leader, seen, wake, out, late, active, sched, crashes>>,
         \/ mode' = mode /\ mode[m] # "down"
         \/ mode[m] = "down" /\ mode' = [mode EXCEPT ![m] = "booting"],
         ElectionInv'
  PROVE  OrderInv'
<1>. USE DEF OrderInv, ElectionInv, TypeOK, Calm, BeginElection
<1>1. \A n \in Master : out[n] = None
  BY DEF AnnouncerLeads
<1>2. OneRunner'
  BY DEF OneRunner
<1>3. AnnouncerLeads'
  BY <1>1 DEF AnnouncerLeads
<1>4. ToldInTime'
  BY DEF ToldInTime
<1>5. ActiveServe'
  BY DEF ActiveServe
<1>6. StoppingIsOver'
  BY DEF StoppingIsOver
<1>7. OneActive' /\ ActiveMeansScheduling'
  BY DEF OneActive, ActiveMeansScheduling
<1>8. StandbyIsPassive'
  BY DEF StandbyIsPassive
<1>. QED  BY <1>2, <1>3, <1>4, <1>5, <1>6, <1>7, <1>8

LEMMA OrderlyDeliver ==
  ASSUME OrderInv, NEW m \in Master, Deliver(m), ElectionInv'
  PROVE  OrderInv'
<1>. DEFINE p == out[m].to
            info == out[m].info
<1>. USE DEF OrderInv, ElectionInv, TypeOK
<1>1. /\ p \in Master /\ p # m /\ info.id = m
      /\ phase[m] = "announcing" /\ phase[p] = "idle"
  BY NoneIsNew DEF Deliver, AnnouncerLeads, Announcement, OneRunner
<1>2. Hear(p, info) /\ out' = [out EXCEPT ![m] = None]
  BY DEF Deliver
<1>3. UNCHANGED <<mode, seen, wake, phase, togo, answered, late, crashes>>
  BY DEF Deliver, election
<1>. HIDE DEF p, info
<1>4. /\ role' = [role EXCEPT ![p] = "FOLLOWER"]
      /\ leader' = [leader EXCEPT ![p] = info]
  BY <1>1, <1>2 DEF Hear
<1>5. active' = [active EXCEPT ![p] = FALSE]
  <2>1. active'[p] = FALSE
    <3>1. active[p] => role[p] = "LEADER"
      BY <1>1 DEF StandbyIsPassive
    <3>2. active' = [active EXCEPT
                       ![p] = @ /\ ~ (info.id # p /\ role[p] = "LEADER")]
      BY <1>2 DEF Hear
    <3>3. active'[p] = (active[p] /\ ~ (info.id # p /\ role[p] = "LEADER"))
      BY <1>1, <3>2 DEF TypeOK
    <3>. QED  BY <1>1, <3>1, <3>3
  <2>2. active' \in [Master -> BOOLEAN]
    OBVIOUS
  <2>3. \A q \in Master : q # p => active'[q] = active[q]
    BY <1>2 DEF Hear
  <2>. QED  BY <2>1, <2>2, <2>3
<1>6. \A q \in Master : q # p => sched'[q] = sched[q]
  BY <1>2 DEF Hear
<1>7. OneRunner'
  BY <1>3 DEF OneRunner
<1>8. AnnouncerLeads'
  BY <1>1, <1>2, <1>3, <1>4 DEF AnnouncerLeads, OneRunner
<1>9. ToldInTime'
  BY <1>1, <1>2, <1>3, <1>5 DEF ToldInTime, OneRunner, p
<1>10. ActiveServe' /\ OneActive'
  BY <1>1, <1>3, <1>5 DEF ActiveServe, OneActive
<1>11. StoppingIsOver' /\ ActiveMeansScheduling'
  BY <1>1, <1>3, <1>5, <1>6 DEF StoppingIsOver, ActiveMeansScheduling
<1>12. StandbyIsPassive'
  BY <1>1, <1>3, <1>4, <1>5 DEF StandbyIsPassive
<1>. QED  BY <1>7, <1>8, <1>9, <1>10, <1>11, <1>12

LEMMA OrderlyStep ==
  ASSUME EveryoneKnown
  PROVE  OrderInv /\ [OrderlyNext]_vars => OrderInv'
<1>. SUFFICES ASSUME OrderInv, [OrderlyNext]_vars PROVE OrderInv'
  OBVIOUS
<1>0. ElectionInv'
  BY OrderlyIsNext DEF OrderInv
<1>. USE DEF OrderInv, ElectionInv, TypeOK
<1>1. ASSUME NEW m \in Master, Calm,
             Boot(m) \/ PeerUnhealthy(m) \/ Timeout(m)
      PROVE  OrderInv'
  BY <1>0, <1>1, OrderlyBegin DEF Boot, PeerUnhealthy, Timeout
<1>2. ASSUME NEW m \in Master, Calm, Crash(m) PROVE OrderInv'
  <2>. USE <1>2 DEF Calm, Crash
  <2>1. late' = {}
    OBVIOUS
  <2>2. OneRunner' /\ AnnouncerLeads'
    BY <2>1 DEF OneRunner, AnnouncerLeads
  <2>3. ToldInTime' /\ ActiveServe' /\ StoppingIsOver'
    BY DEF ToldInTime, ActiveServe, StoppingIsOver
  <2>4. OneActive' /\ StandbyIsPassive' /\ ActiveMeansScheduling'
    BY DEF OneActive, StandbyIsPassive, ActiveMeansScheduling
  <2>. QED  BY <1>0, <2>2, <2>3, <2>4
<1>3. ASSUME NEW m \in Master, BecomeLeader(m) PROVE OrderInv'
  <2>. USE <1>3 DEF BecomeLeader
  <2>1. OneRunner' /\ ActiveServe' /\ StoppingIsOver'
    BY DEF OneRunner, ActiveServe, StoppingIsOver
  <2>2. leader'[m].id = m /\ \A n \in Master : n # m => leader'[n] = leader[n]
    OBVIOUS
  <2>3. AnnouncerLeads'
    BY <2>2, EveryoneKnown DEF AnnouncerLeads, EveryoneKnown
  <2>4. ToldInTime'
    BY EveryoneKnown DEF ToldInTime, EveryoneKnown, OneRunner
  <2>5. OneActive' /\ StandbyIsPassive' /\ ActiveMeansScheduling'
    BY DEF OneActive, StandbyIsPassive, ActiveMeansScheduling
  <2>. QED  BY <1>0, <2>1, <2>3, <2>4, <2>5
<1>4. ASSUME NEW m \in Master, NEW p \in Master, Announce(m, p) PROVE OrderInv'
  <2>. USE <1>4 DEF Announce
  <2>1. OneRunner' /\ ActiveServe' /\ StoppingIsOver'
    BY DEF OneRunner, ActiveServe, StoppingIsOver
  <2>2. p # m
    BY DEF AnnouncerLeads
  <2>3. out'[m].to = p /\ out'[m].info = leader[m] /\ out'[m] # None
    BY NoneIsNew DEF Announcement, AnnouncersKnowALeader
  <2>4. AnnouncerLeads'
    BY <2>2, <2>3 DEF AnnouncerLeads
  <2>5. ToldInTime'
    BY <2>2, <2>3 DEF ToldInTime
  <2>6. OneActive' /\ StandbyIsPassive' /\ ActiveMeansScheduling'
    BY DEF OneActive, StandbyIsPassive, ActiveMeansScheduling
  <2>. QED  BY <1>0, <2>1, <2>4, <2>5, <2>6
<1>5. ASSUME NEW m \in Master, Deliver(m) PROVE OrderInv'
  BY <1>0, <1>5, OrderlyDeliver
<1>6. ASSUME NEW m \in Master, mode[out[m].to] # "serving", GiveUp(m)
      PROVE  OrderInv'
  <2>. USE <1>6 DEF GiveUp, election
  <2>1. out[m] # None /\ out' = [out EXCEPT ![m] = None] /\ late' = late
    OBVIOUS
  <2>2. out[m].to \in Master /\ ~ active[out[m].to]
    BY <2>1 DEF ActiveServe, Announcement
  <2>3. OneRunner' /\ ActiveServe' /\ StoppingIsOver'
    BY <2>1 DEF OneRunner, ActiveServe, StoppingIsOver
  <2>4. AnnouncerLeads'
    BY <2>1 DEF AnnouncerLeads
  <2>5. ToldInTime'
    BY <2>1, <2>2 DEF ToldInTime
  <2>6. OneActive' /\ StandbyIsPassive' /\ ActiveMeansScheduling'
    BY DEF OneActive, StandbyIsPassive, ActiveMeansScheduling
  <2>. QED  BY <1>0, <2>3, <2>4, <2>5, <2>6
<1>7. ASSUME NEW m \in Master, TakeOffice(m) PROVE OrderInv'
  <2>. USE <1>7 DEF TakeOffice, ServeNow
  <2>1. \A p \in Master : p # m => ~ active[p]
    BY DEF ToldInTime
  <2>2. sched'[m] = "on" /\ role[m] = "LEADER" /\ mode'[m] = "serving"
    BY DEF StoppingIsOver, StartScheduler, AnnouncerLeads, ActiveServe
  <2>3. OneRunner'
    BY DEF OneRunner
  <2>4. AnnouncerLeads' /\ ToldInTime'
    BY DEF AnnouncerLeads, ToldInTime, OneRunner
  <2>5. ActiveServe' /\ StoppingIsOver'
    BY <2>2 DEF ActiveServe, StoppingIsOver
  <2>6. OneActive'
    BY <2>1 DEF OneActive
  <2>7. StandbyIsPassive' /\ ActiveMeansScheduling'
    BY <2>2 DEF StandbyIsPassive, ActiveMeansScheduling
  <2>. QED  BY <1>0, <2>3, <2>4, <2>5, <2>6, <2>7
<1>8. ASSUME NEW m \in Master, SchedulerStopped(m) PROVE OrderInv'
  BY <1>0, <1>8
  DEF SchedulerStopped, election, OneRunner, AnnouncerLeads, ToldInTime,
      ActiveServe, StoppingIsOver, OneActive, StandbyIsPassive,
      ActiveMeansScheduling
<1>9. ASSUME NEW m \in Master, NEW p \in Master, Heartbeat(m, p)
      PROVE  OrderInv'
  BY <1>0, <1>9
  DEF Heartbeat, election, OneRunner, AnnouncerLeads, ToldInTime,
      ActiveServe, StoppingIsOver, OneActive, StandbyIsPassive,
      ActiveMeansScheduling
<1>10. CASE UNCHANGED vars
  BY <1>0, <1>10
  DEF vars, OneRunner, AnnouncerLeads, ToldInTime, ActiveServe, StoppingIsOver,
      OneActive, StandbyIsPassive, ActiveMeansScheduling
<1>. QED
  BY <1>1, <1>2, <1>3, <1>4, <1>5, <1>6, <1>7, <1>8, <1>9, <1>10
  DEF OrderlyNext

LEMMA OrderHolds == ASSUME EveryoneKnown PROVE OrderlySpec => []OrderInv
  BY InitOrder, OrderlyStep, PTL DEF OrderlySpec

\* If every master knows all others and one election runs at a time, at most one
\* master accepts jobs, for any number of masters and any crashes in between.
THEOREM OneActiveWhenOrderly ==
  ASSUME EveryoneKnown PROVE OrderlySpec => []OneActive
  BY OrderHolds, PTL DEF OrderInv

\* Under the same discipline the masters that settled as followers are passive.
THEOREM StandbysPassiveWhenOrderly ==
  ASSUME EveryoneKnown PROVE OrderlySpec => []StandbyIsPassive
  BY OrderHolds, PTL DEF OrderInv

\* Under the same discipline the active master has a scheduler.
THEOREM ActiveSchedulesWhenOrderly ==
  ASSUME EveryoneKnown PROVE OrderlySpec => []ActiveMeansScheduling
  BY OrderHolds, PTL DEF OrderInv
=============================================================================
