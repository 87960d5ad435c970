------------------------- MODULE ClusterRoundProofs -------------------------
(***************************************************************************)
(* Proofs about the rounds of the scheduler in ClusterState: what a round  *)
(* that has passed a job over owes it, and that no worker is given more    *)
(* than it has, for any jobs, workers, resources and limits and whichever  *)
(* candidate the policy picks.                                             *)
(***************************************************************************)
EXTENDS ClusterStateProofs, FiniteSetTheorems, WellFoundedInduction

\* A round chooses in order: whoever has a worker goes before whoever waits.
ChosenGoFirst == \A i \in todo, k \in Chosen : Before(k, i)

RoundInv ==
  /\ MasterInv
  /\ RoundIsMaximal
  /\ ChosenGoFirst
  /\ NoPriorityInversion

LEMMA NeedTyped ==
  ASSUME MasterInv, NEW j \in Job, jstatus[j] # "ABSENT"
  PROVE  sub[j].need \in Vector /\ sub[j].prio \in Int
BY InputsTyped DEF MasterInv, RecordsExist, Submission

\* Before orders two jobs one way only.
LEMMA BeforeOneWay ==
  ASSUME NEW i \in Job, NEW j \in Job, sub[i].prio \in Int, sub[j].prio \in Int,
         Before(i, j)
  PROVE  ~ Before(j, i)
BY DEF Before, Job

\* A candidate, by whichever branch of _filter_candidates.
LEMMA NoCandidate ==
  ASSUME NEW j, Candidates(j) = {}, NEW w \in Worker, Suits(j, w),
         sub[j].docker => reg[w].docker
  PROVE  FALSE
BY DEF Candidates

\* The handlers wait for the round to end, and it then has passed nobody over.
LEMMA IdleHolds ==
  ASSUME MasterInv', Idle'
  PROVE  RoundInv'
<1>1. PassedOver' = {} /\ Chosen' = {} /\ todo' = {}
  BY DEF PassedOver, Chosen, Idle
<1> QED BY <1>1 DEF RoundInv, RoundIsMaximal, ChosenGoFirst, NoPriorityInversion

\* Taking resources leaves less of each.
LEMMA AllocateShrinks ==
  ASSUME NEW free \in Vector, NEW need \in Vector, NEW r \in Resource
  PROVE  Allocate(free, need)[r] <= free[r]
BY DEF Allocate, Vector

\* What suits a job after a placement suited it before: the worker that got the
\* job placed could take one, and the others have not changed.
LEMMA SuitedBefore ==
  ASSUME MasterInv, NEW j \in Job, NEW w \in Worker, Place(j, w),
         NEW k \in Job, jstatus[k] = "PENDING", NEW v \in Worker, Suits(k, v)'
  PROVE  Suits(k, v)
<1> USE DEF Place
<1>1. CASE v # w
  <2>1. active'[v] = active[v] /\ avail'[v] = avail[v]
    BY <1>1 DEF MasterInv, TypeOK
  <2>2. CanAcceptJobs(v) /\ ActiveCount(v) < MaxJobsPerWorker
    BY <2>1 DEF Suits, CanAcceptJobs, IsHealthy, ActiveCount, workerVars
  <2> QED BY <2>1, <2>2 DEF Suits, jobVars, FitsIn
<1>2. CASE v = w
  <2>1. CanAcceptJobs(w) /\ ActiveCount(w) < MaxJobsPerWorker
    BY CandidateSuits DEF Suits
  <2>2. FitsIn(sub[k].need, avail[w])
    <3>1. sub[j].need \in Vector /\ sub[k].need \in Vector
      BY NeedTyped DEF MasterInv, RoundSound, IsNext
    <3>2. avail[w] \in Vector
      BY DEF MasterInv, TypeOK
    <3>3. avail'[w] = Allocate(avail[w], sub[j].need)
      BY DEF MasterInv, TypeOK
    <3>4. \A r \in Resource : sub[k].need[r] <= Allocate(avail[w], sub[j].need)[r]
      BY <1>2, <3>3 DEF Suits, FitsIn, jobVars
    <3>5. ASSUME NEW r \in Resource
          PROVE  sub[k].need[r] <= avail[w][r]
      <4>1. Allocate(avail[w], sub[j].need)[r] <= avail[w][r]
        BY <3>1, <3>2, AllocateShrinks
      <4>2. /\ sub[k].need[r] \in Nat /\ avail[w][r] \in Nat
            /\ Allocate(avail[w], sub[j].need)[r] \in Int
        BY <3>1, <3>2 DEF Vector, Allocate
      <4> QED BY <3>4, <4>1, <4>2
    <3> QED BY <3>5 DEF FitsIn
  <2>3. sub[k].tags \subseteq reg[w].tags
    BY <1>2 DEF Suits, jobVars
  <2> QED BY <1>2, <2>1, <2>2, <2>3 DEF Suits
<1> QED BY <1>1, <1>2

LEMMA PlaceKeepsOthersOut ==
  ASSUME MasterInv, NEW j \in Job, NEW w \in Worker, Place(j, w),
         NEW k \in Job, jstatus[k] = "PENDING", Candidates(k) = {}
  PROVE  Candidates(k)' = {}
<1>1. sub[k] \in Submission
  BY InputsTyped DEF MasterInv, RecordsExist
<1>2. sub[k].prefer # None => sub[k].prefer \in Worker
  BY <1>1 DEF Submission
<1>3. sub' = sub /\ reg' = reg
  BY DEF Place, jobVars
<1>4. \A v \in Worker : Suits(k, v)' => Suits(k, v)
  BY SuitedBefore
<1>5. \A v \in Worker : Suits(k, v) => ~ (sub[k].docker => reg[v].docker)
  BY NoCandidate
<1> USE DEF Suits, CanAcceptJobs, IsHealthy, ActiveCount
<1>6. ~ (sub[k].prefer # None /\ Suits(k, sub[k].prefer)')
  BY <1>2, <1>3, <1>4 DEF Candidates
<1> QED BY <1>3, <1>4, <1>5, <1>6 DEF Candidates

----------------------------------------------------------------------------
\* Placing a job.

LEMMA PlaceRoundStep ==
  ASSUME RoundInv, MasterInv', NEW j \in Job, NEW w \in Worker, Place(j, w)
  PROVE  RoundInv'
<1> USE DEF RoundInv
<1>1. /\ sub' = sub /\ jstatus' = jstatus /\ reg' = reg
      /\ todo' = todo \ {j} /\ j \in todo
      /\ decided' = [decided EXCEPT ![j] = w]
      /\ decided'[j] = w
      /\ \A k \in Job \ {j} : decided'[k] = decided[k]
  BY DEF Place, IsNext, jobVars, MasterInv, TypeOK
<1>2. PassedOver' \subseteq PassedOver
  <2>1. ~ Idle
    BY <1>1 DEF Idle
  <2>2. w # None
    BY NoneIsNew DEF Worker
  <2> QED BY <1>1, <2>1, <2>2 DEF PassedOver, Pending
<1>3. Chosen' \subseteq Chosen \cup {j}
  BY <1>1 DEF Chosen
<1>4. RoundIsMaximal'
  <2>1. \A k \in PassedOver : jstatus[k] = "PENDING" /\ k \in Job
    BY DEF PassedOver, Pending
  <2>2. \A k \in PassedOver : Candidates(k)' = {}
    BY <2>1, PlaceKeepsOthersOut DEF RoundIsMaximal
  <2> QED BY <1>2, <2>2 DEF RoundIsMaximal
<1>5. ChosenGoFirst'
  <2>1. \A i \in todo \ {j} : Before(j, i)
    BY DEF Place, IsNext
  <2>2. \A i, k \in Job : Before(k, i)' <=> Before(k, i)
    BY <1>1 DEF Before
  <2>3. todo \subseteq Job
    BY DEF MasterInv, TypeOK
  <2> QED BY <1>1, <1>3, <2>1, <2>2, <2>3 DEF ChosenGoFirst, Chosen
<1>6. NoPriorityInversion'
  <2> DEFINE room(k) == [r \in Resource |->
                           avail'[decided'[k]][r] + sub[k].need[r]]
  <2> SUFFICES ASSUME NEW i \in PassedOver, NEW k \in Chosen', Before(i, k),
                      FitsIn(sub[i].need, room(k)),
                      sub[i].tags \subseteq reg[decided'[k]].tags,
                      sub[i].docker => reg[decided'[k]].docker
               PROVE  FALSE
    <3>1. \A i, k \in Job : Before(i, k)' <=> Before(i, k)
      BY <1>1 DEF Before
    <3>2. PassedOver' \subseteq Job /\ Chosen' \subseteq Job
      BY DEF PassedOver, Pending, Chosen
    <3> QED BY <1>1, <1>2, <3>1, <3>2 DEF NoPriorityInversion, FitsIn
  <2>1. i \in Job /\ k \in Job /\ jstatus[i] = "PENDING" /\ Candidates(i) = {}
    BY DEF PassedOver, Pending, Chosen, RoundIsMaximal
  <2>2. sub[j].need \in Vector /\ sub[i].need \in Vector
    BY <1>1, <2>1, NeedTyped DEF MasterInv, RoundSound
  <2>3. avail[w] \in Vector /\ avail'[w] = Allocate(avail[w], sub[j].need)
    BY DEF Place, MasterInv, TypeOK
  <2>4. CASE k = j
    <3>1. room(k) = avail[w]
      <4>1. \A r \in Resource : room(k)[r] = avail[w][r]
        BY <1>1, <2>2, <2>3, <2>4 DEF Allocate, Vector
      <4> QED BY <2>3, <4>1 DEF Vector
    <3>2. Suits(i, w)
      BY <1>1, <2>4, <3>1, CandidateSuits DEF Suits, Place
    <3> QED BY <1>1, <2>1, <2>4, <3>2, NoCandidate
  <2>5. CASE k # j
    <3> DEFINE before == [r \in Resource |->
                            avail[decided[k]][r] + sub[k].need[r]]
    <3>1. k \in Chosen /\ decided'[k] = decided[k]
      BY <1>1, <2>1, <2>5 DEF Chosen
    <3>2. decided[k] \in Worker
      BY <3>1 DEF Chosen, MasterInv, TypeOK
    <3>3. sub[k].need \in Vector
      BY <2>1, <3>1, NeedTyped DEF MasterInv, RoundSound, Chosen
    <3>4. FitsIn(sub[i].need, before)
      <4>1. CASE decided[k] # w
        <5>1. avail'[decided[k]] = avail[decided[k]]
          BY <3>2, <4>1 DEF Place, MasterInv, TypeOK
        <5> QED BY <3>1, <5>1
      <4>2. CASE decided[k] = w
        <5>1. ASSUME NEW r \in Resource
              PROVE  sub[i].need[r] <= avail[w][r] + sub[k].need[r]
          <6>1. Allocate(avail[w], sub[j].need)[r] <= avail[w][r]
            BY <2>2, <2>3, AllocateShrinks
          <6>2. sub[i].need[r]
                  <= Allocate(avail[w], sub[j].need)[r] + sub[k].need[r]
            BY <2>3, <3>1, <4>2 DEF FitsIn
          <6>3. /\ sub[i].need[r] \in Int /\ avail[w][r] \in Int
                /\ sub[k].need[r] \in Int
                /\ Allocate(avail[w], sub[j].need)[r] \in Int
            BY <2>2, <2>3, <3>3 DEF Allocate, Vector
          <6> QED BY <6>1, <6>2, <6>3
        <5> QED BY <4>2, <5>1 DEF FitsIn
      <4> QED BY <4>1, <4>2
    <3> QED BY <3>1, <3>4 DEF NoPriorityInversion
  <2> QED BY <2>4, <2>5
<1> QED BY <1>4, <1>5, <1>6

\* Passing a job over.
LEMMA SkipRoundStep ==
  ASSUME RoundInv, MasterInv', NEW j \in Job, Skip(j)
  PROVE  RoundInv'
<1> USE DEF RoundInv
<1>1. /\ UNCHANGED <<sub, jstatus, reg, registered, wstatus, avail, active,
                     age, decided>>
      /\ todo' = todo \ {j} /\ j \in todo /\ Candidates(j) = {}
  BY DEF Skip, IsNext, jobVars, workerVars
<1>2. PassedOver' \subseteq PassedOver \cup {j}
  BY <1>1 DEF PassedOver, Pending, Idle
<1>3. Chosen' = Chosen
  BY <1>1 DEF Chosen
<1>4. \A k \in Job : Candidates(k)' = Candidates(k)
  BY <1>1 DEF Candidates, Suits, CanAcceptJobs, IsHealthy, ActiveCount
<1>5. RoundIsMaximal'
  <2>1. PassedOver' \subseteq Job
    BY DEF PassedOver, Pending
  <2> QED BY <1>1, <1>2, <1>4, <2>1 DEF RoundIsMaximal
<1>6. \A i, k \in Job : Before(k, i)' <=> Before(k, i)
  BY <1>1 DEF Before
<1>7. ChosenGoFirst'
  <2>1. todo \subseteq Job /\ Chosen \subseteq Job
    BY DEF MasterInv, TypeOK, Chosen
  <2> QED BY <1>1, <1>3, <1>6, <2>1 DEF ChosenGoFirst
<1>8. NoPriorityInversion'
  <2>1. \A k \in Chosen : ~ Before(j, k)
    <3>1. ASSUME NEW k \in Chosen PROVE ~ Before(j, k)
      <4>1. Before(k, j)
        BY <1>1 DEF ChosenGoFirst
      <4>2. k \in Job /\ jstatus[k] # "ABSENT" /\ jstatus[j] # "ABSENT"
        BY <1>1 DEF Chosen, MasterInv, RoundSound
      <4>3. sub[k].prio \in Int /\ sub[j].prio \in Int
        BY <4>2, NeedTyped
      <4> QED BY <4>1, <4>2, <4>3, BeforeOneWay
    <3> QED BY <3>1
  <2>2. PassedOver' \subseteq Job /\ Chosen \subseteq Job
    BY DEF PassedOver, Pending, Chosen
  <2> QED BY <1>1, <1>2, <1>3, <1>6, <2>1, <2>2 DEF NoPriorityInversion, FitsIn
<1> QED BY <1>5, <1>7, <1>8

----------------------------------------------------------------------------
LEMMA RoundInvInit == Init => RoundInv
<1> SUFFICES ASSUME Init PROVE RoundInv
  OBVIOUS
<1>1. PassedOver = {} /\ Chosen = {} /\ todo = {}
  BY DEF Init, PassedOver, Pending, Chosen
<1> QED BY <1>1, InitStep
        DEF RoundInv, RoundIsMaximal, ChosenGoFirst, NoPriorityInversion

LEMMA RoundInvStep == RoundInv /\ [Next]_vars => RoundInv'
<1> SUFFICES ASSUME RoundInv, [Next]_vars PROVE RoundInv'
  OBVIOUS
<1>1. MasterInv'
  BY MasterInvStep DEF RoundInv
<1>2. CASE WorkerStep
  <2>1. Idle'
    BY <1>2 DEF WorkerStep, RegisterWorker, Heartbeat, RemoveWorker, GrowSilent,
                CheckWorkerHealth, Idle, roundVars
  <2> QED BY <1>1, <2>1, IdleHolds
<1>3. CASE JobStep
  <2>1. Idle'
    BY <1>3 DEF JobStep, SubmitJob, StartJob, CompleteJob, CancelJob, Idle,
                roundVars
  <2> QED BY <1>1, <2>1, IdleHolds
<1>4. CASE BeginRound
  <2>1. todo' = Pending' /\ Chosen' = {}
    BY <1>4 DEF BeginRound, Idle, Pending, Chosen, jobVars
  <2>2. PassedOver' = {}
    BY <2>1 DEF PassedOver
  <2> QED BY <1>1, <2>1, <2>2
          DEF RoundInv, RoundIsMaximal, ChosenGoFirst, NoPriorityInversion
<1>5. ASSUME NEW j \in Job, NEW w \in Worker, Place(j, w)
      PROVE  RoundInv'
  BY <1>1, <1>5, PlaceRoundStep
<1>6. ASSUME NEW j \in Job, Skip(j)
      PROVE  RoundInv'
  BY <1>1, <1>6, SkipRoundStep
<1>7. CASE ScheduleJobs
  <2>1. Idle'
    BY <1>7 DEF ScheduleJobs, Idle
  <2> QED BY <1>1, <2>1, IdleHolds
<1>8. CASE UNCHANGED vars
  BY <1>1, <1>8
  DEF vars, RoundInv, RoundIsMaximal, ChosenGoFirst, NoPriorityInversion,
      PassedOver, Chosen, Pending, Idle, Before, Candidates, Suits,
      CanAcceptJobs, IsHealthy, ActiveCount, FitsIn
<1> QED BY <1>2, <1>3, <1>4, <1>5, <1>6, <1>7, <1>8 DEF Next, RoundStep

\* No round of Scheduler.schedule passes over a job that some worker could take,
\* whatever it places before and after: resources only get scarcer in a round.
THEOREM RoundsAreMaximal == Spec => []RoundIsMaximal
<1>1. RoundInv => RoundIsMaximal
  BY DEF RoundInv
<1> QED BY <1>1, RoundInvInit, RoundInvStep, PTL DEF Spec

\* No job of lower priority, or submitted later, takes room in a round that
\* would have been enough for one the round passes over.
THEOREM PrioritiesAreKept == Spec => []NoPriorityInversion
<1>1. RoundInv => NoPriorityInversion
  BY DEF RoundInv
<1> QED BY <1>1, RoundInvInit, RoundInvStep, PTL DEF Spec

----------------------------------------------------------------------------
\* Induction, by the least number that would be missing.  Every number is in a set that holds 0 and, with a number, the next.
LEMMA Counting ==
  ASSUME NEW A, A \subseteq Nat, 0 \in A, \A n \in A : n + 1 \in A
  PROVE  Nat = A
<1> DEFINE Missing == Nat \ A
<1>1. SUFFICES ASSUME Missing # {} PROVE FALSE
  OBVIOUS
<1>2. PICK m \in Missing : \A k \in Missing : ~ (<<k, m>> \in OpToRel(<, Nat))
  <2> HIDE DEF OpToRel
  <2>1. Missing \subseteq Nat
    OBVIOUS
  <2> HIDE DEF Missing
  <2> QED BY <1>1, <2>1, NatLessThanWellFounded, WFMin
<1>3. \A k, n \in Nat : k < n => <<k, n>> \in OpToRel(<, Nat)
  BY SMT DEF OpToRel
<1>4. m - 1 \in Nat /\ m - 1 < m
  BY SMT
<1>5. m - 1 \notin Missing
  BY <1>2, <1>3, <1>4, Zenon
<1>6. m - 1 + 1 = m
  BY SMT
<1> QED BY <1>4, <1>5, <1>6

----------------------------------------------------------------------------
\* Sums over finite sets.  SumFunctionOnSet takes the elements in the order CHOOSE picks them.

Pick(S) == CHOOSE x \in S : TRUE
SumOf(f, s, g) == IF s = {} THEN 0 ELSE f[Pick(s)] + g[s \ {Pick(s)}]
IsSum(g, f, S) == g = [s \in SUBSET S |-> SumOf(f, s, g)]

LEMMA PickIsIn ==
  ASSUME NEW S, S # {}
  PROVE  Pick(S) \in S
BY DEF Pick

LEMMA PickLeaves ==
  ASSUME NEW S, IsFiniteSet(S), S # {}
  PROVE  /\ Cardinality(S) \in Nat /\ Cardinality(S \ {Pick(S)}) \in Nat
         /\ IsFiniteSet(S \ {Pick(S)})
         /\ Cardinality(S \ {Pick(S)}) = Cardinality(S) - 1
<1>1. Pick(S) \in S
  BY PickIsIn
<1> HIDE DEF Pick
<1> QED BY <1>1, FS_RemoveElement, FS_CardinalityType

\* The sums of the subsets of a finite set exist, level by level.
LEMMA SumExists ==
  ASSUME NEW f, NEW S, IsFiniteSet(S)
  PROVE  \E g : IsSum(g, f, S)
<1> DEFINE Upto(n, g) == \A s \in SUBSET S : Cardinality(s) <= n => g[s] = SumOf(f, s, g)
           A == {n \in Nat : \E g : Upto(n, g)}
<1>1. \A s \in SUBSET S : IsFiniteSet(s) /\ Cardinality(s) \in Nat
  BY FS_Subset, FS_CardinalityType
<1>2. 0 \in A
  <2>1. \A s \in SUBSET S : Cardinality(s) <= 0 => s = {}
    BY <1>1, FS_EmptySet
  <2> DEFINE zero == [s \in SUBSET S |-> 0]
  <2>2. Upto(0, zero)
    BY <2>1 DEF SumOf
  <2> QED BY <2>2
<1>3. ASSUME NEW n \in A PROVE n + 1 \in A
  <2>1. PICK g : Upto(n, g)
    OBVIOUS
  <2> DEFINE h == [s \in SUBSET S |-> SumOf(f, s, g)]
  <2>2. ASSUME NEW s \in SUBSET S, Cardinality(s) <= n PROVE h[s] = g[s]
    BY <2>1, <2>2
  <2>3. ASSUME NEW s \in SUBSET S, Cardinality(s) <= n + 1
        PROVE  h[s] = SumOf(f, s, h)
    <3>1. CASE s = {}
      BY <3>1 DEF SumOf
    <3>2. CASE s # {}
      <4> DEFINE t == s \ {Pick(s)}
      <4>1. Cardinality(t) <= n /\ t \in SUBSET S
        BY <1>1, <2>3, <3>2, PickLeaves
      <4>2. h[t] = g[t]
        <5> HIDE DEF t, h
        <5> QED BY <4>1, <2>2
      <4>3. h[s] = f[Pick(s)] + g[t]
        BY <3>2 DEF SumOf
      <4> HIDE DEF h
      <4> QED BY <3>2, <4>2, <4>3 DEF SumOf
    <3> QED BY <3>1, <3>2
  <2>4. n + 1 \in Nat
    OBVIOUS
  <2> HIDE DEF h
  <2>5. Upto(n + 1, h)
    BY <2>3
  <2> QED BY <2>4, <2>5
<1>4. Nat = A
  <2>1. A \subseteq Nat
    OBVIOUS
  <2> HIDE DEF A
  <2> QED BY <2>1, <1>2, <1>3, Counting
<1>5. Cardinality(S) \in A
  <2>1. Cardinality(S) \in Nat
    BY FS_CardinalityType
  <2> QED BY <1>4, <2>1
<1>6. PICK g : Upto(Cardinality(S), g)
  BY <1>5
<1>7. \A s \in SUBSET S : g[s] = SumOf(f, s, g)
  BY <1>6, FS_Subset
<1> DEFINE h == [s \in SUBSET S |-> SumOf(f, s, g)]
<1>8. ASSUME NEW s \in SUBSET S PROVE SumOf(f, s, g) = SumOf(f, s, h)
  <2>1. s \ {Pick(s)} \in SUBSET S
    OBVIOUS
  <2>2. h[s \ {Pick(s)}] = g[s \ {Pick(s)}]
    BY <1>7, <2>1
  <2> HIDE DEF h
  <2> QED BY <2>2 DEF SumOf
<1>9. IsSum(h, f, S)
  BY <1>8 DEF IsSum
<1> QED BY <1>9

\* They depend on what is summed only.
LEMMA SumsAgree ==
  ASSUME NEW f, NEW e, NEW g, NEW h, NEW S, NEW T, IsFiniteSet(T), T \subseteq S,
         \A x \in T : f[x] = e[x], IsSum(g, f, S), IsSum(h, e, T)
  PROVE  g[T] = h[T]
<1> DEFINE A == {n \in Nat : \A s \in SUBSET T : Cardinality(s) = n => g[s] = h[s]}
<1>1. \A s \in SUBSET T : IsFiniteSet(s) /\ Cardinality(s) \in Nat
  BY FS_Subset, FS_CardinalityType
<1>2. \A s \in SUBSET T : g[s] = SumOf(f, s, g) /\ h[s] = SumOf(e, s, h)
  BY DEF IsSum
<1>3. 0 \in A
  <2>1. \A s \in SUBSET T : Cardinality(s) = 0 => s = {}
    BY <1>1, FS_EmptySet
  <2> QED BY <1>2, <2>1 DEF SumOf
<1>4. ASSUME NEW n \in A PROVE n + 1 \in A
  <2>1. ASSUME NEW s \in SUBSET T, Cardinality(s) = n + 1 PROVE g[s] = h[s]
    <3>1. s # {}
      <4>1. s = {} => Cardinality(s) = 0
        BY FS_EmptySet, Zenon
      <4>2. n \in Nat
        OBVIOUS
      <4> QED BY <2>1, <4>1, <4>2
    <3>2. Pick(s) \in T
      BY <3>1, PickIsIn
    <3>3. Cardinality(s \ {Pick(s)}) = n /\ s \ {Pick(s)} \in SUBSET T
      BY <1>1, <2>1, <3>1, PickLeaves
    <3>4. g[s \ {Pick(s)}] = h[s \ {Pick(s)}]
      BY <1>4, <3>3
    <3> QED BY <1>2, <3>1, <3>2, <3>4 DEF SumOf
  <2> QED BY <2>1
<1>5. Nat = A
  <2>1. A \subseteq Nat
    OBVIOUS
  <2> HIDE DEF A
  <2> QED BY <2>1, <1>3, <1>4, Counting
<1>6. Cardinality(T) \in A
  <2>1. Cardinality(T) \in Nat
    BY FS_CardinalityType
  <2> QED BY <1>5, <2>1
<1> QED BY <1>6

TheSum(f, S) == CHOOSE g : IsSum(g, f, S)

LEMMA SumIsTheSum ==
  ASSUME NEW f, NEW S, IsFiniteSet(S)
  PROVE  SumFunctionOnSet(f, S) = TheSum(f, S)[S] /\ IsSum(TheSum(f, S), f, S)
<1>1. IsSum(TheSum(f, S), f, S)
  BY SumExists DEF TheSum
<1>2. SumFunctionOnSet(f, S) = TheSum(f, S)[S]
  BY DEF SumFunctionOnSet, FoldFunctionOnSet, MapThenFoldSet, IsSum, SumOf, Pick, TheSum
<1> QED BY <1>1, <1>2

LEMMA SameSum ==
  ASSUME NEW f, NEW e, NEW S, IsFiniteSet(S), \A x \in S : f[x] = e[x]
  PROVE  SumFunctionOnSet(f, S) = SumFunctionOnSet(e, S)
BY SumsAgree, SumIsTheSum

LEMMA EmptySum ==
  ASSUME NEW f
  PROVE  SumFunctionOnSet(f, {}) = 0
<1>1. IsFiniteSet({})
  BY FS_EmptySet
<1> QED BY <1>1, SumIsTheSum DEF IsSum, SumOf

LEMMA SumSplits ==
  ASSUME NEW f, NEW S, IsFiniteSet(S), S # {}
  PROVE  SumFunctionOnSet(f, S) = f[Pick(S)] + SumFunctionOnSet(f, S \ {Pick(S)})
<1> DEFINE T == S \ {Pick(S)}
<1>1. IsFiniteSet(T) /\ T \subseteq S
  BY PickLeaves
<1>2. SumFunctionOnSet(f, S) = f[Pick(S)] + TheSum(f, S)[T]
  <2> DEFINE g == TheSum(f, S)
  <2>1. SumFunctionOnSet(f, S) = g[S] /\ IsSum(g, f, S)
    BY SumIsTheSum
  <2> HIDE DEF g
  <2>2. g[S] = SumOf(f, S, g)
    BY <2>1 DEF IsSum
  <2> QED BY <2>1, <2>2 DEF SumOf, g
<1>3. TheSum(f, S)[T] = TheSum(f, T)[T]
  <2> HIDE DEF T
  <2> QED BY <1>1, SumIsTheSum, SumsAgree
<1> QED BY <1>1, <1>2, <1>3, SumIsTheSum

\* A sum of numbers is a number, and any element can be taken out of it.
SumWell(f, S) ==
  /\ SumFunctionOnSet(f, S) \in Nat
  /\ \A x \in S : SumFunctionOnSet(f, S) = f[x] + SumFunctionOnSet(f, S \ {x})

LEMMA SumsWell ==
  ASSUME NEW f, NEW S, IsFiniteSet(S), \A x \in S : f[x] \in Nat
  PROVE  SumWell(f, S)
<1> DEFINE A == {n \in Nat : \A s \in SUBSET S : Cardinality(s) <= n => SumWell(f, s)}
<1>1. \A s \in SUBSET S : IsFiniteSet(s) /\ Cardinality(s) \in Nat
  BY FS_Subset, FS_CardinalityType
<1>2. 0 \in A
  <2>1. \A s \in SUBSET S : Cardinality(s) <= 0 => s = {}
    BY <1>1, FS_EmptySet
  <2>2. SumWell(f, {})
    BY EmptySum DEF SumWell
  <2> QED BY <2>1, <2>2
<1>3. ASSUME NEW n \in A PROVE n + 1 \in A
  <2>1. ASSUME NEW s \in SUBSET S, Cardinality(s) <= n + 1, s # {}
        PROVE  SumWell(f, s)
    <3>1. \A x \in s : IsFiniteSet(s \ {x}) /\ Cardinality(s \ {x}) <= n
      BY <1>1, <2>1, FS_RemoveElement
    <3>2. \A t \in SUBSET S : Cardinality(t) <= n => SumWell(f, t)
      BY <1>3
    <3>3. \A x \in s : s \ {x} \in SUBSET S /\ SumWell(f, s \ {x})
      BY <3>1, <3>2
    <3>4. Pick(s) \in s
      BY <2>1, PickIsIn
    <3>5. SumFunctionOnSet(f, s) = f[Pick(s)] + SumFunctionOnSet(f, s \ {Pick(s)})
      BY <1>1, <2>1, SumSplits
    <3>6. SumFunctionOnSet(f, s) \in Nat
      BY <3>3, <3>4, <3>5 DEF SumWell
    <3>7. ASSUME NEW x \in s
          PROVE  SumFunctionOnSet(f, s) = f[x] + SumFunctionOnSet(f, s \ {x})
      <4>1. CASE x = Pick(s)
        BY <3>5, <4>1
      <4>2. CASE x # Pick(s)
        <5>1. (s \ {x}) \ {Pick(s)} = (s \ {Pick(s)}) \ {x}
          OBVIOUS
        <5> DEFINE rest == (s \ {x}) \ {Pick(s)}
        <5>2. SumFunctionOnSet(f, s \ {x}) = f[Pick(s)] + SumFunctionOnSet(f, rest)
          BY <3>3, <3>4, <4>2 DEF SumWell
        <5>3. SumFunctionOnSet(f, s \ {Pick(s)}) = f[x] + SumFunctionOnSet(f, rest)
          BY <3>3, <3>4, <4>2, <5>1 DEF SumWell
        <5>4. SumFunctionOnSet(f, rest) \in Nat
          <6>1. Cardinality(rest) <= n
            <7>1. IsFiniteSet(s \ {x}) /\ Pick(s) \in s \ {x}
              BY <3>1, <3>4, <4>2
            <7>2. Cardinality(rest) = Cardinality(s \ {x}) - 1
              BY <7>1, FS_RemoveElement
            <7>3. Cardinality(s \ {x}) \in Nat
              BY <7>1, FS_CardinalityType
            <7>4. n \in Nat
              OBVIOUS
            <7>5. Cardinality(s \ {x}) <= n
              BY <3>1
            <7> HIDE DEF rest, A
            <7> QED BY <7>2, <7>3, <7>4, <7>5
          <6>2. SumWell(f, rest)
            BY <3>2, <6>1
          <6> QED BY <6>2 DEF SumWell
        <5>5. f[x] \in Nat /\ f[Pick(s)] \in Nat
          BY <3>4
        <5> HIDE DEF rest
        <5> QED BY <3>5, <5>2, <5>3, <5>4, <5>5
      <4> QED BY <4>1, <4>2
    <3> QED BY <3>6, <3>7 DEF SumWell
  <2>2. \A s \in SUBSET S : s = {} => SumWell(f, s)
    BY EmptySum DEF SumWell
  <2> QED BY <2>1, <2>2
<1>4. Nat = A
  <2>1. A \subseteq Nat
    OBVIOUS
  <2> HIDE DEF A
  <2> QED BY <2>1, <1>2, <1>3, Counting
<1>5. Cardinality(S) \in A
  <2>1. Cardinality(S) \in Nat
    BY FS_CardinalityType
  <2> QED BY <1>4, <2>1
<1> QED BY <1>5
\* Part of a sum of numbers is no more than the sum.
LEMMA PartOfSum ==
  ASSUME NEW f, NEW S, IsFiniteSet(S), \A x \in S : f[x] \in Nat, NEW T \in SUBSET S
  PROVE  SumFunctionOnSet(f, T) <= SumFunctionOnSet(f, S)
<1> DEFINE A == {n \in Nat : \A s \in SUBSET S : T \subseteq s /\ Cardinality(s) <= n =>
                   SumFunctionOnSet(f, T) <= SumFunctionOnSet(f, s)}
<1>1. \A s \in SUBSET S : IsFiniteSet(s) /\ Cardinality(s) \in Nat
  BY FS_Subset, FS_CardinalityType
<1>2. \A s \in SUBSET S : SumWell(f, s)
  BY <1>1, SumsWell
<1>3. 0 \in A
  <2>1. \A s \in SUBSET S : Cardinality(s) <= 0 => s = {}
    BY <1>1, FS_EmptySet
  <2>2. SumFunctionOnSet(f, T) <= SumFunctionOnSet(f, T)
    BY <1>2 DEF SumWell
  <2> QED BY <2>1, <2>2
<1>4. ASSUME NEW n \in A PROVE n + 1 \in A
  <2>1. ASSUME NEW s \in SUBSET S, T \subseteq s, Cardinality(s) <= n + 1, s # T
        PROVE  SumFunctionOnSet(f, T) <= SumFunctionOnSet(f, s)
    <3>1. PICK x \in s : x \notin T
      BY <2>1
    <3>2. Cardinality(s \ {x}) <= n /\ s \ {x} \in SUBSET S /\ T \subseteq s \ {x}
      BY <1>1, <2>1, <3>1, FS_RemoveElement
    <3>3. SumFunctionOnSet(f, T) <= SumFunctionOnSet(f, s \ {x})
      BY <1>4, <3>2
    <3>4. SumFunctionOnSet(f, s) = f[x] + SumFunctionOnSet(f, s \ {x})
      BY <1>2 DEF SumWell
    <3>5. /\ f[x] \in Nat /\ SumFunctionOnSet(f, s \ {x}) \in Nat
          /\ SumFunctionOnSet(f, T) \in Nat
      BY <1>2, <3>2 DEF SumWell
    <3> QED BY <3>3, <3>4, <3>5
  <2>2. SumFunctionOnSet(f, T) <= SumFunctionOnSet(f, T)
    BY <1>2 DEF SumWell
  <2> QED BY <2>1, <2>2
<1>5. Nat = A
  <2>1. A \subseteq Nat
    OBVIOUS
  <2> HIDE DEF A
  <2> QED BY <2>1, <1>3, <1>4, Counting
<1>6. Cardinality(S) \in A
  <2>1. Cardinality(S) \in Nat
    BY FS_CardinalityType
  <2> QED BY <1>5, <2>1
<1>7. Cardinality(S) <= Cardinality(S)
  BY <1>1
<1> QED BY <1>6, <1>7

----------------------------------------------------------------------------
\* What the jobs in A need of resource r, if s are their submissions.
Needs(s, A, r) == SumFunctionOnSet([j \in A |-> s[j].need[r]], A)

\* Fewer jobs need no more, ...
LEMMA NeedsPart ==
  ASSUME NEW s, NEW t, NEW r, NEW B, IsFiniteSet(B), NEW A \in SUBSET B,
         \A j \in A : t[j] = s[j], \A j \in B : s[j].need[r] \in Nat
  PROVE  /\ Needs(t, A, r) <= Needs(s, B, r)
         /\ Needs(t, A, r) \in Nat /\ Needs(s, B, r) \in Nat
<1> DEFINE f == [j \in B |-> s[j].need[r]]
           e == [j \in A |-> t[j].need[r]]
<1>1. \A j \in B : f[j] \in Nat
  OBVIOUS
<1>2. IsFiniteSet(A)
  BY FS_Subset
<1>3. \A j \in A : e[j] = f[j]
  OBVIOUS
<1>4. \A j \in A : e[j] \in Nat
  BY <1>1, <1>3
<1> HIDE DEF f, e
<1>5. SumFunctionOnSet(e, A) = SumFunctionOnSet(f, A)
  BY <1>2, <1>3, SameSum
<1>6. SumFunctionOnSet(f, A) <= SumFunctionOnSet(f, B)
  BY <1>1, PartOfSum
<1>7. SumFunctionOnSet(e, A) \in Nat /\ SumFunctionOnSet(f, B) \in Nat
  BY <1>1, <1>2, <1>4, SumsWell DEF SumWell
<1> QED BY <1>5, <1>6, <1>7 DEF Needs, e, f

\* ... one job needs its own part, ...
LEMMA NeedsOne ==
  ASSUME NEW s, NEW r, NEW B, IsFiniteSet(B), NEW j \in B,
         \A i \in B : s[i].need[r] \in Nat
  PROVE  Needs(s, B, r) = s[j].need[r] + Needs(s, B \ {j}, r)
<1> DEFINE f == [i \in B |-> s[i].need[r]]
           e == [i \in B \ {j} |-> s[i].need[r]]
<1>1. \A i \in B : f[i] \in Nat
  OBVIOUS
<1>2. IsFiniteSet(B \ {j})
  BY FS_RemoveElement
<1>3. \A i \in B \ {j} : e[i] = f[i]
  OBVIOUS
<1>4. f[j] = s[j].need[r]
  OBVIOUS
<1> HIDE DEF f, e
<1>5. SumFunctionOnSet(e, B \ {j}) = SumFunctionOnSet(f, B \ {j})
  BY <1>2, <1>3, SameSum
<1>6. SumFunctionOnSet(f, B) = f[j] + SumFunctionOnSet(f, B \ {j})
  BY <1>1, SumsWell DEF SumWell
<1> QED BY <1>4, <1>5, <1>6 DEF Needs, e, f

\* ... and no jobs need nothing.
LEMMA NoNeeds ==
  ASSUME NEW s, NEW r
  PROVE  Needs(s, {}, r) = 0
BY EmptySum DEF Needs

----------------------------------------------------------------------------
\* No worker is overcommitted.

\* The inductive invariant: a worker that registers has no jobs yet.
CommitInv == MasterInv /\ AssignedToKnown /\ NoOvercommit

\* What the jobs of a worker need, in numbers.
LEMMA AssignedNeeds ==
  ASSUME MasterInv, NEW w \in Worker, NEW r \in Resource
  PROVE  /\ IsFiniteSet(Assigned(w)) /\ Assigned(w) \subseteq Job
         /\ \A j \in Assigned(w) : jstatus[j] # "ABSENT" /\ sub[j].need[r] \in Nat
         /\ avail[w][r] \in Nat
         /\ reg[w] # None => reg[w].total[r] \in Nat
<1>1. IsFiniteSet(Job)
  BY SizesAreNat, FS_Interval DEF Job
<1>2. Assigned(w) \in SUBSET Job
  BY DEF Assigned
<1>3. IsFiniteSet(Assigned(w))
  BY <1>1, <1>2, FS_Subset
<1>4. w # None
  BY NoneIsNew DEF Worker
<1>5. \A j \in Assigned(w) : jstatus[j] # "ABSENT"
  BY <1>2, <1>4 DEF Assigned, MasterInv, AssignmentWhole, RoundSound
<1>6. \A j \in Assigned(w) : sub[j].need \in Vector
  BY <1>2, <1>5, InputFields DEF MasterInv, RecordsExist
<1>7. avail[w] \in Vector
  BY DEF MasterInv, TypeOK
<1>8. reg[w] # None => reg[w].total \in Vector
  BY InputFields DEF MasterInv, TypeOK
<1> QED BY <1>2, <1>3, <1>5, <1>6, <1>7, <1>8 DEF Vector

\* The property in terms of Needs.
LEMMA OvercommitNeeds ==
  NoOvercommit <=> \A w \in registered, r \in Resource :
                     avail[w][r] + Needs(sub, Assigned(w), r) <= reg[w].total[r]
BY DEF NoOvercommit, Needs

\* Handlers that touch neither assignments nor resources.
LEMMA NothingMoved ==
  ASSUME NoOvercommit,
         UNCHANGED <<sub, jstatus, jworker, decided, reg, registered, avail>>
  PROVE  NoOvercommit'
<1>1. \A w : Assigned(w)' = Assigned(w)
  BY DEF Assigned, IsTerminal
<1> QED BY <1>1 DEF NoOvercommit

\* Handlers that assign nothing and touch no resources keep NoOvercommit.
LEMMA NothingAssigned ==
  ASSUME CommitInv, avail' = avail, reg' = reg, registered' \subseteq registered,
         \A w \in registered' : Assigned(w)' \subseteq Assigned(w),
         \A j \in Job : jstatus[j] # "ABSENT" => sub'[j] = sub[j]
  PROVE  NoOvercommit'
<1> SUFFICES ASSUME NEW w \in registered', NEW r \in Resource
             PROVE  avail'[w][r] + Needs(sub', Assigned(w)', r) <= reg'[w].total[r]
  BY DEF NoOvercommit, Needs
<1>1. w \in Worker /\ w \in registered
  BY DEF CommitInv, MasterInv, TypeOK
<1>2. avail[w][r] + Needs(sub, Assigned(w), r) <= reg[w].total[r]
  BY <1>1, OvercommitNeeds DEF CommitInv
<1>3. /\ IsFiniteSet(Assigned(w)) /\ Assigned(w) \subseteq Job
      /\ \A j \in Assigned(w) : jstatus[j] # "ABSENT" /\ sub[j].need[r] \in Nat
      /\ avail[w][r] \in Nat /\ reg[w].total[r] \in Nat
  <2>1. reg[w] # None
    BY <1>1, NoneIsNew, InputsTyped DEF CommitInv, MasterInv, RecordsExist
  <2> QED BY <1>1, <2>1, AssignedNeeds DEF CommitInv
<1>4. Assigned(w)' \in SUBSET Assigned(w)
  OBVIOUS
<1>5. \A j \in Assigned(w)' : sub'[j] = sub[j]
  BY <1>3, <1>4
<1>6. /\ Needs(sub', Assigned(w)', r) <= Needs(sub, Assigned(w), r)
      /\ Needs(sub', Assigned(w)', r) \in Nat /\ Needs(sub, Assigned(w), r) \in Nat
  BY <1>3, <1>4, <1>5, NeedsPart
<1> QED BY <1>2, <1>3, <1>6
\* An assignment that ends gives back what its job needs at most.
LEMMA ReleaseBounded ==
  ASSUME NEW free \in Vector, NEW need \in Vector, NEW total \in Vector,
         NEW r \in Resource
  PROVE  Release(free, need, total)[r] <= free[r] + need[r]
BY DEF Release, Vector

\* A job that is not assigned any more: what its worker gets back, the jobs that
\* are left do not need.
LEMMA AssignmentEnds ==
  ASSUME CommitInv, NEW j \in Job, jworker[j] # None, ~ IsTerminal(j),
         FreeAssignment(j), sub' = sub, reg' = reg, registered' = registered,
         \A w \in Worker : Assigned(w)' \subseteq Assigned(w) \ {j}
  PROVE  NoOvercommit'
<1> SUFFICES ASSUME NEW w \in registered, NEW r \in Resource
             PROVE  avail'[w][r] + Needs(sub, Assigned(w)', r) <= reg[w].total[r]
  BY DEF NoOvercommit, Needs
<1>1. w \in Worker /\ reg[w] # None /\ reg[w].total \in Vector
  BY NoneIsNew, InputsTyped, InputFields DEF CommitInv, MasterInv, TypeOK, RecordsExist
<1>2. avail[w][r] + Needs(sub, Assigned(w), r) <= reg[w].total[r]
  BY OvercommitNeeds DEF CommitInv
<1>3. /\ IsFiniteSet(Assigned(w)) /\ Assigned(w) \subseteq Job
      /\ \A i \in Assigned(w) : sub[i].need[r] \in Nat
      /\ avail[w][r] \in Nat /\ reg[w].total[r] \in Nat
  BY <1>1, AssignedNeeds DEF CommitInv
<1>4. CASE w # jworker[j]
  <2>1. avail'[w] = avail[w]
    BY <1>1, <1>4 DEF FreeAssignment, CommitInv, MasterInv, TypeOK
  <2>2. Assigned(w)' \in SUBSET Assigned(w)
    BY <1>1
  <2>3. /\ Needs(sub, Assigned(w)', r) <= Needs(sub, Assigned(w), r)
        /\ Needs(sub, Assigned(w)', r) \in Nat /\ Needs(sub, Assigned(w), r) \in Nat
    BY <1>3, <2>2, NeedsPart
  <2> QED BY <1>2, <1>3, <2>1, <2>3
<1>5. CASE w = jworker[j]
  <2>1. j \in Assigned(w)
    BY <1>5 DEF Assigned
  <2>2. Assigned(w)' \in SUBSET (Assigned(w) \ {j})
    BY <1>1, <1>5
  <2>3. sub[j].need \in Vector /\ avail[w] \in Vector
    <3>1. jstatus[j] # "ABSENT"
      BY DEF CommitInv, MasterInv, AssignmentWhole
    <3> QED BY <1>1, <3>1, InputFields DEF CommitInv, MasterInv, RecordsExist, TypeOK
  <2>4. avail'[w] = Release(avail[w], sub[j].need, reg[w].total)
    BY <1>1, <1>5 DEF FreeAssignment, CommitInv, MasterInv, TypeOK
  <2>5. avail'[w][r] <= avail[w][r] + sub[j].need[r]
    BY <1>1, <2>3, <2>4, ReleaseBounded
  <2>6. avail'[w][r] \in Nat /\ sub[j].need[r] \in Nat
    <3>1. avail'[w] \in Vector
      BY <1>1, <2>3, <2>4, ReleaseTyped
    <3> QED BY <2>3, <3>1 DEF Vector
  <2>7. Needs(sub, Assigned(w), r) = sub[j].need[r] + Needs(sub, Assigned(w) \ {j}, r)
    BY <1>3, <2>1, NeedsOne
  <2>8. IsFiniteSet(Assigned(w) \ {j})
    BY <1>3, FS_RemoveElement
  <2>9. /\ Needs(sub, Assigned(w)', r) <= Needs(sub, Assigned(w) \ {j}, r)
        /\ Needs(sub, Assigned(w)', r) \in Nat
        /\ Needs(sub, Assigned(w) \ {j}, r) \in Nat
    <3> DEFINE B == Assigned(w) \ {j}
    <3>1. \A i \in B : sub[i].need[r] \in Nat
      BY <1>3
    <3> HIDE DEF B
    <3>2. IsFiniteSet(B) /\ Assigned(w)' \in SUBSET B
      BY <2>2, <2>8 DEF B
    <3>3. /\ Needs(sub, Assigned(w)', r) <= Needs(sub, B, r)
          /\ Needs(sub, Assigned(w)', r) \in Nat /\ Needs(sub, B, r) \in Nat
      BY <3>1, <3>2, NeedsPart
    <3> QED BY <3>3 DEF B
  <2> QED BY <1>2, <1>3, <2>5, <2>6, <2>7, <2>9
<1> QED BY <1>4, <1>5

\* A job that is placed takes what it needs from what the worker has left.
LEMMA PlaceCommits ==
  ASSUME CommitInv, NEW j \in Job, NEW v \in Worker, Place(j, v)
  PROVE  NoOvercommit'
<1>1. /\ sub' = sub /\ reg' = reg /\ registered' = registered
      /\ jworker' = jworker /\ jstatus' = jstatus
      /\ decided' = [decided EXCEPT ![j] = v]
      /\ avail' = [avail EXCEPT ![v] = Allocate(@, sub[j].need)]
      /\ v \in Candidates(j) /\ j \in todo
  BY DEF Place, IsNext, jobVars
<1> SUFFICES ASSUME NEW w \in registered, NEW r \in Resource
             PROVE  avail'[w][r] + Needs(sub, Assigned(w)', r) <= reg[w].total[r]
  BY <1>1 DEF NoOvercommit, Needs
<1>2. w \in Worker /\ reg[w] # None
  BY NoneIsNew, InputsTyped DEF CommitInv, MasterInv, TypeOK, RecordsExist
<1>3. avail[w][r] + Needs(sub, Assigned(w), r) <= reg[w].total[r]
  BY OvercommitNeeds DEF CommitInv
<1>4. /\ IsFiniteSet(Assigned(w)) /\ Assigned(w) \subseteq Job
      /\ \A i \in Assigned(w) : sub[i].need[r] \in Nat
      /\ avail[w][r] \in Nat /\ reg[w].total[r] \in Nat
  BY <1>2, AssignedNeeds DEF CommitInv
<1>5. \A i \in Job : decided'[i] = w => (i = j /\ v = w) \/ decided[i] = w
  BY <1>1 DEF CommitInv, MasterInv, TypeOK
<1>6. CASE w # v
  <2>1. avail'[w] = avail[w]
    BY <1>1, <1>2, <1>6 DEF CommitInv, MasterInv, TypeOK
  <2>2. Assigned(w)' \in SUBSET Assigned(w)
    BY <1>1, <1>5, <1>6 DEF Assigned, IsTerminal
  <2>3. /\ Needs(sub, Assigned(w)', r) <= Needs(sub, Assigned(w), r)
        /\ Needs(sub, Assigned(w)', r) \in Nat /\ Needs(sub, Assigned(w), r) \in Nat
    BY <1>4, <2>2, NeedsPart
  <2> QED BY <1>3, <1>4, <2>1, <2>3
<1>7. CASE w = v
  <2> DEFINE B == Assigned(w) \cup {j}
  <2>1. Assigned(w)' \in SUBSET B
    BY <1>1, <1>5, <1>7 DEF Assigned, IsTerminal
  <2>2. sub[j].need \in Vector /\ avail[w] \in Vector
    BY <1>1, <1>2, InputFields DEF CommitInv, MasterInv, RecordsExist, RoundSound, TypeOK
  <2>3. IsFiniteSet(B) /\ j \in B
    BY <1>4, FS_AddElement
  <2>4. \A i \in B : sub[i].need[r] \in Nat
    BY <1>4, <2>2 DEF Vector
  <2>5. B \ {j} \in SUBSET Assigned(w)
    OBVIOUS
  <2> HIDE DEF B
  <2>6. /\ Needs(sub, Assigned(w)', r) <= Needs(sub, B, r)
        /\ Needs(sub, Assigned(w)', r) \in Nat /\ Needs(sub, B, r) \in Nat
    BY <2>1, <2>3, <2>4, NeedsPart
  <2>7. Needs(sub, B, r) = sub[j].need[r] + Needs(sub, B \ {j}, r)
    BY <2>3, <2>4, NeedsOne
  <2>8. /\ Needs(sub, B \ {j}, r) <= Needs(sub, Assigned(w), r)
        /\ Needs(sub, B \ {j}, r) \in Nat /\ Needs(sub, Assigned(w), r) \in Nat
    BY <1>4, <2>5, NeedsPart
  <2>9. avail'[w][r] = avail[w][r] - sub[j].need[r]
    <3>1. avail'[w] = Allocate(avail[w], sub[j].need)
      BY <1>1, <1>2, <1>7 DEF CommitInv, MasterInv, TypeOK
    <3> QED BY <3>1 DEF Allocate
  <2>10. sub[j].need[r] \in Nat
    BY <2>2 DEF Vector
  <2> QED BY <1>3, <1>4, <2>6, <2>7, <2>8, <2>9, <2>10
<1> QED BY <1>6, <1>7
\* A worker that registers has all it has left, and no jobs yet.
LEMMA RegisterCommits ==
  ASSUME CommitInv, NEW v \in Worker, NEW q \in Registrations, RegisterWorker(v, q)
  PROVE  NoOvercommit'
<1>1. /\ UNCHANGED <<sub, jstatus, jworker, decided>> /\ reg[v] = None
      /\ reg' = [reg EXCEPT ![v] = q] /\ registered' = registered \cup {v}
      /\ avail' = [avail EXCEPT ![v] = q.total]
  BY DEF RegisterWorker, jobVars, roundVars
<1>2. \A w \in Worker : Assigned(w)' = Assigned(w)
  BY <1>1 DEF Assigned, IsTerminal
<1> SUFFICES ASSUME NEW w \in registered', NEW r \in Resource
             PROVE  avail'[w][r] + Needs(sub, Assigned(w)', r) <= reg'[w].total[r]
  BY <1>1 DEF NoOvercommit, Needs
<1>3. w \in Worker
  BY <1>1 DEF CommitInv, MasterInv, TypeOK
<1>4. CASE w = v
  <2>1. Assigned(w) = {}
    <3>1. \A j \in Job : jworker[j] # v
      BY <1>1, NoneIsNew DEF CommitInv, AssignedToKnown, Worker
    <3>2. \A j \in Job : decided[j] # v
      <4>1. \A i \in registered : reg[i] # None
        BY NoneIsNew, InputsTyped DEF CommitInv, MasterInv, RecordsExist
      <4>2. v # None
        BY NoneIsNew DEF Worker
      <4> QED BY <1>1, <4>1, <4>2 DEF CommitInv, MasterInv, RoundSound
    <3> QED BY <1>4, <3>1, <3>2 DEF Assigned
  <2>2. Needs(sub, Assigned(w)', r) = 0
    BY <1>2, <1>3, <2>1, NoNeeds
  <2>3. avail'[w] = q.total /\ reg'[w] = q
    BY <1>1, <1>3, <1>4 DEF CommitInv, MasterInv, TypeOK
  <2>4. q.total[r] \in Nat
    BY InputFields DEF Vector
  <2> QED BY <2>2, <2>3, <2>4
<1>5. CASE w # v
  <2>1. avail'[w] = avail[w] /\ reg'[w] = reg[w] /\ w \in registered
    BY <1>1, <1>3, <1>5 DEF CommitInv, MasterInv, TypeOK
  <2>2. avail[w][r] + Needs(sub, Assigned(w), r) <= reg[w].total[r]
    BY <2>1, OvercommitNeeds DEF CommitInv
  <2> QED BY <1>2, <1>3, <2>1, <2>2
<1> QED BY <1>4, <1>5

LEMMA CommitInvStep == CommitInv /\ [TimelyNext]_vars => CommitInv'
<1> SUFFICES ASSUME CommitInv, [TimelyNext]_vars PROVE CommitInv'
  OBVIOUS
<1> USE DEF CommitInv
<1>1. [Next]_vars
  BY DEF TimelyNext, Next, JobStep
<1>2. MasterInv' /\ AssignedToKnown'
  BY <1>1, MasterInvStep, AssignedStayKnown
<1>3. ASSUME NEW w \in Worker, NEW r \in Registrations, RegisterWorker(w, r)
      PROVE  NoOvercommit'
  BY <1>3, RegisterCommits
<1>4. ASSUME NEW w \in Worker, NEW overloaded \in BOOLEAN, Heartbeat(w, overloaded)
      PROVE  NoOvercommit'
  BY <1>4, NothingMoved DEF Heartbeat, jobVars, roundVars
<1>5. ASSUME NEW w \in Worker, RemoveWorker(w)
      PROVE  NoOvercommit'
  <2>1. \A v \in registered' : v # None
    BY <1>2, NoneIsNew DEF MasterInv, TypeOK, Worker
  <2>2. \A v \in registered' : Assigned(v)' \subseteq Assigned(v)
    BY <1>5, <2>1 DEF RemoveWorker, roundVars, Assigned, IsTerminal
  <2> QED BY <1>5, <2>2, NothingAssigned DEF RemoveWorker
<1>6. ASSUME NEW w \in Worker, GrowSilent(w)
      PROVE  NoOvercommit'
  BY <1>6, NothingMoved DEF GrowSilent, jobVars, roundVars
<1>7. ASSUME CheckWorkerHealth
      PROVE  NoOvercommit'
  BY <1>7, NothingMoved DEF CheckWorkerHealth, jobVars, roundVars
<1>8. ASSUME NEW j \in Job, NEW s \in Submissions, SubmitJob(j, s)
      PROVE  NoOvercommit'
  <2>1. \A v \in registered' : v # None
    BY <1>2, NoneIsNew DEF MasterInv, TypeOK, Worker
  <2>2. \A v \in registered' : Assigned(v)' \subseteq Assigned(v)
    BY <1>8, <2>1 DEF SubmitJob, roundVars, Assigned, IsTerminal, MasterInv, TypeOK,
                      AssignmentWhole
  <2>3. \A i \in Job : jstatus[i] # "ABSENT" => sub'[i] = sub[i]
    BY <1>8 DEF SubmitJob, MasterInv, TypeOK
  <2> QED BY <1>8, <2>2, <2>3, NothingAssigned DEF SubmitJob, workerVars
<1>9. ASSUME NEW j \in Job, NEW w \in Worker, jstatus[j] = "SCHEDULED", StartJob(j, w)
      PROVE  NoOvercommit'
  <2>1. \A v \in registered' : Assigned(v)' \subseteq Assigned(v)
    BY <1>9 DEF StartJob, roundVars, Assigned, IsTerminal, Terminal, MasterInv, TypeOK
  <2> QED BY <1>9, <2>1, NothingAssigned DEF StartJob, workerVars
<1>10. ASSUME NEW j \in Job, NEW w \in Worker, NEW success \in BOOLEAN,
              ~ IsTerminal(j), CompleteJob(j, w, success)
       PROVE  NoOvercommit'
  <2>1. /\ FreeAssignment(j) /\ sub' = sub /\ reg' = reg /\ registered' = registered
        /\ jworker[j] = w /\ jworker[j] # None /\ jworker[j] \in Worker
        /\ decided' = decided /\ decided = [i \in Job |-> None]
    BY <1>10 DEF CompleteJob, roundVars, Idle
  <2>2. \A v \in Worker : v # None
    BY NoneIsNew DEF Worker
  <2>3. /\ \A i \in Job \ {j} : jstatus'[i] = jstatus[i] /\ jworker'[i] = jworker[i]
        /\ jworker'[j] = None \/ jstatus'[j] \in Terminal
    BY <1>10 DEF CompleteJob, MasterInv, TypeOK, Terminal
  <2>4. \A v \in Worker : Assigned(v)' \subseteq Assigned(v) \ {j}
    BY <2>1, <2>2, <2>3 DEF Assigned, IsTerminal
  <2> QED BY <1>10, <2>1, <2>4, AssignmentEnds
<1>11. ASSUME NEW j \in Job, CancelJob(j)
       PROVE  NoOvercommit'
  <2>1. /\ FreeAssignment(j) /\ sub' = sub /\ reg' = reg /\ registered' = registered
        /\ jworker' = jworker /\ ~ IsTerminal(j)
        /\ decided' = decided /\ decided = [i \in Job |-> None]
        /\ jstatus' = [jstatus EXCEPT ![j] = "CANCELLED"]
    BY <1>11 DEF CancelJob, roundVars, Idle
  <2>2. \A v \in Worker : v # None
    BY NoneIsNew DEF Worker
  <2>3. /\ \A i \in Job \ {j} : jstatus'[i] = jstatus[i] /\ jworker'[i] = jworker[i]
        /\ jstatus'[j] \in Terminal
    BY <2>1 DEF MasterInv, TypeOK, Terminal
  <2>4. \A v \in Worker : Assigned(v)' \subseteq Assigned(v) \ {j}
    BY <2>1, <2>2, <2>3 DEF Assigned, IsTerminal
  <2>5. CASE jworker[j] # None
    <3>1. jworker[j] \in Worker
      BY <2>5 DEF MasterInv, TypeOK
    <3> QED BY <2>1, <2>4, <2>5, <3>1, AssignmentEnds
  <2>6. CASE jworker[j] = None
    <3>1. None \notin registered
      BY <2>2 DEF MasterInv, TypeOK
    <3>2. avail' = avail
      BY <2>1, <2>6, <3>1 DEF FreeAssignment
    <3>3. registered \subseteq Worker
      BY DEF MasterInv, TypeOK
    <3>4. \A v \in registered' : Assigned(v)' \subseteq Assigned(v)
      BY <2>1, <2>4, <3>3
    <3> QED BY <2>1, <3>2, <3>4, NothingAssigned
  <2> QED BY <2>5, <2>6
<1>12. ASSUME BeginRound
       PROVE  NoOvercommit'
  BY <1>12, NothingMoved DEF BeginRound, jobVars, workerVars
<1>13. ASSUME NEW j \in Job, NEW w \in Worker, Place(j, w)
       PROVE  NoOvercommit'
  BY <1>13, PlaceCommits
<1>14. ASSUME NEW j \in Job, Skip(j)
       PROVE  NoOvercommit'
  BY <1>14, NothingMoved DEF Skip, jobVars, workerVars
<1>15. ASSUME ScheduleJobs
       PROVE  NoOvercommit'
  <2>1. \A v \in registered' : v # None
    BY <1>2, NoneIsNew DEF MasterInv, TypeOK, Worker
  <2>2. \A v \in registered' : Assigned(v)' \subseteq Assigned(v)
    <3>1. /\ decided' = [j \in Job |-> None]
          /\ jworker' = [j \in Job |-> IF j \in Chosen THEN decided[j] ELSE jworker[j]]
          /\ \A j \in Job \ Chosen : jstatus'[j] = jstatus[j]
      BY <1>15 DEF ScheduleJobs
    <3> QED BY <2>1, <3>1 DEF Assigned, IsTerminal
  <2>3. UNCHANGED <<sub, reg, registered, avail>>
    BY <1>15 DEF ScheduleJobs
  <2> QED BY <2>2, <2>3, NothingAssigned
<1>16. ASSUME UNCHANGED vars
       PROVE  NoOvercommit'
  BY <1>16, NothingMoved DEF vars
<1>17. NoOvercommit'
  BY <1>3, <1>4, <1>5, <1>6, <1>7, <1>8, <1>9, <1>10, <1>11, <1>12, <1>13, <1>14,
     <1>15, <1>16 DEF TimelyNext, WorkerStep, RoundStep
<1> QED BY <1>2, <1>17

LEMMA CommitInvInit == Init => CommitInv
<1> SUFFICES ASSUME Init PROVE CommitInv
  OBVIOUS
<1>1. AssignedToKnown /\ NoOvercommit
  BY DEF Init, AssignedToKnown, NoOvercommit
<1> QED BY <1>1, InitStep DEF CommitInv

\* As long as reports come in time, the scheduler never gives a worker more than
\* it has, through any retries, cancellations and removed workers.
THEOREM NothingIsOvercommitted == TimelySpec => []NoOvercommit
<1>1. CommitInv => NoOvercommit
  BY DEF CommitInv
<1> QED BY <1>1, CommitInvInit, CommitInvStep, PTL DEF TimelySpec
=============================================================================
