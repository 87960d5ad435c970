------------------------- MODULE LeaseManagerProofs -------------------------
(***************************************************************************)
(* Proofs about LeaseManager, for any sets of leases, jobs, workers and    *)
(* keys and any renewal limit.                                             *)
(***************************************************************************)
EXTENDS LeaseManager, TLAPS

\* Every lease the manager knows was minted with a job and a worker.
KnownLeaseIsMinted ==
  \A l \in leases :
    lstate[l] # "UNUSED" /\ ljob[l] \in Job /\ lworker[l] \in Worker

\* A cache entry is younger than its lease.
StaleIsAged == stale \subseteq aged

\* The inductive invariant of Spec.
IndexInv ==
  /\ TypeOK
  /\ KnownLeaseIsMinted
  /\ StaleIsAged
  /\ JobIndexSound
  /\ WorkerIndexSound
  /\ LiveLeaseIndexed
  /\ ReleasedRemembered

LEMMA CreateLeaseStep ==
  ASSUME IndexInv, NEW l \in Lease, NEW j \in Job, NEW w \in Worker,
               NEW k \in Key \cup {None}, CreateLease(l, j, w, k)
  PROVE  IndexInv'
<1> USE DEF IndexInv, TypeOK, KnownLeaseIsMinted, LeaseState, leaseVars, timeVars
<1> USE NoneIsNew DEF CreateLease, Leasable
<1>1. TypeOK'
  OBVIOUS
<1>2. KnownLeaseIsMinted'
  OBVIOUS
<1>3. StaleIsAged'
  BY DEF StaleIsAged
<1>4. JobIndexSound'
  BY DEF JobIndexSound, IsActive
<1>5. WorkerIndexSound'
  BY DEF WorkerIndexSound
<1>6. LiveLeaseIndexed'
  BY DEF LiveLeaseIndexed, WorkerIndexSound, IsActive
<1>7. ReleasedRemembered'
  BY DEF ReleasedRemembered, StaleIsAged
<1> QED BY <1>1, <1>2, <1>3, <1>4, <1>5, <1>6, <1>7

LEMMA RenewLeaseStep ==
  ASSUME IndexInv, NEW l \in Lease, NEW w \in Worker, RenewLease(l, w)
  PROVE  IndexInv'
<1> USE DEF IndexInv, TypeOK, KnownLeaseIsMinted, LeaseState, leaseVars, timeVars
<1> USE NoneIsNew DEF RenewLease
<1>1. TypeOK'
  <2>1. renewals[l] \in 0 .. MaxRenewals
    OBVIOUS
  <2>2. renewals[l] + 1 \in 0 .. MaxRenewals
    BY <2>1, MaxRenewalsIsNat
  <2> QED BY <2>2
<1>2. KnownLeaseIsMinted'
  OBVIOUS
<1>3. StaleIsAged'
  BY DEF StaleIsAged
<1>4. JobIndexSound'
  BY DEF JobIndexSound, IsActive
<1>5. WorkerIndexSound'
  BY DEF WorkerIndexSound
<1>6. LiveLeaseIndexed'
  BY DEF LiveLeaseIndexed, WorkerIndexSound, IsActive
<1>7. ReleasedRemembered'
  BY DEF ReleasedRemembered, StaleIsAged
<1> QED BY <1>1, <1>2, <1>3, <1>4, <1>5, <1>6, <1>7

LEMMA ReleaseLeaseStep ==
  ASSUME IndexInv, NEW l \in Lease, NEW w \in Worker, ReleaseLease(l, w)
  PROVE  IndexInv'
<1> USE DEF IndexInv, TypeOK, KnownLeaseIsMinted, LeaseState, leaseVars, timeVars
<1> USE NoneIsNew DEF ReleaseLease, SetState, DropJobs, DiscardFromWorkers
<1>1. TypeOK'
  OBVIOUS
<1>2. KnownLeaseIsMinted'
  OBVIOUS
<1>3. StaleIsAged'
  BY DEF StaleIsAged
<1>4. JobIndexSound'
  BY DEF JobIndexSound, IsActive
<1>5. WorkerIndexSound'
  BY DEF WorkerIndexSound
<1>6. LiveLeaseIndexed'
  BY DEF LiveLeaseIndexed, WorkerIndexSound, IsActive
<1>7. ReleasedRemembered'
  BY DEF ReleasedRemembered, StaleIsAged
<1> QED BY <1>1, <1>2, <1>3, <1>4, <1>5, <1>6, <1>7

LEMMA CheckExpiredLeasesStep ==
  ASSUME IndexInv, CheckExpiredLeases
  PROVE  IndexInv'
<1> USE DEF IndexInv, TypeOK, KnownLeaseIsMinted, LeaseState, leaseVars, timeVars
<1> USE NoneIsNew DEF CheckExpiredLeases, Lapsed, SetState, DropJobs, DiscardFromWorkers
<1>1. TypeOK'
  OBVIOUS
<1>2. KnownLeaseIsMinted'
  OBVIOUS
<1>3. StaleIsAged'
  BY DEF StaleIsAged
<1>4. JobIndexSound'
  BY DEF JobIndexSound, IsActive
<1>5. WorkerIndexSound'
  BY DEF WorkerIndexSound
<1>6. LiveLeaseIndexed'
  BY DEF LiveLeaseIndexed, WorkerIndexSound, IsActive
<1>7. ReleasedRemembered'
  BY DEF ReleasedRemembered, StaleIsAged
<1> QED BY <1>1, <1>2, <1>3, <1>4, <1>5, <1>6, <1>7

LEMMA RevokeWorkerLeasesStep ==
  ASSUME IndexInv, NEW w \in Worker, RevokeWorkerLeases(w)
  PROVE  IndexInv'
<1> USE DEF IndexInv, TypeOK, KnownLeaseIsMinted, LeaseState, leaseVars, timeVars
<1> USE NoneIsNew DEF RevokeWorkerLeases, SetState, DropJobs
<1>1. TypeOK'
  OBVIOUS
<1>2. KnownLeaseIsMinted'
  OBVIOUS
<1>3. StaleIsAged'
  BY DEF StaleIsAged
<1>4. JobIndexSound'
  BY DEF JobIndexSound, IsActive
<1>5. WorkerIndexSound'
  BY DEF WorkerIndexSound
<1>6. LiveLeaseIndexed'
  BY DEF LiveLeaseIndexed, WorkerIndexSound, IsActive
<1>7. ReleasedRemembered'
  BY DEF ReleasedRemembered, StaleIsAged
<1> QED BY <1>1, <1>2, <1>3, <1>4, <1>5, <1>6, <1>7

LEMMA RevokeLeaseStep ==
  ASSUME IndexInv, NEW l \in Lease, RevokeLease(l)
  PROVE  IndexInv'
<1> USE DEF IndexInv, TypeOK, KnownLeaseIsMinted, LeaseState, leaseVars, timeVars
<1> USE NoneIsNew DEF RevokeLease, SetState, DropJobs, DiscardFromWorkers
<1>1. TypeOK'
  OBVIOUS
<1>2. KnownLeaseIsMinted'
  OBVIOUS
<1>3. StaleIsAged'
  BY DEF StaleIsAged
<1>4. JobIndexSound'
  BY DEF JobIndexSound, IsActive
<1>5. WorkerIndexSound'
  BY DEF WorkerIndexSound
<1>6. LiveLeaseIndexed'
  BY DEF LiveLeaseIndexed, WorkerIndexSound, IsActive
<1>7. ReleasedRemembered'
  BY DEF ReleasedRemembered, StaleIsAged
<1> QED BY <1>1, <1>2, <1>3, <1>4, <1>5, <1>6, <1>7

LEMMA CleanupOldLeasesStep ==
  ASSUME IndexInv, CleanupOldLeases
  PROVE  IndexInv'
<1> USE DEF IndexInv, TypeOK, KnownLeaseIsMinted, LeaseState, leaseVars, timeVars
<1> USE NoneIsNew DEF CleanupOldLeases
<1>1. TypeOK'
  OBVIOUS
<1>2. KnownLeaseIsMinted'
  OBVIOUS
<1>3. StaleIsAged'
  BY DEF StaleIsAged
<1>4. JobIndexSound'
  BY DEF JobIndexSound, IsActive
<1>5. WorkerIndexSound'
  BY DEF WorkerIndexSound
<1>6. LiveLeaseIndexed'
  BY DEF LiveLeaseIndexed, WorkerIndexSound, IsActive
<1>7. ReleasedRemembered'
  BY DEF ReleasedRemembered, StaleIsAged
<1> QED BY <1>1, <1>2, <1>3, <1>4, <1>5, <1>6, <1>7

LEMMA LapseStep ==
  ASSUME IndexInv, NEW l \in Lease, Lapse(l)
  PROVE  IndexInv'
<1> USE DEF IndexInv, TypeOK, KnownLeaseIsMinted, LeaseState, leaseVars, timeVars
<1> USE NoneIsNew DEF Lapse
<1>1. TypeOK'
  OBVIOUS
<1>2. KnownLeaseIsMinted'
  OBVIOUS
<1>3. StaleIsAged'
  BY DEF StaleIsAged
<1>4. JobIndexSound'
  BY DEF JobIndexSound, IsActive
<1>5. WorkerIndexSound'
  BY DEF WorkerIndexSound
<1>6. LiveLeaseIndexed'
  BY DEF LiveLeaseIndexed, WorkerIndexSound, IsActive
<1>7. ReleasedRemembered'
  BY DEF ReleasedRemembered, StaleIsAged
<1> QED BY <1>1, <1>2, <1>3, <1>4, <1>5, <1>6, <1>7

LEMMA AgeStep ==
  ASSUME IndexInv, NEW l \in Lease, Age(l)
  PROVE  IndexInv'
<1> USE DEF IndexInv, TypeOK, KnownLeaseIsMinted, LeaseState, leaseVars, timeVars
<1> USE NoneIsNew DEF Age
<1>1. TypeOK'
  OBVIOUS
<1>2. KnownLeaseIsMinted'
  OBVIOUS
<1>3. StaleIsAged'
  BY DEF StaleIsAged
<1>4. JobIndexSound'
  BY DEF JobIndexSound, IsActive
<1>5. WorkerIndexSound'
  BY DEF WorkerIndexSound
<1>6. LiveLeaseIndexed'
  BY DEF LiveLeaseIndexed, WorkerIndexSound, IsActive
<1>7. ReleasedRemembered'
  BY DEF ReleasedRemembered, StaleIsAged
<1> QED BY <1>1, <1>2, <1>3, <1>4, <1>5, <1>6, <1>7

LEMMA IndexInvInit == Init => IndexInv
BY NoneIsNew, MaxRenewalsIsNat
   DEF Init, IndexInv, TypeOK, LeaseState, KnownLeaseIsMinted, StaleIsAged,
       JobIndexSound, WorkerIndexSound, LiveLeaseIndexed, ReleasedRemembered

LEMMA IndexInvStep == IndexInv /\ [Next]_vars => IndexInv'
<1> SUFFICES ASSUME IndexInv, [Next]_vars
             PROVE  IndexInv'
  OBVIOUS
<1>1. ASSUME NEW l \in Lease, NEW j \in Job, NEW w \in Worker,
             NEW k \in Key \cup {None}, CreateLease(l, j, w, k)
      PROVE  IndexInv'
  BY <1>1, CreateLeaseStep
<1>2. ASSUME NEW l \in Lease, NEW w \in Worker, RenewLease(l, w)
      PROVE  IndexInv'
  BY <1>2, RenewLeaseStep
<1>3. ASSUME NEW l \in Lease, NEW w \in Worker, ReleaseLease(l, w)
      PROVE  IndexInv'
  BY <1>3, ReleaseLeaseStep
<1>4. CASE CheckExpiredLeases
  BY <1>4, CheckExpiredLeasesStep
<1>5. ASSUME NEW w \in Worker, RevokeWorkerLeases(w)
      PROVE  IndexInv'
  BY <1>5, RevokeWorkerLeasesStep
<1>6. ASSUME NEW l \in Lease, RevokeLease(l)
      PROVE  IndexInv'
  BY <1>6, RevokeLeaseStep
<1>7. ASSUME NEW l \in Lease, Lapse(l)
      PROVE  IndexInv'
  BY <1>7, LapseStep
<1>8. ASSUME NEW l \in Lease, Age(l)
      PROVE  IndexInv'
  BY <1>8, AgeStep
<1>9. CASE CleanupOldLeases
  BY <1>9, CleanupOldLeasesStep
<1>10. CASE UNCHANGED vars
  BY <1>10
     DEF vars, IndexInv, TypeOK, KnownLeaseIsMinted, StaleIsAged,
         JobIndexSound, WorkerIndexSound, LiveLeaseIndexed,
         ReleasedRemembered, IsActive
<1> QED
  BY <1>1, <1>2, <1>3, <1>4, <1>5, <1>6, <1>7, <1>8, <1>9, <1>10 DEF Next

LEMMA IndexInvAlways == Spec => []IndexInv
BY IndexInvInit, IndexInvStep, PTL DEF Spec

\* Every reachable state has the declared types.
THEOREM TypeCorrect == Spec => []TypeOK
<1>1. IndexInv => TypeOK
  BY DEF IndexInv
<1> QED BY <1>1, IndexInvAlways, PTL

\* The job and worker indexes of the manager hold only leases nobody ended,
\* under the job and the worker they were granted for.
THEOREM IndexesStaySound == Spec => []IndexesSound
<1>1. IndexInv => IndexesSound
  BY DEF IndexInv, IndexesSound
<1> QED BY <1>1, IndexInvAlways, PTL

\* Every live lease is in its worker's set.
THEOREM LiveLeasesIndexed == Spec => []LiveLeaseIndexed
<1>1. IndexInv => LiveLeaseIndexed
  BY DEF IndexInv
<1> QED BY <1>1, IndexInvAlways, PTL

\* A released lease is in the cache of released leases while it is kept.
THEOREM ReleasesRemembered == Spec => []ReleasedRemembered
<1>1. IndexInv => ReleasedRemembered
  BY DEF IndexInv
<1> QED BY <1>1, IndexInvAlways, PTL

\* After revoke_worker_leases the worker has no live lease left.
THEOREM RevocationIsComplete == Spec => RevokedWorkerHoldsNothing
<1>1. ASSUME IndexInv, NEW w \in Worker, RevokeWorkerLeases(w),
             NEW l \in leases, lworker[l] = w
      PROVE  ~ IsActive(l)'
  <2>1. CASE IsActive(l)
    <3>1. l \in workerLeases[w] \cap leases
      BY <1>1, <2>1 DEF IndexInv, LiveLeaseIndexed
    <3>2. lstate'[l] = "REVOKED"
      BY <1>1, <2>1, <3>1
         DEF RevokeWorkerLeases, SetState, IndexInv, TypeOK
    <3> QED BY <3>2 DEF IsActive
  <2>2. CASE ~ IsActive(l)
    BY <1>1, <2>2
       DEF RevokeWorkerLeases, SetState, IsActive, timeVars, IndexInv, TypeOK
  <2> QED BY <2>1, <2>2
<1>2. IndexInv => [\A w \in Worker : RevokeWorkerLeases(w) =>
                     \A l \in leases : lworker[l] = w => ~ IsActive(l)']_vars
  BY <1>1
<1> QED BY <1>2, IndexInvAlways, PTL DEF RevokedWorkerHoldsNothing

\* No operation revives an ended lease, and a released one stays released.
THEOREM EndedLeasesStayEnded == Spec => EndedStaysEnded
<1> DEFINE Ended(l) ==
      /\ lstate[l] \in {"EXPIRED", "REVOKED", "RELEASED"}
      /\ lstate'[l] # lstate[l]
      => lstate[l] # "RELEASED" /\ lstate'[l] = "RELEASED"
<1>1. ASSUME IndexInv, NEW l \in Lease, Next
      PROVE  Ended(l)
  <2> USE DEF IndexInv, TypeOK, leaseVars
  <2>1. ASSUME NEW m \in Lease, NEW j \in Job, NEW w \in Worker,
               NEW k \in Key \cup {None}, CreateLease(m, j, w, k)
        PROVE  Ended(l)
    BY <2>1 DEF CreateLease
  <2>2. ASSUME NEW m \in Lease, NEW w \in Worker,
               RenewLease(m, w) \/ ReleaseLease(m, w)
        PROVE  Ended(l)
    BY <2>2 DEF RenewLease, ReleaseLease, SetState, ReleasedRemembered
  <2>3. CASE CheckExpiredLeases
    BY <2>3 DEF CheckExpiredLeases, Lapsed, SetState
  <2>4. ASSUME NEW w \in Worker, RevokeWorkerLeases(w)
        PROVE  Ended(l)
    BY <2>4 DEF RevokeWorkerLeases, SetState, IsActive
  <2>5. ASSUME NEW m \in Lease, RevokeLease(m) \/ Lapse(m) \/ Age(m)
        PROVE  Ended(l)
    BY <2>5 DEF RevokeLease, Lapse, Age, SetState
  <2>6. CASE CleanupOldLeases
    BY <2>6 DEF CleanupOldLeases
  <2> QED BY <1>1, <2>1, <2>2, <2>3, <2>4, <2>5, <2>6 DEF Next
<1>2. IndexInv /\ [Next]_vars => [\A l \in Lease : Ended(l)]_vars
  BY <1>1
<1> QED BY <1>2, IndexInvAlways, PTL DEF Spec, EndedStaysEnded

----------------------------------------------------------------------------
\* Exclusive ownership, for callers that keep the discipline of TimelyNext.

\* The inductive invariant of TimelySpec: the job index misses no ACTIVE lease.
TimelyInv == IndexInv /\ JobIndexComplete

LEMMA TimelyIsNext == TimelyNext => Next
BY DEF TimelyNext, Next

LEMMA TimelyInvStep == TimelyInv /\ [TimelyNext]_vars => TimelyInv'
<1> SUFFICES ASSUME TimelyInv, [TimelyNext]_vars
             PROVE  JobIndexComplete'
  BY IndexInvStep, TimelyIsNext DEF TimelyInv
<1> USE DEF TimelyInv, IndexInv, TypeOK, KnownLeaseIsMinted, LeaseState,
            JobIndexComplete, JobIndexSound, leaseVars, timeVars
<1>1. ASSUME NEW l \in Lease, NEW j \in Job, NEW w \in Worker,
             NEW k \in Key \cup {None}, Swept(j), CreateLease(l, j, w, k)
      PROVE  JobIndexComplete'
  <2>1. \A m \in leases : lstate[m] = "ACTIVE" => ljob[m] # j
    BY <1>1, NoneIsNew DEF Swept, Lapsed, CreateLease, Leasable, IsActive
  <2> QED BY <1>1, <2>1 DEF CreateLease
<1>2. ASSUME NEW l \in Lease, NEW w \in Worker, RenewLease(l, w)
      PROVE  JobIndexComplete'
  BY <1>2 DEF RenewLease
<1>3. ASSUME NEW l \in Lease, NEW w \in Worker, lstate[l] = "ACTIVE",
             ReleaseLease(l, w)
      PROVE  JobIndexComplete'
  BY <1>3 DEF ReleaseLease, SetState, DropJobs
<1>4. CASE CheckExpiredLeases
  BY <1>4 DEF CheckExpiredLeases, Lapsed, SetState, DropJobs
<1>5. ASSUME NEW w \in Worker, RevokeWorkerLeases(w)
      PROVE  JobIndexComplete'
  BY <1>5 DEF RevokeWorkerLeases, SetState, DropJobs, IsActive
<1>6. ASSUME NEW l \in Lease, RevokeLease(l)
      PROVE  JobIndexComplete'
  BY <1>6 DEF RevokeLease, SetState, DropJobs
<1>7. ASSUME NEW l \in Lease, Lapse(l)
      PROVE  JobIndexComplete'
  BY <1>7 DEF Lapse
<1>8. ASSUME NEW l \in Lease, Age(l)
      PROVE  JobIndexComplete'
  BY <1>8 DEF Age
<1>9. CASE CleanupOldLeases
  BY <1>9 DEF CleanupOldLeases
<1>10. CASE UNCHANGED vars
  BY <1>10 DEF vars
<1> QED
  BY <1>1, <1>2, <1>3, <1>4, <1>5, <1>6, <1>7, <1>8, <1>9, <1>10
     DEF TimelyNext

\* With sweeps before every grant and releases only of ACTIVE leases, a job
\* never has two leases: rule 4 of the Lease docstring.
THEOREM ExclusiveWhenTimely == TimelySpec => []OneActiveLeasePerJob
<1>1. Init => TimelyInv
  BY IndexInvInit DEF TimelyInv, Init, JobIndexComplete
<1>2. TimelyInv => OneActiveLeasePerJob
  BY DEF TimelyInv, JobIndexComplete, OneActiveLeasePerJob
<1> QED BY <1>1, <1>2, TimelyInvStep, PTL DEF TimelySpec
=============================================================================
