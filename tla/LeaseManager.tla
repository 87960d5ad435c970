---------------------------- MODULE LeaseManager ----------------------------
(***************************************************************************)
(* The lease manager of models/lease.py: a lease is a temporary claim of   *)
(* one worker on one job.  The manager keeps the leases themselves and     *)
(* three indexes over them (by job, by worker, and the cache of released   *)
(* leases), which every operation has to keep in step.                     *)
(*                                                                         *)
(* Wall-clock time is abstracted to the comparisons the code makes with    *)
(* it: `due' holds the leases whose expires_at has passed, `aged' those    *)
(* created before the cleanup cutoff, `stale' the released-cache entries   *)
(* older than it.  Time may pass any of these marks between two calls.     *)
(***************************************************************************)
EXTENDS Naturals, FiniteSets

CONSTANTS
  Lease,          \* lease ids; every create_lease takes one never used before
  Job,
  Worker,
  Key,            \* idempotency keys
  None,           \* Python's None
  MaxRenewals     \* LeaseConfig.max_renewals

ASSUME NoneIsNew == None \notin Lease \cup Job \cup Worker \cup Key
ASSUME MaxRenewalsIsNat == MaxRenewals \in Nat

VARIABLES
  leases,         \* the keys of _leases
  lstate,         \* Lease.state, "UNUSED" for an id not yet minted
  ljob,           \* Lease.job_id
  lworker,        \* Lease.worker_id
  renewals,       \* Lease.renewal_count
  jobLease,       \* _job_to_lease
  workerLeases,   \* _worker_leases
  completed,      \* the keys of _completed_leases
  idem,           \* _idempotency_cache
  due, aged, stale

leaseVars == <<lstate, ljob, lworker, renewals>>
timeVars  == <<due, aged, stale>>
vars == <<leases, lstate, ljob, lworker, renewals, jobLease, workerLeases,
          completed, idem, due, aged, stale>>

LeaseState == {"UNUSED", "ACTIVE", "EXPIRED", "RELEASED", "REVOKED"}

TypeOK ==
  /\ leases \subseteq Lease
  /\ lstate \in [Lease -> LeaseState]
  /\ ljob \in [Lease -> Job \cup {None}]
  /\ lworker \in [Lease -> Worker \cup {None}]
  /\ renewals \in [Lease -> 0 .. MaxRenewals]
  /\ jobLease \in [Job -> Lease \cup {None}]
  /\ workerLeases \in [Worker -> SUBSET Lease]
  /\ completed \subseteq Lease
  /\ idem \in [Key -> Job \cup {None}]
  /\ due \subseteq Lease /\ aged \subseteq Lease /\ stale \subseteq Lease

Init ==
  /\ leases = {} /\ completed = {}
  /\ lstate = [l \in Lease |-> "UNUSED"]
  /\ ljob = [l \in Lease |-> None]
  /\ lworker = [l \in Lease |-> None]
  /\ renewals = [l \in Lease |-> 0]
  /\ jobLease = [j \in Job |-> None]
  /\ workerLeases = [w \in Worker |-> {}]
  /\ idem = [k \in Key |-> None]
  /\ due = {} /\ aged = {} /\ stale = {}

----------------------------------------------------------------------------
\* Helpers.

\* Lease.is_active: ACTIVE and not yet past its deadline.
IsActive(l) == lstate[l] = "ACTIVE" /\ l \notin due

\* The names that end in _Clears, _Forgets, _Unchecked, ... are faulty variants
\* of the definition that follows them: each is a slip the code could contain,
\* and some property must notice it.

\* `if lease.job_id in self._job_to_lease: del ...' for the jobs of a set of
\* leases: the entry goes whichever lease it points to.
DropJobs(L) ==
  [j \in Job |-> IF \E l \in L : ljob[l] = j THEN None ELSE jobLease[j]]

DiscardFromWorkers_Clears(L) ==
  [w \in Worker |-> IF \E l \in L : lworker[l] = w THEN {} ELSE workerLeases[w]]

\* self._worker_leases[worker].discard(lease_id) for every lease of a set.
DiscardFromWorkers(L) ==
  [w \in Worker |-> workerLeases[w] \ {l \in L : lworker[l] = w}]

\* lease.state = s for every lease of a set.
SetState(L, s) == [l \in Lease |-> IF l \in L THEN s ELSE lstate[l]]

\* What create_lease answers to a key it has seen before, creating nothing.
IdempotentReply(j, k) == IF idem[k] = j THEN jobLease[j] ELSE None

Leasable_Unchecked(j) == TRUE

\* The job may be leased: it has no mapped lease, or one not active any more.
Leasable(j) == jobLease[j] # None => ~ IsActive(jobLease[j])

----------------------------------------------------------------------------
\* Operations.  A call that only answers (a known idempotency key, an unknown
\* or foreign lease, an exhausted renewal) leaves the state alone and is a
\* stuttering step.

\* create_lease.  k = None is a call without an idempotency key.
CreateLease(l, j, w, k) ==
  /\ lstate[l] = "UNUSED"
  /\ k # None => idem[k] = None
  /\ Leasable(j)
  /\ leases' = leases \cup {l}
  /\ lstate' = [lstate EXCEPT ![l] = "ACTIVE"]
  /\ ljob' = [ljob EXCEPT ![l] = j]
  /\ lworker' = [lworker EXCEPT ![l] = w]
  /\ jobLease' = [jobLease EXCEPT ![j] = l]
  /\ workerLeases' = [workerLeases EXCEPT ![w] = @ \cup {l}]
  /\ idem' = [x \in Key |-> IF x = k THEN j ELSE idem[x]]
  /\ UNCHANGED <<renewals, completed, timeVars>>

RenewLease_Unlimited(l, w) ==
  /\ l \in leases
  /\ lworker[l] = w /\ IsActive(l)
  /\ renewals' = [renewals EXCEPT ![l] = @ + 1]
  /\ UNCHANGED <<leases, lstate, ljob, lworker, jobLease, workerLeases,
                 completed, idem, timeVars>>

\* renew_lease: the owner of an active lease, up to max_renewals times.  The
\* new deadline lies in the future, so `due' does not change.
RenewLease(l, w) ==
  /\ l \in leases
  /\ lworker[l] = w /\ IsActive(l)
  /\ renewals[l] < MaxRenewals
  /\ renewals' = [renewals EXCEPT ![l] = @ + 1]
  /\ UNCHANGED <<leases, lstate, ljob, lworker, jobLease, workerLeases,
                 completed, idem, timeVars>>

\* release_lease: the owner, whatever the state of the lease.
ReleaseLease(l, w) ==
  /\ l \notin completed
  /\ l \in leases
  /\ lworker[l] = w
  /\ lstate' = SetState({l}, "RELEASED")
  /\ completed' = completed \cup {l}
  /\ jobLease' = DropJobs({l})
  /\ workerLeases' = DiscardFromWorkers({l})
  /\ UNCHANGED <<leases, ljob, lworker, renewals, idem, timeVars>>

Lapsed_AnyState == leases \cap due

\* check_expired_leases: the leases it returns for requeueing.
Lapsed == {l \in leases : lstate[l] = "ACTIVE" /\ l \in due}

CheckExpiredLeases ==
  /\ Lapsed # {}
  /\ lstate' = SetState(Lapsed, "EXPIRED")
  /\ jobLease' = DropJobs(Lapsed)
  /\ workerLeases' = DiscardFromWorkers(Lapsed)
  /\ UNCHANGED <<leases, ljob, lworker, renewals, completed, idem, timeVars>>

\* revoke_worker_leases: revokes those still active, forgets all of them.
RevokeWorkerLeases(w) ==
  LET revoked == {l \in workerLeases[w] \cap leases : IsActive(l)}
  IN  /\ lstate' = SetState(revoked, "REVOKED")
      /\ jobLease' = DropJobs(revoked)
      /\ workerLeases' = [workerLeases EXCEPT ![w] = {}]
      /\ UNCHANGED <<leases, ljob, lworker, renewals, completed, idem,
                     timeVars>>

\* revoke_lease: a no-op, answered True, unless the lease is ACTIVE.
RevokeLease(l) ==
  /\ l \in leases
  /\ lstate[l] = "ACTIVE"
  /\ lstate' = SetState({l}, "REVOKED")
  /\ jobLease' = DropJobs({l})
  /\ workerLeases' = DiscardFromWorkers({l})
  /\ UNCHANGED <<leases, ljob, lworker, renewals, completed, idem, timeVars>>

CleanupOldLeases_AnyState ==
  /\ leases' = leases \ aged
  /\ completed' = completed \ stale
  /\ UNCHANGED <<leaseVars, jobLease, workerLeases, idem, timeVars>>

\* cleanup_old_leases: forgets old leases that ended, then old cache entries.
CleanupOldLeases ==
  /\ leases' = {l \in leases : lstate[l] = "ACTIVE" \/ l \notin aged}
  /\ completed' = completed \ stale
  /\ UNCHANGED <<leaseVars, jobLease, workerLeases, idem, timeVars>>

\* The clock: a live lease reaches its deadline, a lease or a cache entry the
\* cleanup cutoff.  A cache entry is never older than its lease.
Lapse(l) ==
  /\ l \in leases \ due
  /\ due' = due \cup {l}
  /\ UNCHANGED <<leases, leaseVars, jobLease, workerLeases, completed, idem,
                 aged, stale>>

Age(l) ==
  /\ l \in leases
  /\ \/ l \notin aged /\ aged' = aged \cup {l} /\ UNCHANGED stale
     \/ l \in aged \cap (completed \ stale)
        /\ stale' = stale \cup {l} /\ UNCHANGED aged
  /\ UNCHANGED <<leases, leaseVars, jobLease, workerLeases, completed, idem,
                 due>>

Next ==
  \/ \E l \in Lease, j \in Job, w \in Worker, k \in Key \cup {None} :
        CreateLease(l, j, w, k)
  \/ \E l \in Lease, w \in Worker : RenewLease(l, w) \/ ReleaseLease(l, w)
  \/ CheckExpiredLeases
  \/ \E w \in Worker : RevokeWorkerLeases(w)
  \/ \E l \in Lease : RevokeLease(l) \/ Lapse(l) \/ Age(l)
  \/ CleanupOldLeases

Spec == Init /\ [][Next]_vars

\* The discipline under which a job has one owner: whoever leases a job has
\* swept its lapsed lease first, and only a lease still ACTIVE is released.
\* Neither is enforced by the class.
Swept(j) == \A l \in Lapsed : ljob[l] # j

TimelyNext ==
  \/ \E l \in Lease, j \in Job, w \in Worker, k \in Key \cup {None} :
        Swept(j) /\ CreateLease(l, j, w, k)
  \/ \E l \in Lease, w \in Worker :
        RenewLease(l, w) \/ (lstate[l] = "ACTIVE" /\ ReleaseLease(l, w))
  \/ CheckExpiredLeases
  \/ \E w \in Worker : RevokeWorkerLeases(w)
  \/ \E l \in Lease : RevokeLease(l) \/ Lapse(l) \/ Age(l)
  \/ CleanupOldLeases

TimelySpec == Init /\ [][TimelyNext]_vars

----------------------------------------------------------------------------
\* Properties.

\* A job's index entry is always a known lease of that very job that nobody
\* has ended: no release, sweep or revocation leaves a dangling entry.
JobIndexSound ==
  \A j \in Job : jobLease[j] # None =>
    /\ jobLease[j] \in leases
    /\ lstate[jobLease[j]] = "ACTIVE"
    /\ ljob[jobLease[j]] = j

\* A worker's set holds only its own leases, none of them ended.
WorkerIndexSound ==
  \A w \in Worker : \A l \in workerLeases[w] :
    l \in leases /\ lstate[l] = "ACTIVE" /\ lworker[l] = w

\* No release, renewal, sweep, revocation or cleanup leaves an entry of either
\* index behind that names an ended, forgotten or somebody else's lease.
IndexesSound == JobIndexSound /\ WorkerIndexSound

\* No live lease escapes its worker's set, so revoke_worker_leases finds all
\* the leases a lost worker could still renew.
LiveLeaseIndexed ==
  \A l \in leases : IsActive(l) => l \in workerLeases[lworker[l]]

\* A released lease is remembered for as long as the lease itself is kept, so
\* a repeated report of completion is never processed twice: cleanup cannot
\* drop the cache entry and keep the lease.
ReleasedRemembered ==
  \A l \in leases : lstate[l] = "RELEASED" => l \in completed

\* A lease never becomes ACTIVE again once it has ended, a released one stays
\* released, and only a release may still overwrite EXPIRED or REVOKED.
EndedStaysEnded ==
  [][\A l \in Lease :
       /\ lstate[l] \in {"EXPIRED", "REVOKED", "RELEASED"}
       /\ lstate'[l] # lstate[l]
       => lstate[l] # "RELEASED" /\ lstate'[l] = "RELEASED"]_vars

\* Revoking a worker's leases leaves it none that is live.
RevokedWorkerHoldsNothing ==
  [][\A w \in Worker : RevokeWorkerLeases(w) =>
       \A l \in leases : lworker[l] = w => ~ IsActive(l)']_vars

\* Rule 4 of the Lease docstring and rule 1 of create_lease: a job has at most
\* one lease at any time.  Holds under TimelySpec only.
OneActiveLeasePerJob ==
  \A l, m \in leases :
    lstate[l] = "ACTIVE" /\ lstate[m] = "ACTIVE" /\ ljob[l] = ljob[m] => l = m

\* The strengthening that makes it inductive: the job index misses no lease.
JobIndexComplete ==
  \A l \in leases : lstate[l] = "ACTIVE" => jobLease[ljob[l]] = l

=============================================================================
