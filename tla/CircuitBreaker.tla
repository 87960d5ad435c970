--------------------------- MODULE CircuitBreaker ---------------------------
(***************************************************************************)
(* One circuit breaker (core/performance/circuit_breaker.py) shared by     *)
(* several callers.  The breaker decides when a call begins and counts     *)
(* when it ends; in between, the calls of other callers open, half-open    *)
(* and close it, and the count is taken in whatever state they left.       *)
(* Each operation runs under the breaker's lock and is one step.           *)
(***************************************************************************)
EXTENDS Naturals

CONSTANTS
  Caller,
  FailureThreshold,
  SuccessThreshold

ASSUME ThresholdsArePositive ==
  FailureThreshold \in Nat \ {0} /\ SuccessThreshold \in Nat \ {0}

VARIABLES
  mended,       \* the service behind the breaker has recovered for good
  circuit,      \* _state
  lapsed,       \* failures in _failures that are older than the window
  recent,       \* the other failures in _failures
  successes,    \* _successes
  resetDue,     \* reset_timeout has passed since _opened_at
  calling       \* callers whose call has been let through

breakerVars == <<mended, circuit, lapsed, recent, successes, resetDue, calling>>

Saturated == FailureThreshold + 1  \* bound: no comparison tells more failures apart

AddOne(n) == IF n < Saturated THEN n + 1 ELSE n

BreakerTypeOK ==
  /\ mended \in BOOLEAN
  /\ circuit \in {"CLOSED", "OPEN", "HALF_OPEN"}
  /\ lapsed \in 0 .. Saturated /\ recent \in 0 .. Saturated
  /\ successes \in 0 .. SuccessThreshold
  /\ resetDue \in BOOLEAN
  /\ calling \subseteq Caller

BreakerInit ==
  /\ mended = FALSE /\ circuit = "CLOSED"
  /\ lapsed = 0 /\ recent = 0 /\ successes = 0
  /\ resetDue = FALSE /\ calling = {}

----------------------------------------------------------------------------
\* _transition_to, for a state other than the present one.
ToOpen ==
  circuit' = "OPEN" /\ successes' = 0 /\ resetDue' = FALSE

ToHalfOpen == circuit' = "HALF_OPEN" /\ successes' = 0

ToClosed_KeepsFailures ==
  circuit' = "CLOSED" /\ successes' = 0 /\ UNCHANGED <<lapsed, recent>>

ToClosed ==
  circuit' = "CLOSED" /\ successes' = 0 /\ lapsed' = 0 /\ recent' = 0

\* _check_state_transition: an open circuit whose time is over lets probes
\* through, a closed one forgets the failures that have left the window.
CheckTransition_ForgetsProbes ==
  \/ circuit = "OPEN" /\ resetDue /\ ToHalfOpen /\ UNCHANGED lapsed
  \/ circuit = "OPEN" /\ ~resetDue /\ UNCHANGED <<circuit, lapsed, successes>>
  \/ circuit = "CLOSED" /\ lapsed' = 0 /\ UNCHANGED <<circuit, successes>>
  \/ circuit = "HALF_OPEN" /\ successes' = 0 /\ UNCHANGED <<circuit, lapsed>>

CheckTransition ==
  \/ circuit = "OPEN" /\ resetDue /\ ToHalfOpen /\ UNCHANGED lapsed
  \/ circuit = "OPEN" /\ ~resetDue /\ UNCHANGED <<circuit, lapsed, successes>>
  \/ circuit = "CLOSED" /\ lapsed' = 0 /\ UNCHANGED <<circuit, successes>>
  \/ circuit = "HALF_OPEN" /\ UNCHANGED <<circuit, lapsed, successes>>

\* _can_execute at the start of call and call_sync.
BeginCall(c) ==
  /\ c \notin calling
  /\ CheckTransition
  /\ calling' = IF circuit' = "OPEN" THEN calling ELSE calling \cup {c}
  /\ UNCHANGED <<mended, recent, resetDue>>

\* _record_success: only successes recorded while half-open count, those of
\* calls begun before the circuit opened among them.
SucceedCall(c) ==
  /\ c \in calling /\ calling' = calling \ {c}
  /\ IF circuit = "HALF_OPEN"
     THEN IF successes + 1 >= SuccessThreshold
          THEN ToClosed
          ELSE successes' = successes + 1 /\ UNCHANGED <<circuit, lapsed, recent>>
     ELSE UNCHANGED <<circuit, lapsed, recent, successes>>
  /\ UNCHANGED <<mended, resetDue>>

\* _record_failure: every failure is kept, also while the circuit is open; the
\* ones older than the window count until the next check.
OpensOnFailure ==
  \/ circuit = "HALF_OPEN"
  \/ circuit = "CLOSED" /\ lapsed + recent + 1 >= FailureThreshold

FailCall(c) ==
  /\ c \in calling /\ calling' = calling \ {c}
  /\ ~mended
  /\ recent' = AddOne(recent)
  /\ IF OpensOnFailure THEN ToOpen ELSE UNCHANGED <<circuit, successes, resetDue>>
  /\ UNCHANGED <<mended, lapsed>>

\* An excluded exception, and the cancellation of the caller: nothing counts.
UncountedEnd(c) ==
  /\ c \in calling /\ calling' = calling \ {c}
  /\ ~mended
  /\ UNCHANGED <<mended, circuit, lapsed, recent, successes, resetDue>>

\* reset
ResetBreaker ==
  /\ ~mended
  /\ ToClosed
  /\ resetDue' = FALSE
  /\ UNCHANGED <<mended, calling>>

\* force_open: an open circuit keeps the time it opened at.
ForceOpen ==
  /\ ~mended /\ circuit # "OPEN"
  /\ ToOpen
  /\ UNCHANGED <<mended, lapsed, recent, calling>>

----------------------------------------------------------------------------
\* Time: reset_timeout and failure_window pass; the service recovers.
ResetFallsDue ==
  /\ circuit = "OPEN" /\ ~resetDue /\ resetDue' = TRUE
  /\ UNCHANGED <<mended, circuit, lapsed, recent, successes, calling>>

FailuresLapse ==
  /\ recent > 0
  /\ lapsed' = IF lapsed + recent > Saturated THEN Saturated ELSE lapsed + recent
  /\ recent' = 0
  /\ UNCHANGED <<mended, circuit, successes, resetDue, calling>>

Mend ==
  /\ ~mended /\ mended' = TRUE
  /\ UNCHANGED <<circuit, lapsed, recent, successes, resetDue, calling>>

BreakerMoves ==
  \/ \E c \in Caller : BeginCall(c) \/ SucceedCall(c)
  \/ ResetFallsDue

BreakerNext ==
  \/ BreakerMoves
  \/ \E c \in Caller : FailCall(c) \/ UncountedEnd(c)
  \/ ResetBreaker \/ ForceOpen \/ FailuresLapse \/ Mend

BreakerSpec == BreakerInit /\ [][BreakerNext]_breakerVars

\* Callers go on calling and calls end.
BreakerFairness == WF_breakerVars(BreakerMoves)

----------------------------------------------------------------------------
\* A closed circuit holds fewer failures than open it and a half-open one fewer
\* successes than close it, whichever calls end in whatever order: no circuit
\* is stuck past its threshold, and one that has just closed does not open on
\* the failures of the outage before (_transition_to clears them).
CountsBelowThresholds ==
  /\ circuit = "CLOSED" => lapsed + recent < FailureThreshold
  /\ circuit = "HALF_OPEN" => successes < SuccessThreshold

\* Once the service has recovered and callers keep calling, the circuit closes
\* (_check_state_transition, _record_success).
BreakerCloses == mended ~> circuit = "CLOSED"
=============================================================================
