---------------------------- MODULE JobLifecycle ----------------------------
(***************************************************************************)
(* What the master promises about one job, whatever its clients do: it has *)
(* at most one owner at a time; an owner is replaced only through the      *)
(* queue, and every return to the queue starts a later attempt, so no      *)
(* attempt is ever owned by two workers; a job that ended without an owner *)
(* is over for good.  Several jobs may take a step at once.                *)
(***************************************************************************)
EXTENDS Naturals

CONSTANTS Job, Worker, None

VARIABLES phase, owner, attempt

jobs == <<phase, owner, attempt>>

Init ==
  /\ phase = [j \in Job |-> "absent"]
  /\ owner = [j \in Job |-> None]
  /\ attempt = [j \in Job |-> 0]

Keeps(j) == owner'[j] = owner[j] /\ attempt'[j] = attempt[j]

Submit(j) == phase[j] = "absent" /\ phase'[j] = "queued" /\ Keeps(j)

Grant(j) ==
  /\ phase[j] = "queued" /\ phase'[j] = "held"
  /\ owner'[j] \in Worker
  /\ attempt'[j] = attempt[j]

Requeue(j) ==
  /\ phase[j] \in {"queued", "held", "ended"} /\ phase'[j] = "queued"
  /\ phase[j] = "ended" => owner[j] # None
  /\ owner'[j] = None
  /\ attempt'[j] > attempt[j]

End(j) ==
  phase[j] \in {"queued", "held"} /\ phase'[j] = "ended" /\ Keeps(j)

\* A late report of the last owner may take an ended job up again.
Reopen(j) ==
  phase[j] = "ended" /\ owner[j] # None /\ phase'[j] = "held" /\ Keeps(j)

Rest(j) == phase'[j] = phase[j] /\ Keeps(j)

Advance(j) ==
  Submit(j) \/ Grant(j) \/ Requeue(j) \/ End(j) \/ Reopen(j) \/ Rest(j)

Next == \A j \in Job : Advance(j)

Spec == Init /\ [][Next]_jobs
=============================================================================
