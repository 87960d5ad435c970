----------------------------- MODULE StateSync -----------------------------
(***************************************************************************)
(* Replication of the leader's registrations and submissions to the other  *)
(* masters (master/ha/state_sync.py).  Updates are numbered, queued,       *)
(* posted in batches and taken in by number; a full sync registers all     *)
(* workers once more.  A follower gives what it takes in an id of its own, *)
(* so only registrations and submissions have an effect there: an update   *)
(* that names a worker or job by the leader's id finds nothing.            *)
(*                                                                         *)
(* reliable singles out the runs without a lost request, a restart or a    *)
(* change of leader, where a request is handled before the next is sent.   *)
(***************************************************************************)
EXTENDS Naturals, Sequences, SequencesExt, FiniteSets

CONSTANTS
  SyncMaster,
  SyncWorker,       \* registrations
  SyncJob,          \* submissions
  MaxPendingUpdates,
  MaxCopies,        \* bound: more copies of a worker are not told apart
  MaxPosted,        \* bound on requests on their way
  SyncMaxAccepted,  \* bound on items accepted by unreliable masters
  SyncMaxRestarts   \* bound on restarts

Item == SyncWorker \cup SyncJob

ASSUME SyncConstants ==
  /\ IsFiniteSet(SyncWorker) /\ IsFiniteSet(SyncJob)
  /\ MaxPendingUpdates \in Nat /\ MaxCopies \in Nat \ {0}
  /\ SyncMaxRestarts \in Nat

VARIABLES
  reliable,
  leading,          \* masters whose is_leader is true
  accepted,         \* items some master has accepted from a client
  seq,              \* _sequence
  pendingUpdates,   \* _pending_updates
  lastReceived,     \* _last_received_sequence
  copies,           \* how often a master's state holds each item
  posted,           \* requests on their way
  cutOff,           \* items dropped from a full queue
  restarts

syncVars == <<reliable, leading, accepted, seq, pendingUpdates, lastReceived,
              copies, posted, cutOff, restarts>>

Update == [seq: 1 .. Cardinality(Item), item: Item]
NoCopies == [i \in Item |-> 0]

\* A batch holds updates; a full sync the sender's workers and its sequence.
RequestType(p) ==
  /\ p.from \in SyncMaster /\ p.to \in SyncMaster /\ p.full \in BOOLEAN
  /\ p.seq \in 0 .. Cardinality(Item)
  /\ ToSet(p.updates) \subseteq Update
  /\ p.held \in [Item -> 0 .. MaxCopies]

SyncTypeOK ==
  /\ reliable \in BOOLEAN
  /\ leading \subseteq SyncMaster /\ accepted \subseteq Item
  /\ seq \in [SyncMaster -> 0 .. Cardinality(Item)]
  /\ \A m \in SyncMaster : /\ Len(pendingUpdates[m]) <= MaxPendingUpdates
                           /\ ToSet(pendingUpdates[m]) \subseteq Update
  /\ lastReceived \in [SyncMaster -> [SyncMaster -> 0 .. Cardinality(Item)]]
  /\ copies \in [SyncMaster -> [Item -> 0 .. MaxCopies]]
  /\ \A p \in posted : RequestType(p)
  /\ cutOff \subseteq accepted /\ restarts \in 0 .. SyncMaxRestarts

SyncInit ==
  /\ reliable \in BOOLEAN
  /\ \E m \in SyncMaster : leading = {m}
  /\ accepted = {}
  /\ seq = [m \in SyncMaster |-> 0]
  /\ pendingUpdates = [m \in SyncMaster |-> <<>>]
  /\ lastReceived = [m \in SyncMaster |-> [k \in SyncMaster |-> 0]]
  /\ copies = [m \in SyncMaster |-> NoCopies]
  /\ posted = {} /\ cutOff = {} /\ restarts = 0

Capped(n) == IF n > MaxCopies THEN MaxCopies ELSE n
Sum2(f, g) == [i \in Item |-> Capped(f[i] + g[i])]
\* Each update at one of the positions once.
Counts(s, positions) ==
  [i \in Item |-> Cardinality({n \in positions : s[n].item = i})]
OthersThan(m) == SyncMaster \ {m}
Quiet(m) == \A p \in posted : p.from # m
MayPost(m) ==
  IF reliable THEN Quiet(m)
  ELSE Cardinality(posted) + Cardinality(SyncMaster) - 1 <= MaxPosted

----------------------------------------------------------------------------
\* queue_update: the queue keeps its newest entries.
QueueUpdate(m, i) ==
  LET queue == Append(pendingUpdates[m], [seq |-> seq[m] + 1, item |-> i])
      full  == Len(queue) > MaxPendingUpdates
  IN  /\ seq' = [seq EXCEPT ![m] = @ + 1]
      /\ pendingUpdates' =
           [pendingUpdates EXCEPT ![m] = IF full THEN Tail(queue) ELSE queue]
      /\ cutOff' = cutOff \cup IF full THEN {Head(queue).item} ELSE {}

\* A registration or a submission at an active master; one that no longer takes
\* itself for the leader queues nothing.
Accept(m, i) ==
  /\ i \notin accepted
  /\ IF reliable THEN m \in leading ELSE Cardinality(accepted) < SyncMaxAccepted
  /\ accepted' = accepted \cup {i}
  /\ copies' = [copies EXCEPT ![m][i] = 1]
  /\ IF m \in leading THEN QueueUpdate(m, i)
     ELSE UNCHANGED <<seq, pendingUpdates, cutOff>>
  /\ UNCHANGED <<reliable, leading, lastReceived, posted, restarts>>

\* _sync_loop: the queue is emptied before it is sent.
SendUpdates(m) ==
  /\ m \in leading /\ pendingUpdates[m] # <<>>
  /\ MayPost(m)
  /\ posted' = posted \cup
       {[from |-> m, to |-> k, full |-> FALSE, seq |-> 0,
         updates |-> pendingUpdates[m], held |-> NoCopies] : k \in OthersThan(m)}
  /\ pendingUpdates' = [pendingUpdates EXCEPT ![m] = <<>>]
  /\ UNCHANGED <<reliable, leading, accepted, seq, lastReceived, copies, cutOff,
                 restarts>>

FullSync(m, held) ==
  /\ m \in leading
  /\ MayPost(m)
  /\ posted' = posted \cup
       {[from |-> m, to |-> k, full |-> TRUE, seq |-> seq[m],
         updates |-> <<>>, held |-> held] : k \in OthersThan(m)}
  /\ UNCHANGED <<reliable, leading, accepted, seq, pendingUpdates, lastReceived,
                 copies, cutOff, restarts>>

\* _full_sync_loop: with a job in the state _get_full_state raises, and nothing
\* is sent.
SendFullSync(m) ==
  /\ \A j \in SyncJob : copies[m][j] = 0
  /\ FullSync(m, copies[m])

\* handle_updates: a leader ignores them, a follower those it is past.
TakeUpdates(p) ==
  LET k     == p.to
      fresh == {n \in DOMAIN p.updates : p.updates[n].seq > lastReceived[k][p.from]}
  IN  /\ p \in posted /\ ~ p.full
      /\ posted' = posted \ {p}
      /\ \/ /\ k \in leading \/ fresh = {}
            /\ UNCHANGED <<copies, lastReceived>>
         \/ /\ k \notin leading
            /\ copies' = [copies EXCEPT ![k] = Sum2(@, Counts(p.updates, fresh))]
            /\ \E last \in fresh :
                 /\ \A n \in fresh : n <= last
                 /\ lastReceived' =
                      [lastReceived EXCEPT ![k][p.from] = p.updates[last].seq]
      /\ UNCHANGED <<reliable, leading, accepted, seq, pendingUpdates, cutOff,
                     restarts>>

TakeFullSync_Ahead(p) ==
  LET k == p.to
  IN  /\ p \in posted /\ p.full
      /\ posted' = posted \ {p}
      /\ IF k \in leading THEN UNCHANGED <<copies, lastReceived>>
         ELSE /\ copies' = [copies EXCEPT ![k] = Sum2(@, p.held)]
              /\ lastReceived' = [lastReceived EXCEPT
                   ![k][p.from] = IF p.seq < Cardinality(Item)
                                  THEN p.seq + 1 ELSE p.seq]
      /\ UNCHANGED <<reliable, leading, accepted, seq, pendingUpdates, cutOff,
                     restarts>>

\* handle_full_sync: every worker is registered, known or not; the number is
\* taken over, be it behind.
TakeFullSync(p) ==
  LET k == p.to
  IN  /\ p \in posted /\ p.full
      /\ posted' = posted \ {p}
      /\ IF k \in leading THEN UNCHANGED <<copies, lastReceived>>
         ELSE /\ copies' = [copies EXCEPT ![k] = Sum2(@, p.held)]
              /\ lastReceived' = [lastReceived EXCEPT ![k][p.from] = p.seq]
      /\ UNCHANGED <<reliable, leading, accepted, seq, pendingUpdates, cutOff,
                     restarts>>

LoseRequest(p) ==
  /\ ~ reliable /\ p \in posted
  /\ posted' = posted \ {p}
  /\ UNCHANGED <<reliable, leading, accepted, seq, pendingUpdates, lastReceived,
                 copies, cutOff, restarts>>

\* Leadership comes and goes, for a while with two leaders or none.
ChangeLeading(m) ==
  /\ ~ reliable
  /\ leading' = IF m \in leading THEN leading \ {m} ELSE leading \cup {m}
  /\ UNCHANGED <<reliable, accepted, seq, pendingUpdates, lastReceived, copies,
                 posted, cutOff, restarts>>

\* __init__: a master that comes back has nothing and numbers from 1 again.
RestartMaster(m) ==
  /\ ~ reliable /\ restarts < SyncMaxRestarts
  /\ restarts' = restarts + 1
  /\ leading' = leading \ {m}
  /\ seq' = [seq EXCEPT ![m] = 0]
  /\ pendingUpdates' = [pendingUpdates EXCEPT ![m] = <<>>]
  /\ lastReceived' = [lastReceived EXCEPT ![m] = [k \in SyncMaster |-> 0]]
  /\ copies' = [copies EXCEPT ![m] = NoCopies]
  /\ UNCHANGED <<reliable, accepted, posted, cutOff>>

SyncNext ==
  \/ \E m \in SyncMaster :
       \/ \E i \in Item : Accept(m, i)
       \/ SendUpdates(m) \/ SendFullSync(m)
       \/ ChangeLeading(m) \/ RestartMaster(m)
  \/ \E p \in posted : TakeUpdates(p) \/ TakeFullSync(p) \/ LoseRequest(p)

SyncSpec == SyncInit /\ [][SyncNext]_syncVars

\* The loop of the leader runs for ever (full syncs alternate with its batches);
\* requests arrive.
SyncSends == \E m \in SyncMaster : SendUpdates(m)
SyncTakes == \E p \in posted : TakeUpdates(p) \/ TakeFullSync(p)

SyncFairness == WF_syncVars(SyncSends) /\ WF_syncVars(SyncTakes)

----------------------------------------------------------------------------
\* Properties.

\* No master's state ever holds a submission twice: neither a late batch nor a
\* full sync on top of the updates, nor numbering that starts again, submits it
\* anew.
JobsArriveOnce == \A m \in SyncMaster, j \in SyncJob : copies[m][j] <= 1

\* And between masters that neither fail nor change their leader every submission
\* and registration reaches all, unless it was cut off from a full queue: the
\* numbers a full sync leaves behind skip nothing that was not in it.
Everywhere(i) == \A m \in SyncMaster : copies[m][i] > 0

ItemsArriveOnce ==
  /\ []JobsArriveOnce
  /\ reliable => []<>(\A i \in accepted : Everywhere(i) \/ i \in cutOff)
=============================================================================
