--------------------------- MODULE ConnectionPool ---------------------------
(***************************************************************************)
(* A started connection pool (pool/connection_pool.py): clients that       *)
(* acquire and release, and the health check that runs beside them, as     *)
(* coroutines of one event loop.  The pool awaits while it validates,      *)
(* creates and closes a connection; only creating, and counting a closed   *)
(* one, hold the pool's lock.                                              *)
(*                                                                         *)
(* steady singles out the runs in which no client is cancelled or runs out *)
(* of its acquire timeout and the factory works.                           *)
(***************************************************************************)
EXTENDS Naturals, Sequences, SequencesExt, FiniteSets

CONSTANTS
  Client, Health,   \* the coroutines; Health is _health_check_loop
  Conn, NoConn,
  MinSizes,         \* values of min_size
  MaxSize,          \* max_size
  MaxFaults         \* bound: validations that fail

Proc == Client \cup {Health}

ASSUME PoolConstants ==
  /\ IsFiniteSet(Client) /\ Health \notin Client
  /\ NoConn \notin Conn

\* start raises when min_size is above max_size.
ASSUME PoolBounds ==
  MaxSize \in Nat /\ MinSizes \subseteq 0 .. MaxSize /\ MaxFaults \in Nat

VARIABLES
  steady,
  minSize,          \* min_size
  queue,            \* _pool
  poolSize,         \* _size
  at,               \* where each coroutine is
  inHand,           \* the connection it validates, closes or has lent
  aside,            \* connections the health check has still to look at
  faults

poolVars == <<steady, minSize, queue, poolSize, at, inHand, aside, faults>>

PoolTypeOK ==
  /\ steady \in BOOLEAN /\ minSize \in MinSizes
  /\ queue \in Seq(Conn) /\ aside \in Seq(Conn)
  /\ poolSize \in 0 .. MaxSize
  /\ at \in [Proc -> {"out", "check", "drop", "lock", "make", "wait", "use",
                      "return", "discard"}]
  /\ inHand \in [Proc -> Conn \cup {NoConn}]
  /\ faults \in 0 .. MaxFaults

\* start: min_size connections are created first.
PoolInit ==
  /\ steady \in BOOLEAN /\ minSize \in MinSizes
  /\ queue \in {s \in [1 .. minSize -> Conn] : IsInjective(s)}
  /\ poolSize = minSize
  /\ at = [p \in Proc |-> "out"]
  /\ inHand = [p \in Proc |-> NoConn]
  /\ aside = <<>> /\ faults = 0

Held == {inHand[p] : p \in Proc} \ {NoConn}
InPool == ToSet(queue) \cup ToSet(aside) \cup Held

LockFree == \A p \in Proc : at[p] # "make"

Goes(p, place, k) ==
  /\ at' = [at EXCEPT ![p] = place]
  /\ inHand' = [inHand EXCEPT ![p] = k]

----------------------------------------------------------------------------
\* The top of _acquire's loop, with the pool as the step before left it: an
\* idle connection is validated, else one is created if there is room, else
\* the client waits for the queue.
Look(c, q, size) ==
  /\ IF q # <<>>
     THEN Goes(c, "check", Head(q)) /\ queue' = Tail(q)
     ELSE Goes(c, IF size < MaxSize THEN "lock" ELSE "wait", NoConn) /\ queue' = q
  /\ poolSize' = size

Acquire(c) ==
  /\ at[c] = "out"
  /\ Look(c, queue, poolSize)
  /\ UNCHANGED <<steady, minSize, aside, faults>>

\* The wait for the queue ends with a connection, ...
TakeFromQueue(c) ==
  /\ at[c] = "wait" /\ queue # <<>>
  /\ Look(c, queue, poolSize)
  /\ UNCHANGED <<steady, minSize, aside, faults>>

\* ... after at most a second without one, ...
LookAgain_OnlyAtTheQueue(c) == FALSE /\ UNCHANGED poolVars

LookAgain(c) ==
  /\ at[c] = "wait" /\ poolSize < MaxSize
  /\ Look(c, queue, poolSize)
  /\ UNCHANGED <<steady, minSize, aside, faults>>

\* ... or at the deadline.
RunOutOfTime(c) ==
  /\ ~steady /\ at[c] = "wait"
  /\ Goes(c, "out", NoConn)
  /\ UNCHANGED <<steady, minSize, queue, poolSize, aside, faults>>

\* _validate: too old, too long idle or not healthy.
Faulty == faults < MaxFaults /\ faults' = faults + 1

Validated(c) ==
  /\ at[c] = "check"
  /\ \/ Goes(c, "use", inHand[c]) /\ UNCHANGED faults
     \/ Faulty /\ Goes(c, "drop", inHand[c])
  /\ UNCHANGED <<steady, minSize, queue, poolSize, aside>>

\* _destroy_connection closes first and counts under the lock.
Dropped(c) ==
  /\ at[c] = "drop" /\ LockFree
  /\ Look(c, queue, poolSize - 1)
  /\ UNCHANGED <<steady, minSize, aside, faults>>

\* _release; too many errors count like a failed validation.
Release(c) ==
  /\ at[c] = "use" /\ Goes(c, "return", inHand[c])
  /\ UNCHANGED <<steady, minSize, queue, poolSize, aside, faults>>

Returned(c) ==
  /\ at[c] = "return"
  /\ \/ /\ queue' = Append(queue, inHand[c])
        /\ Goes(c, "out", NoConn) /\ UNCHANGED faults
     \/ Faulty /\ Goes(c, "discard", inHand[c]) /\ UNCHANGED queue
  /\ UNCHANGED <<steady, minSize, poolSize, aside>>

Discarded(c) ==
  /\ at[c] = "discard" /\ LockFree
  /\ poolSize' = poolSize - 1
  /\ Goes(c, "out", NoConn)
  /\ UNCHANGED <<steady, minSize, queue, aside, faults>>

----------------------------------------------------------------------------
\* _create_connection, up to the await of the factory: the size is looked at
\* again under the lock.  A client that finds no room waits for the queue, the
\* health check ends.
Otherwise(p) == IF p = Health THEN "out" ELSE "wait"

EnterCreate_Unchecked(p) ==
  /\ at[p] = "lock" /\ LockFree
  /\ Goes(p, "make", NoConn)
  /\ UNCHANGED <<steady, minSize, queue, poolSize, aside, faults>>

EnterCreate(p) ==
  /\ at[p] = "lock" /\ LockFree
  /\ Goes(p, IF poolSize < MaxSize THEN "make" ELSE Otherwise(p), NoConn)
  /\ UNCHANGED <<steady, minSize, queue, poolSize, aside, faults>>

\* ... and after it: the new connection goes to the end of the queue.  The
\* client takes the first of the queue, which need not be the one it created,
\* and uses it without a validation.
Created(p) ==
  /\ at[p] = "make"
  /\ poolSize' = poolSize + 1
  /\ \E k \in Conn \ InPool :
       LET q == Append(queue, k)
       IN  IF p = Health
           THEN /\ queue' = q
                /\ Goes(p, IF poolSize + 1 < minSize THEN "lock" ELSE "out", NoConn)
           ELSE queue' = Tail(q) /\ Goes(p, "use", Head(q))
  /\ UNCHANGED <<steady, minSize, aside, faults>>

CreateFails(p) ==
  /\ ~steady /\ at[p] = "make"
  /\ Goes(p, Otherwise(p), NoConn)
  /\ UNCHANGED <<steady, minSize, queue, poolSize, aside, faults>>

----------------------------------------------------------------------------
\* _health_check: the queue is emptied and its connections come back one by
\* one, then the pool is filled up to min_size.
NextToCheck(rest, size) ==
  IF rest # <<>>
  THEN aside' = Tail(rest) /\ Goes(Health, "check", Head(rest))
  ELSE aside' = <<>> /\ Goes(Health, IF size < minSize THEN "lock" ELSE "out", NoConn)

BeginCheck ==
  /\ at[Health] = "out"
  /\ NextToCheck(queue, poolSize)
  /\ queue' = <<>>
  /\ UNCHANGED <<steady, minSize, poolSize, faults>>

HealthValidated ==
  /\ at[Health] = "check"
  /\ \/ queue' = Append(queue, inHand[Health])
        /\ NextToCheck(aside, poolSize) /\ UNCHANGED faults
     \/ Faulty /\ Goes(Health, "drop", inHand[Health]) /\ UNCHANGED <<queue, aside>>
  /\ UNCHANGED <<steady, minSize, poolSize>>

HealthDropped ==
  /\ at[Health] = "drop" /\ LockFree
  /\ poolSize' = poolSize - 1
  /\ NextToCheck(aside, poolSize - 1)
  /\ UNCHANGED <<steady, minSize, queue, faults>>

\* A client is cancelled: what it validates at that moment is lost to the pool,
\* which goes on counting it.  What it has on loan is released.
Cancel(c) ==
  /\ ~steady
  /\ \/ at[c] \in {"check", "return", "lock", "make", "wait"} /\ Goes(c, "out", NoConn)
     \/ at[c] = "use" /\ Goes(c, "return", inHand[c])
     \/ at[c] = "drop" /\ Goes(c, "discard", inHand[c])
  /\ UNCHANGED <<steady, minSize, queue, poolSize, aside, faults>>

ClientMoves(c) ==
  \/ LookAgain(c) \/ Validated(c) \/ Dropped(c)
  \/ Release(c) \/ Returned(c) \/ Discarded(c)

Makes(p) == EnterCreate(p) \/ Created(p)

PoolNext ==
  \/ \E c \in Client : \/ Acquire(c) \/ TakeFromQueue(c) \/ ClientMoves(c)
                       \/ RunOutOfTime(c) \/ Cancel(c)
  \/ \E p \in Proc : Makes(p) \/ CreateFails(p)
  \/ BeginCheck \/ HealthValidated \/ HealthDropped

PoolSpec == PoolInit /\ [][PoolNext]_poolVars

\* What is under way goes on; the queue hands what is put into it to those who
\* wait, although the health check takes it out from time to time.
PoolMoves ==
  \/ \E c \in Client : ClientMoves(c)
  \/ \E p \in Proc : Makes(p)

HealthMoves == HealthValidated \/ HealthDropped

TakesFromQueue == \E c \in Client : TakeFromQueue(c)

PoolFairness ==
  WF_poolVars(PoolMoves) /\ WF_poolVars(HealthMoves) /\ SF_poolVars(TakesFromQueue)

----------------------------------------------------------------------------
\* A connection is in one place, idle once, in the hands of the health check or
\* of one client, and _size counts it, up to max_size: whoever creates, checks and
\* closes at the same time, two clients never talk over one connection and the
\* pool never exceeds its limit; without cancellations no capacity is lost.
ConnectionsAccounted ==
  /\ Cardinality(InPool)
       = Len(queue) + Len(aside) + Cardinality({p \in Proc : inHand[p] # NoConn})
  /\ Cardinality(InPool) <= poolSize /\ poolSize <= MaxSize
  /\ steady => poolSize = Cardinality(InPool)

\* While clients wait and those that have a connection give it back, some
\* client gets one, also when the connections they wait for are all closed
\* instead of coming back (_acquire's loop).
PoolServes ==
  steady /\ (\E c \in Client : at[c] = "wait") ~> \E c \in Client : at[c] = "use"
=============================================================================
