--------------------------- MODULE LibraryProofs ---------------------------
(***************************************************************************)
(* Theorems of the parts that stand alone: the circuit breaker, for any    *)
(* callers and thresholds; the topic, for any subscriptions, subscribers   *)
(* and messages; the connection pool, for any clients and sizes.           *)
(***************************************************************************)
EXTENDS CircuitBreaker, ConnectionPool, PubSub, SequenceTheorems,
        FiniteSetTheorems, TLAPS

-----------------------------------------------------------------------------
(* CircuitBreaker *)

\* The part of the type invariant that needs arithmetic, with the property.
CountersOK ==
  /\ circuit \in {"CLOSED", "OPEN", "HALF_OPEN"}
  /\ lapsed \in 0 .. Saturated /\ recent \in 0 .. Saturated
  /\ successes \in 0 .. SuccessThreshold
  /\ CountsBelowThresholds

\* The rest of it.
FlagsOK == mended \in BOOLEAN /\ resetDue \in BOOLEAN /\ calling \subseteq Caller

LEMMA CountersInitially == BreakerInit => CountersOK
  BY ThresholdsArePositive
  DEF ThresholdsArePositive, BreakerInit, CountersOK, CountsBelowThresholds, Saturated

LEMMA FlagsInitially == BreakerInit => FlagsOK
  BY DEF BreakerInit, FlagsOK

LEMMA CountersKept == CountersOK /\ [BreakerNext]_breakerVars => CountersOK'
<1> SUFFICES ASSUME CountersOK, [BreakerNext]_breakerVars PROVE CountersOK'
  OBVIOUS
<1> USE ThresholdsArePositive
        DEF ThresholdsArePositive, CountersOK, CountsBelowThresholds, Saturated
<1>1. ASSUME NEW c \in Caller, BeginCall(c) PROVE CountersOK'
  BY <1>1 DEF BeginCall, CheckTransition, ToHalfOpen
<1>2. ASSUME NEW c \in Caller, SucceedCall(c) PROVE CountersOK'
  BY <1>2 DEF SucceedCall, ToClosed
<1>3. ASSUME NEW c \in Caller, FailCall(c) PROVE CountersOK'
  <2>1. CASE OpensOnFailure
    BY <1>3, <2>1 DEF FailCall, ToOpen, AddOne
  <2>2. CASE ~ OpensOnFailure
    BY <1>3, <2>2 DEF FailCall, OpensOnFailure, AddOne
  <2> QED BY <2>1, <2>2
<1>4. ASSUME NEW c \in Caller, UncountedEnd(c) PROVE CountersOK'
  BY <1>4 DEF UncountedEnd
<1>5. CASE ResetBreaker
  BY <1>5 DEF ResetBreaker, ToClosed
<1>6. CASE ForceOpen
  BY <1>6 DEF ForceOpen, ToOpen
<1>7. CASE ResetFallsDue
  BY <1>7 DEF ResetFallsDue
<1>8. CASE FailuresLapse
  BY <1>8 DEF FailuresLapse
<1>9. CASE Mend
  BY <1>9 DEF Mend
<1>10. CASE UNCHANGED breakerVars
  BY <1>10 DEF breakerVars
<1> QED
  BY <1>1, <1>2, <1>3, <1>4, <1>5, <1>6, <1>7, <1>8, <1>9, <1>10
  DEF BreakerNext, BreakerMoves

LEMMA FlagsKept == FlagsOK /\ [BreakerNext]_breakerVars => FlagsOK'
<1> SUFFICES ASSUME FlagsOK, [BreakerNext]_breakerVars PROVE FlagsOK'
  OBVIOUS
<1> USE DEF FlagsOK
<1>1. ASSUME NEW c \in Caller, BeginCall(c) PROVE FlagsOK'
  BY <1>1 DEF BeginCall
<1>2. ASSUME NEW c \in Caller, SucceedCall(c) PROVE FlagsOK'
  BY <1>2 DEF SucceedCall
<1>3. ASSUME NEW c \in Caller, FailCall(c) PROVE FlagsOK'
  BY <1>3 DEF FailCall, ToOpen
<1>4. ASSUME NEW c \in Caller, UncountedEnd(c) PROVE FlagsOK'
  BY <1>4 DEF UncountedEnd
<1>5. CASE ResetBreaker
  BY <1>5 DEF ResetBreaker
<1>6. CASE ForceOpen
  BY <1>6 DEF ForceOpen, ToOpen
<1>7. CASE ResetFallsDue
  BY <1>7 DEF ResetFallsDue
<1>8. CASE FailuresLapse
  BY <1>8 DEF FailuresLapse
<1>9. CASE Mend
  BY <1>9 DEF Mend
<1>10. CASE UNCHANGED breakerVars
  BY <1>10 DEF breakerVars
<1> QED
  BY <1>1, <1>2, <1>3, <1>4, <1>5, <1>6, <1>7, <1>8, <1>9, <1>10
  DEF BreakerNext, BreakerMoves

\* The counters of the breaker stay within their bounds and its state is one of
\* three, whatever calls and callbacks come (CircuitBreaker.__init__ and every
\* operation on it).
THEOREM BreakerTypeCorrect == BreakerSpec => []BreakerTypeOK
<1>1. CountersOK /\ FlagsOK => BreakerTypeOK
  BY DEF CountersOK, FlagsOK, BreakerTypeOK
<1> QED
  BY <1>1, CountersInitially, FlagsInitially, CountersKept, FlagsKept, PTL
  DEF BreakerSpec

\* In every interleaving of calls that begin in one state of the breaker and end
\* in another, no state outlives the threshold that ends it (_record_success,
\* _record_failure, _transition_to).
THEOREM BreakerCountsBelowThresholds == BreakerSpec => []CountsBelowThresholds
<1>1. CountersOK => CountsBelowThresholds
  BY DEF CountersOK
<1> QED
  BY <1>1, CountersInitially, CountersKept, PTL DEF BreakerSpec

-----------------------------------------------------------------------------
(* PubSub *)

\* Taking the element at a position out of a sequence.
LEMMA RemoveAtProperties ==
  ASSUME NEW S, NEW s \in Seq(S), NEW i \in 1 .. Len(s)
  PROVE  /\ RemoveAt(s, i) \in Seq(S)
         /\ Len(RemoveAt(s, i)) = Len(s) - 1
         /\ \A j \in 1 .. Len(s) - 1 : RemoveAt(s, i)[j] = IF j < i THEN s[j] ELSE s[j + 1]
<1> DEFINE before == SubSeq(s, 1, i - 1)
           after == SubSeq(s, i + 1, Len(s))
<1>0. Len(s) \in Nat /\ i \in Int /\ \A j \in 1 .. Len(s) : s[j] \in S
  BY ElementOfSeq
<1>1. /\ before \in Seq(S) /\ Len(before) = i - 1
      /\ \A j \in 1 .. i - 1 : before[j] = s[j]
  BY <1>0, SubSeqProperties
<1>2. /\ after \in Seq(S) /\ Len(after) = Len(s) - i
      /\ \A j \in 1 .. Len(s) - i : after[j] = s[i + j]
  BY <1>0, SubSeqProperties
<1> HIDE DEF before, after
<1>3. /\ before \o after \in Seq(S)
      /\ Len(before \o after) = Len(s) - 1
      /\ \A j \in 1 .. Len(s) - 1 :
           (before \o after)[j] = IF j <= i - 1 THEN before[j] ELSE after[j - (i - 1)]
  <2>1. /\ before \o after \in Seq(S)
        /\ Len(before \o after) = Len(before) + Len(after)
        /\ \A j \in 1 .. Len(before) + Len(after) :
             (before \o after)[j] =
               IF j <= Len(before) THEN before[j] ELSE after[j - Len(before)]
    BY <1>1, <1>2, ConcatProperties, Zenon
  <2>2. Len(before) + Len(after) = Len(s) - 1
    BY <1>0, <1>1, <1>2
  <2> QED BY <1>1, <2>1, <2>2
<1>4. ASSUME NEW j \in 1 .. Len(s) - 1
      PROVE  (before \o after)[j] = IF j < i THEN s[j] ELSE s[j + 1]
  <2>1. CASE j < i
    BY <1>0, <1>1, <1>3, <2>1
  <2>2. CASE ~ (j < i)
    <3>1. j - (i - 1) \in 1 .. Len(s) - i /\ i + (j - (i - 1)) = j + 1
      BY <1>0, <2>2
    <3>2. after[j - (i - 1)] = s[j + 1]
      BY <1>2, <3>1
    <3> QED BY <1>0, <1>3, <2>2, <3>2
  <2> QED BY <2>1, <2>2
<1> QED BY <1>3, <1>4 DEF RemoveAt, before, after

\* A subscriber of an EXCLUSIVE subscription has a message in hand only while it is
\* first in line.
FirstHandles ==
  kind = "EXCLUSIVE" =>
    \A x \in Subscriber :
      handling[x] # NoMessage =>
        line[SubscribesTo[x]] # <<>> /\ Head(line[SubscribesTo[x]]) = x

PubSubInv == PubSubTypeOK /\ FirstHandles

LEMMA PubSubInvInit == PubSubInit => PubSubInv
<1> SUFFICES ASSUME PubSubInit PROVE PubSubInv
  OBVIOUS
<1>1. line \in [Subscription -> Seq(Subscriber)]
  <2>1. ASSUME NEW s \in Subscription, NEW q \in SetToSeqs(Subscribed(s))
        PROVE  q \in Seq(Subscriber)
    <3>1. Subscribed(s) \subseteq Subscriber /\ Cardinality(Subscribed(s)) \in Nat
      BY SubscribesSomewhere, FS_Subset, FS_CardinalityType
      DEF SubscribesSomewhere, Subscribed
    <3>2. q \in [1 .. Cardinality(Subscribed(s)) -> Subscriber]
      BY <3>1 DEF SetToSeqs
    <3> QED BY <3>1, <3>2, SeqDef
  <2> QED BY <2>1 DEF PubSubInit
<1>2. PubSubTypeOK
  BY <1>1, PubSubBounds DEF PubSubBounds, PubSubInit, PubSubTypeOK
<1>3. FirstHandles
  BY DEF PubSubInit, FirstHandles
<1> QED BY <1>2, <1>3 DEF PubSubInv

LEMMA PublishStep ==
  ASSUME PubSubInv, NEW m \in Message, Publish(m)
  PROVE  PubSubInv'
<1>1. log' \in Seq(Message) /\ Len(log') = Len(log) + 1 /\ Len(log) \in Nat
  BY AppendProperties DEF Publish, PubSubInv, PubSubTypeOK
<1>2. cursor' \in [Subscription -> 0 .. Len(log')]
  BY <1>1 DEF Publish, PubSubInv, PubSubTypeOK
<1>3. PubSubTypeOK'
  BY <1>1, <1>2 DEF Publish, PubSubInv, PubSubTypeOK
<1>4. FirstHandles'
  BY DEF Publish, PubSubInv, FirstHandles
<1> QED BY <1>3, <1>4 DEF PubSubInv

LEMMA JoinStep ==
  ASSUME PubSubInv, NEW x \in Subscriber, Join(x)
  PROVE  PubSubInv'
<1> DEFINE s == SubscribesTo[x]
<1>1. s \in Subscription /\ line[s] \in Seq(Subscriber)
  BY SubscribesSomewhere DEF SubscribesSomewhere, PubSubInv, PubSubTypeOK
<1>2. line' = [line EXCEPT ![s] = Append(line[s], x)]
  BY DEF Join
<1>3. /\ Append(line[s], x) \in Seq(Subscriber) /\ Append(line[s], x) # <<>>
      /\ line[s] # <<>> => Head(Append(line[s], x)) = Head(line[s])
  BY <1>1, AppendProperties, HeadTailAppend
<1> HIDE DEF s
<1>4. PubSubTypeOK'
  BY <1>1, <1>2, <1>3 DEF Join, PubSubInv, PubSubTypeOK
<1>5. FirstHandles'
  <2>1. kind' = kind /\ handling' = handling
    BY DEF Join
  <2> QED BY <1>1, <1>2, <1>3, <2>1 DEF PubSubInv, FirstHandles, PubSubTypeOK
<1> QED BY <1>4, <1>5 DEF PubSubInv

LEMMA ReceiveStep ==
  ASSUME PubSubInv, NEW x \in Subscriber, Receive(x)
  PROVE  PubSubInv'
<1> DEFINE s == SubscribesTo[x]
           m == log[cursor[s] + 1]
<1>1. s \in Subscription
  BY SubscribesSomewhere DEF SubscribesSomewhere
<1>2. /\ cursor[s] \in 0 .. Len(log) /\ cursor[s] < Len(log) /\ Len(log) \in Nat
      /\ x \in ToSet(line[s])
  BY <1>1 DEF Receive, PubSubInv, PubSubTypeOK
<1>3. m \in Message
  <2>1. cursor[s] + 1 \in 1 .. Len(log)
    BY <1>2
  <2> QED BY <2>1, ElementOfSeq DEF PubSubInv, PubSubTypeOK
<1>4. /\ MayReceive(x, s, m)
      /\ handling' = [handling EXCEPT ![x] = m]
      /\ awaiting' = [awaiting EXCEPT ![s] = awaiting[s] \cup {m}]
      /\ cursor' = [cursor EXCEPT ![s] = cursor[s] + 1]
      /\ UNCHANGED <<unbroken, kind, log, redelivered, acked, dead, line, stops>>
  BY DEF Receive
<1> HIDE DEF s, m
<1>5. PubSubTypeOK'
  <2>1. cursor' \in [Subscription -> 0 .. Len(log)]
    BY <1>1, <1>2, <1>4 DEF PubSubInv, PubSubTypeOK
  <2>2. handling' \in [Subscriber -> Message \cup {NoMessage}]
    BY <1>3, <1>4 DEF PubSubInv, PubSubTypeOK
  <2>3. awaiting' \in [Subscription -> SUBSET Message]
    BY <1>1, <1>3, <1>4 DEF PubSubInv, PubSubTypeOK
  <2> QED BY <1>4, <2>1, <2>2, <2>3 DEF PubSubInv, PubSubTypeOK
<1>6. FirstHandles'
  <2>1. kind = "EXCLUSIVE" => line[s] # <<>> /\ Head(line[s]) = x
    BY <1>2, <1>4 DEF MayReceive, ToSet
  <2>2. \A y \in Subscriber : y # x => handling'[y] = handling[y]
    BY <1>4 DEF PubSubInv, PubSubTypeOK
  <2> QED BY <1>4, <2>1, <2>2 DEF PubSubInv, FirstHandles, s
<1> QED BY <1>5, <1>6 DEF PubSubInv

LEMMA FinishStep ==
  ASSUME PubSubInv, NEW x \in Subscriber, NEW success \in BOOLEAN, Finish(x, success)
  PROVE  PubSubInv'
<1> DEFINE s == SubscribesTo[x]
           m == handling[x]
<1>1. s \in Subscription /\ m \in Message
  BY SubscribesSomewhere DEF SubscribesSomewhere, Finish, PubSubInv, PubSubTypeOK
<1>2. /\ handling' = [handling EXCEPT ![x] = NoMessage]
      /\ awaiting' = [awaiting EXCEPT ![s] = awaiting[s] \ {m}]
      /\ acked' = acked \/ acked' = [acked EXCEPT ![s] = acked[s] \cup {m}]
      /\ redelivered' = redelivered \/ redelivered' = [redelivered EXCEPT ![m] = redelivered[m] + 1]
      /\ dead' = dead \/ dead' = [dead EXCEPT ![s] = dead[s] \cup {m}]
      /\ log' = log \/ log' = Append(log, m)
      /\ UNCHANGED <<unbroken, kind, cursor, line, stops>>
  BY DEF Finish, Requeue
<1> HIDE DEF s, m
<1>3. PubSubTypeOK'
  <2>1. /\ handling' \in [Subscriber -> Message \cup {NoMessage}]
        /\ awaiting' \in [Subscription -> SUBSET Message]
    BY <1>1, <1>2 DEF PubSubInv, PubSubTypeOK
  <2>2. /\ acked' \in [Subscription -> SUBSET Message]
        /\ dead' \in [Subscription -> SUBSET Message]
    <3>1. /\ [acked EXCEPT ![s] = acked[s] \cup {m}] \in [Subscription -> SUBSET Message]
          /\ [dead EXCEPT ![s] = dead[s] \cup {m}] \in [Subscription -> SUBSET Message]
      BY <1>1 DEF PubSubInv, PubSubTypeOK
    <3> QED BY <1>2, <3>1 DEF PubSubInv, PubSubTypeOK
  <2>3. redelivered' \in [Message -> Nat]
    <3>1. [redelivered EXCEPT ![m] = redelivered[m] + 1] \in [Message -> Nat]
      BY <1>1 DEF PubSubInv, PubSubTypeOK
    <3> QED BY <1>2, <3>1 DEF PubSubInv, PubSubTypeOK
  <2>4. log' \in Seq(Message) /\ Len(log') \in Nat /\ Len(log) \in Nat /\ Len(log') >= Len(log)
    <3>1. /\ Append(log, m) \in Seq(Message) /\ Len(log) \in Nat
          /\ Len(Append(log, m)) = Len(log) + 1
      BY <1>1, AppendProperties DEF PubSubInv, PubSubTypeOK
    <3>2. log \in Seq(Message)
      BY DEF PubSubInv, PubSubTypeOK
    <3>3. CASE log' = log
      BY <3>1, <3>2, <3>3
    <3>4. CASE log' = Append(log, m)
      <4> DEFINE longer == Append(log, m)
      <4> HIDE DEF longer
      <4>1. log' = longer /\ longer \in Seq(Message) /\ Len(longer) = Len(log) + 1
        BY <3>1, <3>4 DEF longer
      <4> QED BY <3>1, <4>1
    <3> QED BY <1>2, <3>3, <3>4
  <2>5. cursor' \in [Subscription -> 0 .. Len(log')]
    BY <1>2, <2>4 DEF PubSubInv, PubSubTypeOK
  <2> QED BY <1>2, <2>1, <2>2, <2>3, <2>4, <2>5 DEF PubSubInv, PubSubTypeOK
<1>4. FirstHandles'
  BY <1>2 DEF PubSubInv, PubSubTypeOK, FirstHandles
<1> QED BY <1>3, <1>4 DEF PubSubInv

\* Who is stopped has no message in hand any more when it leaves the line.
LEMMA StopStep ==
  ASSUME PubSubInv, NEW x \in Subscriber, Stop(x)
  PROVE  PubSubInv'
<1> DEFINE s == SubscribesTo[x]
<1>1. s \in Subscription /\ line[s] \in Seq(Subscriber)
  BY SubscribesSomewhere DEF SubscribesSomewhere, PubSubInv, PubSubTypeOK
<1>2. PICK i \in DOMAIN line[s] :
        line[s][i] = x /\ line' = [line EXCEPT ![s] = RemoveAt(line[s], i)]
  BY DEF Stop
<1>3. /\ handling' = [handling EXCEPT ![x] = NoMessage]
      /\ stops < MaxStops /\ stops' = stops + 1
      /\ UNCHANGED <<unbroken, kind, log, cursor, awaiting, redelivered, acked, dead>>
  BY DEF Stop
<1> DEFINE rest == RemoveAt(line[s], i)
<1> HIDE DEF s
<1>4. i \in 1 .. Len(line[s]) /\ Len(line[s]) \in Nat
  BY <1>1, <1>2
<1>5. /\ rest \in Seq(Subscriber) /\ Len(rest) = Len(line[s]) - 1
      /\ \A j \in 1 .. Len(line[s]) - 1 :
           rest[j] = IF j < i THEN line[s][j] ELSE line[s][j + 1]
  BY <1>1, <1>4, RemoveAtProperties
<1>6. line' = [line EXCEPT ![s] = rest]
  BY <1>2
<1>7. ASSUME i # 1 PROVE rest # <<>> /\ Head(rest) = Head(line[s])
  <2>1. Len(rest) >= 1 /\ rest[1] = line[s][1]
    BY <1>4, <1>5, <1>7
  <2> HIDE DEF rest
  <2> QED BY <1>1, <1>4, <1>5, <2>1
<1>8. i = 1 => Head(line[s]) = x
  BY <1>1, <1>2, <1>4
<1> HIDE DEF rest
<1>9. PubSubTypeOK'
  <2>1. handling' \in [Subscriber -> Message \cup {NoMessage}]
    BY <1>3 DEF PubSubInv, PubSubTypeOK
  <2>2. line' \in [Subscription -> Seq(Subscriber)]
    BY <1>1, <1>5, <1>6 DEF PubSubInv, PubSubTypeOK
  <2>3. stops' \in 0 .. MaxStops
    BY <1>3, PubSubBounds DEF PubSubBounds, PubSubInv, PubSubTypeOK
  <2> QED BY <1>3, <2>1, <2>2, <2>3 DEF PubSubInv, PubSubTypeOK
<1>10. FirstHandles'
  <2> SUFFICES ASSUME kind = "EXCLUSIVE", NEW y \in Subscriber, handling'[y] # NoMessage
               PROVE  line'[SubscribesTo[y]] # <<>> /\ Head(line'[SubscribesTo[y]]) = y
    BY <1>3 DEF FirstHandles
  <2>1. y # x /\ handling'[y] = handling[y]
    BY <1>3 DEF PubSubInv, PubSubTypeOK
  <2>2. line[SubscribesTo[y]] # <<>> /\ Head(line[SubscribesTo[y]]) = y
    BY <2>1 DEF PubSubInv, FirstHandles
  <2>3. CASE SubscribesTo[y] = s
    <3>1. line'[s] = rest
      BY <1>1, <1>6 DEF PubSubInv, PubSubTypeOK
    <3> QED BY <1>7, <1>8, <2>1, <2>2, <2>3, <3>1
  <2>4. CASE SubscribesTo[y] # s
    BY <1>6, <2>2, <2>4 DEF PubSubInv, PubSubTypeOK
  <2> QED BY <2>3, <2>4
<1> QED BY <1>9, <1>10 DEF PubSubInv

LEMMA PubSubInvStep == PubSubInv /\ [PubSubNext]_pubSubVars => PubSubInv'
<1> SUFFICES ASSUME PubSubInv, [PubSubNext]_pubSubVars PROVE PubSubInv'
  OBVIOUS
<1>1. CASE UNCHANGED pubSubVars
  BY <1>1 DEF pubSubVars, PubSubInv, PubSubTypeOK, FirstHandles
<1> QED
  BY <1>1, PublishStep, JoinStep, ReceiveStep, FinishStep, StopStep DEF PubSubNext

\* Cursors stay within the partition and every subscriber has at most a message in
\* hand, whatever is published, stopped and redelivered.
THEOREM PubSubTypeCorrect == PubSubSpec => []PubSubTypeOK
<1>1. PubSubInv => PubSubTypeOK
  BY DEF PubSubInv
<1> QED BY <1>1, PubSubInvInit, PubSubInvStep, PTL DEF PubSubSpec

\* At most one subscriber of an EXCLUSIVE subscription has a message in hand, for any
\* subscribers that join, fail and are stopped: _get_next_message hands messages to the
\* first in line, and stop_async has ended the handler before the next one is first.
THEOREM ExclusiveSubscriberIsAlone == PubSubSpec => []ExclusiveIsAlone
<1>1. PubSubInv => ExclusiveIsAlone
  <2> SUFFICES ASSUME PubSubInv, kind = "EXCLUSIVE", NEW s \in Subscription
               PROVE  Cardinality({x \in Subscribed(s) : handling[x] # NoMessage}) <= 1
    BY DEF ExclusiveIsAlone
  <2> DEFINE busy == {x \in Subscribed(s) : handling[x] # NoMessage}
  <2>1. \A x \in busy : Head(line[s]) = x
    BY DEF PubSubInv, FirstHandles, Subscribed
  <2> HIDE DEF busy
  <2>2. busy = {} \/ busy = {Head(line[s])}
    BY <2>1
  <2>3. Cardinality(busy) = 0 \/ Cardinality(busy) = 1
    BY <2>2, FS_EmptySet, FS_Singleton, Zenon
  <2>4. Cardinality(busy) <= 1
    BY <2>3
  <2> QED BY <2>4 DEF busy
<1> QED BY <1>1, PubSubInvInit, PubSubInvStep, PTL DEF PubSubSpec

-----------------------------------------------------------------------------
(* ConnectionPool *)

\* The coroutines with a connection in hand.
Holders(h) == {p \in Proc : h[p] # NoConn}

\* How many places hold a connection.
Amount(q, a, h) == Len(q) + Len(a) + Cardinality(Holders(h))

\* A connection is in one place only.
Apart(q, a, h) ==
  /\ IsInjective(q) /\ IsInjective(a)
  /\ \A i \in DOMAIN q, j \in DOMAIN a : q[i] # a[j]
  /\ \A p \in Holders(h) :
       /\ \A i \in DOMAIN q : q[i] # h[p]
       /\ \A i \in DOMAIN a : a[i] # h[p]
       /\ \A r \in Holders(h) : h[r] = h[p] => r = p

AtEnd(q, k) == Append(q, k)
Puts(h, p, k) == [h EXCEPT ![p] = k]
Hands == [Proc -> Conn \cup {NoConn}]

LEMMA HoldersAreFinite ==
  ASSUME NEW h
  PROVE  IsFiniteSet(Holders(h)) /\ Cardinality(Holders(h)) \in Nat
<1>1. IsFiniteSet(Proc)
  BY PoolConstants, FS_AddElement DEF PoolConstants, Proc
<1> QED BY <1>1, FS_Subset, FS_CardinalityType DEF Holders

\* A coroutine lets go of what it has in hand.
LEMMA LetGo ==
  ASSUME NEW q \in Seq(Conn), NEW a \in Seq(Conn), NEW h \in Hands, NEW p \in Proc,
         NEW free, free = Puts(h, p, NoConn), Apart(q, a, h)
  PROVE  /\ free \in Hands /\ Apart(q, a, free)
         /\ h[p] = NoConn => Amount(q, a, free) = Amount(q, a, h)
         /\ h[p] # NoConn => Amount(q, a, free) = Amount(q, a, h) - 1
<1>1. free \in Hands /\ \A r \in Proc : free[r] = IF r = p THEN NoConn ELSE h[r]
  BY DEF Hands, Puts
<1>2. Holders(free) = Holders(h) \ {p}
  BY <1>1 DEF Holders
<1>3. Apart(q, a, free)
  BY <1>1, <1>2 DEF Apart, Holders
<1>4. Cardinality(Holders(free))
        = IF h[p] = NoConn THEN Cardinality(Holders(h)) ELSE Cardinality(Holders(h)) - 1
  <2>1. IsFiniteSet(Holders(h))
    BY HoldersAreFinite
  <2>2. Cardinality(Holders(h) \ {p})
          = IF p \in Holders(h) THEN Cardinality(Holders(h)) - 1 ELSE Cardinality(Holders(h))
    BY <2>1, FS_RemoveElement
  <2>3. p \in Holders(h) <=> h[p] # NoConn
    BY DEF Holders
  <2> QED BY <1>2, <2>2, <2>3
<1>5. Len(q) \in Nat /\ Len(a) \in Nat /\ Cardinality(Holders(h)) \in Nat
  BY HoldersAreFinite
<1>6. /\ h[p] = NoConn => Amount(q, a, free) = Amount(q, a, h)
      /\ h[p] # NoConn => Amount(q, a, free) = Amount(q, a, h) - 1
  BY <1>4, <1>5 DEF Amount
<1> QED BY <1>1, <1>3, <1>6

\* A coroutine with empty hands takes the first connection of the queue, ...
LEMMA TakeHead ==
  ASSUME NEW q \in Seq(Conn), NEW a \in Seq(Conn), NEW h \in Hands, NEW p \in Proc,
         NEW full, full = Puts(h, p, Head(q)),
         Apart(q, a, h), h[p] = NoConn, q # <<>>
  PROVE  /\ Tail(q) \in Seq(Conn) /\ Head(q) \in Conn /\ full \in Hands
         /\ Apart(Tail(q), a, full)
         /\ Amount(Tail(q), a, full) = Amount(q, a, h)
<1>1. /\ Tail(q) \in Seq(Conn) /\ Len(Tail(q)) = Len(q) - 1 /\ Len(q) \in Nat
      /\ Head(q) = q[1] /\ Head(q) \in Conn
      /\ \A i \in 1 .. Len(q) - 1 : Tail(q)[i] = q[i + 1]
      /\ 1 \in DOMAIN q /\ DOMAIN q = 1 .. Len(q) /\ DOMAIN Tail(q) = 1 .. Len(q) - 1
      /\ \A i \in 1 .. Len(q) - 1 : i + 1 \in DOMAIN q /\ i + 1 # 1
  BY HeadTailProperties
<1>2. full \in Hands /\ \A r \in Proc : full[r] = IF r = p THEN q[1] ELSE h[r]
  BY <1>1 DEF Hands, Puts
<1>3. Holders(full) = Holders(h) \cup {p} /\ p \notin Holders(h)
  BY <1>1, <1>2, PoolConstants DEF Holders, PoolConstants
<1>4. Apart(Tail(q), a, full)
  <2>1. IsInjective(Tail(q))
    <3> SUFFICES ASSUME NEW i \in 1 .. Len(q) - 1, NEW j \in 1 .. Len(q) - 1,
                        Tail(q)[i] = Tail(q)[j]
                 PROVE  i = j
      BY <1>1 DEF IsInjective
    <3>1. i + 1 = j + 1
      BY <1>1 DEF Apart, IsInjective
    <3> QED BY <1>1, <3>1
  <2>2. \A i \in DOMAIN Tail(q), j \in DOMAIN a : Tail(q)[i] # a[j]
    BY <1>1 DEF Apart
  <2>3. \A i \in DOMAIN Tail(q) : Tail(q)[i] # q[1]
    BY <1>1 DEF Apart, IsInjective
  <2>4. ASSUME NEW r \in Holders(full)
        PROVE  /\ \A i \in DOMAIN Tail(q) : Tail(q)[i] # full[r]
               /\ \A i \in DOMAIN a : a[i] # full[r]
               /\ \A t \in Holders(full) : full[t] = full[r] => t = r
    <3>1. r \in Proc
      BY DEF Holders
    <3>2. CASE r = p
      BY <1>1, <1>2, <1>3, <2>3, <3>2 DEF Apart, Holders
    <3>3. CASE r # p
      BY <1>1, <1>2, <1>3, <3>1, <3>3 DEF Apart, Holders
    <3> QED BY <3>2, <3>3
  <2> QED BY <2>1, <2>2, <2>4 DEF Apart
<1>5. Cardinality(Holders(full)) = Cardinality(Holders(h)) + 1
  BY <1>3, HoldersAreFinite, FS_AddElement
<1>6. Len(a) \in Nat /\ Cardinality(Holders(h)) \in Nat
  BY HoldersAreFinite
<1>7. Amount(Tail(q), a, full) = Amount(q, a, h)
  BY <1>1, <1>5, <1>6 DEF Amount
<1> QED BY <1>1, <1>2, <1>4, <1>7

\* ... and queue and aside may change roles.
LEMMA ApartEitherWay ==
  ASSUME NEW q \in Seq(Conn), NEW a \in Seq(Conn), NEW h
  PROVE  Apart(q, a, h) <=> Apart(a, q, h)
BY DEF Apart

LEMMA AmountEitherWay ==
  ASSUME NEW q \in Seq(Conn), NEW a \in Seq(Conn), NEW h
  PROVE  Amount(q, a, h) = Amount(a, q, h) /\ Amount(q, a, h) \in Nat
<1>1. Len(q) \in Nat /\ Len(a) \in Nat /\ Cardinality(Holders(h)) \in Nat
  BY HoldersAreFinite
<1> QED BY <1>1 DEF Amount

\* A connection that is nowhere is put to the end of the queue.
LEMMA PutLast ==
  ASSUME NEW q \in Seq(Conn), NEW a \in Seq(Conn), NEW h \in Hands, NEW k \in Conn,
         NEW longer, longer = AtEnd(q, k), Apart(q, a, h),
         \A i \in DOMAIN q : q[i] # k, \A i \in DOMAIN a : a[i] # k,
         \A p \in Proc : h[p] # k
  PROVE  /\ longer \in Seq(Conn) /\ longer # <<>> /\ Apart(longer, a, h)
         /\ Amount(longer, a, h) = Amount(q, a, h) + 1
<1>1. /\ longer \in Seq(Conn) /\ longer # <<>> /\ Len(longer) = Len(q) + 1
      /\ Len(q) \in Nat
      /\ \A i \in 1 .. Len(q) : longer[i] = q[i]
      /\ longer[Len(q) + 1] = k
  BY AppendProperties DEF AtEnd
<1>2. /\ DOMAIN q = 1 .. Len(q)
      /\ \A i \in DOMAIN longer : i \in DOMAIN q \/ i = Len(q) + 1
      /\ \A i \in DOMAIN q : i # Len(q) + 1
  BY <1>1
<1>3. \A i \in DOMAIN longer : longer[i] = IF i = Len(q) + 1 THEN k ELSE q[i]
  BY <1>1, <1>2
<1>4. IsInjective(longer)
  BY <1>2, <1>3 DEF Apart, IsInjective
<1>5. \A i \in DOMAIN longer, j \in DOMAIN a : longer[i] # a[j]
  BY <1>2, <1>3 DEF Apart
<1>6. \A p \in Holders(h) : \A i \in DOMAIN longer : longer[i] # h[p]
  BY <1>2, <1>3 DEF Apart, Holders
<1>7. Apart(longer, a, h)
  BY <1>4, <1>5, <1>6 DEF Apart
<1>8. Len(a) \in Nat /\ Cardinality(Holders(h)) \in Nat
  BY HoldersAreFinite
<1>9. Amount(longer, a, h) = Amount(q, a, h) + 1
  BY <1>1, <1>8 DEF Amount
<1> QED BY <1>1, <1>7, <1>9

\* What a coroutine has in hand goes to the end of the queue.
LEMMA GiveBack ==
  ASSUME NEW q \in Seq(Conn), NEW a \in Seq(Conn), NEW h \in Hands, NEW p \in Proc,
         NEW free, free = Puts(h, p, NoConn),
         NEW longer, longer = AtEnd(q, h[p]),
         Apart(q, a, h), h[p] # NoConn
  PROVE  /\ free \in Hands /\ longer \in Seq(Conn) /\ Apart(longer, a, free)
         /\ Amount(longer, a, free) = Amount(q, a, h)
<1>1. /\ free \in Hands /\ Apart(q, a, free)
      /\ Amount(q, a, free) = Amount(q, a, h) - 1
  BY LetGo
<1>2. /\ h[p] \in Conn /\ p \in Holders(h)
      /\ \A r \in Proc : free[r] = IF r = p THEN NoConn ELSE h[r]
  BY DEF Hands, Holders, Puts
<1>3. \A r \in Proc : free[r] # h[p]
  BY <1>2 DEF Apart, Holders
<1>4. (\A i \in DOMAIN q : q[i] # h[p]) /\ (\A i \in DOMAIN a : a[i] # h[p])
  BY <1>2 DEF Apart
<1>5. /\ longer \in Seq(Conn) /\ Apart(longer, a, free)
      /\ Amount(longer, a, free) = Amount(q, a, free) + 1
  <2> DEFINE k == h[p]
  <2>1. /\ k \in Conn /\ longer = AtEnd(q, k) /\ \A r \in Proc : free[r] # k
        /\ \A i \in DOMAIN q : q[i] # k
        /\ \A i \in DOMAIN a : a[i] # k
    BY <1>2, <1>3, <1>4
  <2> HIDE DEF k
  <2> QED BY <1>1, <2>1, PutLast
<1>6. Amount(q, a, h) \in Nat
  BY AmountEitherWay
<1>7. Amount(longer, a, free) = Amount(q, a, h)
  BY <1>1, <1>5, <1>6
<1> QED BY <1>1, <1>5, <1>7

Holding == {"check", "drop", "use", "return", "discard"}

Accounted ==
  /\ Apart(queue, aside, inHand)
  /\ Amount(queue, aside, inHand) <= poolSize
  /\ steady => Amount(queue, aside, inHand) = poolSize

\* Where a coroutine is tells whether it has a connection in hand; the health check
\* has put connections aside only while it looks at them; who creates one has the
\* lock and found room under it.
PlacesFit ==
  /\ \A p \in Proc : inHand[p] # NoConn <=> at[p] \in Holding
  /\ at[Health] \in {"out", "check", "drop", "lock", "make"}
  /\ aside # <<>> => at[Health] \in {"check", "drop"}
  /\ \A p \in Proc : at[p] = "make" =>
       poolSize < MaxSize /\ \A r \in Proc : at[r] = "make" => r = p

PoolInv == PoolTypeOK /\ Accounted /\ PlacesFit

\* A step of one coroutine keeps the invariant when it keeps account of the
\* connections and goes where it fits.
LEMMA GoesWell ==
  ASSUME PoolInv, NEW p \in Proc, NEW place, NEW k \in Conn \cup {NoConn},
         Goes(p, place, k), UNCHANGED <<steady, minSize>>, faults' \in 0 .. MaxFaults,
         queue' \in Seq(Conn), aside' \in Seq(Conn), poolSize' \in 0 .. MaxSize,
         Accounted',
         place \in Holding \cup {"out", "lock", "make", "wait"},
         k # NoConn <=> place \in Holding,
         p = Health => place \in {"out", "check", "drop", "lock", "make"},
         aside' # <<>> =>
           (p # Health /\ aside' = aside) \/ (p = Health /\ place \in {"check", "drop"}),
         place = "make" => poolSize' < MaxSize,
         \/ place # "make" /\ poolSize' <= poolSize
         \/ \A r \in Proc : r # p => at[r] # "make"
  PROVE  PoolInv'
<1>1. /\ at' = [at EXCEPT ![p] = place] /\ inHand' = [inHand EXCEPT ![p] = k]
  BY DEF Goes
<1>2. PoolTypeOK'
  <2>1. at' \in [Proc -> {"out", "check", "drop", "lock", "make", "wait", "use",
                          "return", "discard"}]
    BY <1>1 DEF PoolInv, PoolTypeOK, Holding
  <2>2. inHand' \in [Proc -> Conn \cup {NoConn}]
    BY <1>1 DEF PoolInv, PoolTypeOK
  <2> QED BY <2>1, <2>2 DEF PoolInv, PoolTypeOK
<1>3. \A r \in Proc : /\ at'[r] = IF r = p THEN place ELSE at[r]
                      /\ inHand'[r] = IF r = p THEN k ELSE inHand[r]
  BY <1>1 DEF PoolInv, PoolTypeOK
<1>4. Health \in Proc
  BY DEF Proc
<1>5. \A r \in Proc : inHand'[r] # NoConn <=> at'[r] \in Holding
  BY <1>3 DEF PoolInv, PlacesFit
<1>6. at'[Health] \in {"out", "check", "drop", "lock", "make"}
  BY <1>3, <1>4 DEF PoolInv, PlacesFit
<1>7. aside' # <<>> => at'[Health] \in {"check", "drop"}
  BY <1>3, <1>4 DEF PoolInv, PlacesFit
<1>8. ASSUME NEW r \in Proc, at'[r] = "make"
      PROVE  poolSize' < MaxSize /\ \A t \in Proc : at'[t] = "make" => t = r
  <2>1. CASE place # "make" /\ poolSize' <= poolSize
    <3>1. r # p /\ at[r] = "make"
      BY <1>3, <1>8, <2>1
    <3>2. poolSize < MaxSize /\ \A t \in Proc : at[t] = "make" => t = r
      BY <3>1 DEF PoolInv, PlacesFit
    <3>3. poolSize' < MaxSize
      BY <2>1, <3>2, PoolBounds DEF PoolBounds, PoolInv, PoolTypeOK
    <3> QED BY <1>3, <2>1, <3>2, <3>3
  <2>2. CASE \A t \in Proc : t # p => at[t] # "make"
    BY <1>3, <1>8, <2>2
  <2> QED BY <2>1, <2>2
<1> QED BY <1>2, <1>5, <1>6, <1>7, <1>8 DEF PoolInv, PlacesFit

\* A connection in hand is counted.
LEMMA HeldIsCounted ==
  ASSUME PoolInv, NEW p \in Proc, inHand[p] # NoConn
  PROVE  poolSize - 1 \in 0 .. MaxSize
<1>1. inHand \in Hands /\ queue \in Seq(Conn) /\ aside \in Seq(Conn)
  BY DEF PoolInv, PoolTypeOK, Hands
<1> DEFINE free == Puts(inHand, p, NoConn)
<1>2. /\ free \in Hands
      /\ Amount(queue, aside, free) = Amount(queue, aside, inHand) - 1
  BY <1>1, LetGo DEF PoolInv, Accounted
<1> HIDE DEF free
<1>3. Amount(queue, aside, free) \in Nat /\ Amount(queue, aside, inHand) \in Nat
  BY <1>1, AmountEitherWay
<1>4. /\ Amount(queue, aside, inHand) <= poolSize
      /\ poolSize \in 0 .. MaxSize /\ MaxSize \in Nat
  BY PoolBounds DEF PoolInv, Accounted, PoolTypeOK, PoolBounds
<1> QED BY <1>2, <1>3, <1>4

\* The account of the pool when a coroutine has let go of what it held, if anything.
LEMMA EmptyHands ==
  ASSUME PoolInv, NEW p \in Proc, NEW size, NEW free,
         free = Puts(inHand, p, NoConn),
         \/ inHand[p] = NoConn /\ size = poolSize
         \/ inHand[p] # NoConn /\ size = poolSize - 1
  PROVE  /\ free \in Hands /\ free[p] = NoConn /\ Apart(queue, aside, free)
         /\ \A k : Puts(free, p, k) = [inHand EXCEPT ![p] = k]
         /\ Amount(queue, aside, free) <= size
         /\ steady => Amount(queue, aside, free) = size
         /\ size \in 0 .. MaxSize /\ size <= poolSize
<1>1. /\ inHand \in Hands /\ queue \in Seq(Conn) /\ aside \in Seq(Conn)
      /\ Apart(queue, aside, inHand)
  BY DEF PoolInv, PoolTypeOK, Hands, Accounted
<1>2. /\ free \in Hands /\ Apart(queue, aside, free)
      /\ inHand[p] = NoConn => Amount(queue, aside, free) = Amount(queue, aside, inHand)
      /\ inHand[p] # NoConn => Amount(queue, aside, free) = Amount(queue, aside, inHand) - 1
  BY <1>1, LetGo
<1>3. free[p] = NoConn /\ \A k : Puts(free, p, k) = [inHand EXCEPT ![p] = k]
  BY <1>1 DEF Puts, Hands
<1>4. Amount(queue, aside, inHand) \in Nat /\ Amount(queue, aside, free) \in Nat
  BY <1>1, AmountEitherWay
<1>5. /\ Amount(queue, aside, inHand) <= poolSize
      /\ steady => Amount(queue, aside, inHand) = poolSize
      /\ poolSize \in 0 .. MaxSize /\ MaxSize \in Nat
  BY PoolBounds DEF PoolInv, Accounted, PoolTypeOK, PoolBounds
<1>6. inHand[p] # NoConn => poolSize - 1 \in 0 .. MaxSize
  BY HeldIsCounted
<1> QED BY <1>2, <1>3, <1>4, <1>5, <1>6

LEMMA LookStep ==
  ASSUME PoolInv, NEW c \in Client, NEW size, Look(c, queue, size),
         UNCHANGED <<steady, minSize, aside, faults>>,
         \/ inHand[c] = NoConn /\ size = poolSize
         \/ inHand[c] # NoConn /\ size = poolSize - 1
  PROVE  PoolInv'
<1>1. c \in Proc /\ c # Health
  BY PoolConstants DEF Proc, PoolConstants
<1>2. /\ inHand \in Hands /\ queue \in Seq(Conn) /\ aside \in Seq(Conn)
      /\ faults \in 0 .. MaxFaults
  BY DEF PoolInv, PoolTypeOK, Hands
<1> DEFINE free == Puts(inHand, c, NoConn)
<1>3. /\ free \in Hands /\ free[c] = NoConn /\ Apart(queue, aside, free)
      /\ \A k : Puts(free, c, k) = [inHand EXCEPT ![c] = k]
      /\ Amount(queue, aside, free) <= size
      /\ steady => Amount(queue, aside, free) = size
      /\ size \in 0 .. MaxSize /\ size <= poolSize
  BY <1>1, EmptyHands
<1> HIDE DEF free
<1>4. poolSize' = size
  BY DEF Look
<1>5. CASE queue # <<>>
  <2>1. queue' = Tail(queue) /\ Goes(c, "check", Head(queue))
    BY <1>5 DEF Look
  <2>2. inHand' = Puts(free, c, Head(queue))
    BY <1>3, <2>1 DEF Goes
  <2>3. /\ queue' \in Seq(Conn) /\ Head(queue) \in Conn
        /\ Apart(queue', aside, inHand')
        /\ Amount(queue', aside, inHand') = Amount(queue, aside, free)
    <3>1. /\ Tail(queue) \in Seq(Conn) /\ Head(queue) \in Conn
          /\ Apart(Tail(queue), aside, inHand')
          /\ Amount(Tail(queue), aside, inHand') = Amount(queue, aside, free)
      BY <1>1, <1>2, <1>3, <1>5, <2>2, TakeHead
    <3> QED BY <2>1, <3>1
  <2>4. Accounted'
    BY <1>3, <1>4, <2>3 DEF Accounted
  <2>5. Head(queue) # NoConn /\ Head(queue) \in Conn \cup {NoConn}
    BY <2>3, PoolConstants DEF PoolConstants
  <2> QED BY <1>1, <1>2, <1>3, <1>4, <2>1, <2>3, <2>4, <2>5, GoesWell DEF Holding
<1>6. CASE queue = <<>>
  <2>1. PICK place \in {"lock", "wait"} : Goes(c, place, NoConn) /\ queue' = queue
    BY <1>6 DEF Look
  <2>2. inHand' = free
    BY <2>1 DEF Goes, free, Puts
  <2>3. Accounted'
    BY <1>3, <1>4, <2>1, <2>2 DEF Accounted
  <2> QED BY <1>1, <1>2, <1>3, <1>4, <2>1, <2>3, GoesWell DEF Holding
<1> QED BY <1>5, <1>6

\* A step that leaves queue and aside alone: hands keep what they hold or let go of it.
LEMMA KeepsStep ==
  ASSUME PoolInv, NEW p \in Proc, NEW place \in Holding, Goes(p, place, inHand[p]),
         UNCHANGED <<steady, minSize, queue, poolSize, aside>>, faults' \in 0 .. MaxFaults,
         at[p] \in Holding,
         p = Health => place \in {"check", "drop"}
  PROVE  PoolInv'
<1>1. /\ queue \in Seq(Conn) /\ aside \in Seq(Conn) /\ poolSize \in 0 .. MaxSize
      /\ inHand[p] \in Conn \cup {NoConn} /\ inHand[p] # NoConn
      /\ MaxSize \in Nat
  BY PoolBounds DEF PoolInv, PoolTypeOK, PlacesFit, PoolBounds
<1>2. inHand' = inHand
  BY DEF Goes, PoolInv, PoolTypeOK
<1>3. Accounted'
  BY <1>2 DEF PoolInv, Accounted
<1> QED BY <1>1, <1>3, GoesWell DEF Holding

LEMMA LeavesStep ==
  ASSUME PoolInv, NEW p \in Proc, NEW place \in {"out", "lock", "make", "wait"},
         Goes(p, place, NoConn), UNCHANGED <<steady, minSize, queue, aside, faults>>,
         \/ inHand[p] = NoConn /\ poolSize' = poolSize
         \/ inHand[p] # NoConn /\ poolSize' = poolSize - 1
         \/ ~ steady /\ poolSize' = poolSize,
         p = Health => place # "wait" /\ aside = <<>>,
         place = "make" => LockFree /\ poolSize' < MaxSize
  PROVE  PoolInv'
<1>1. /\ queue \in Seq(Conn) /\ aside \in Seq(Conn) /\ faults \in 0 .. MaxFaults
      /\ poolSize \in 0 .. MaxSize /\ MaxSize \in Nat
  BY PoolBounds DEF PoolInv, PoolTypeOK, PoolBounds
<1> DEFINE size == IF inHand[p] = NoConn THEN poolSize ELSE poolSize - 1
           free == Puts(inHand, p, NoConn)
<1>2. /\ Apart(queue, aside, free) /\ Amount(queue, aside, free) <= size
      /\ steady => Amount(queue, aside, free) = size
      /\ size \in 0 .. MaxSize /\ size <= poolSize
  BY EmptyHands
<1>3. inHand' = free
  BY DEF Goes, Puts
<1>4. steady => poolSize' = size
  OBVIOUS
<1>5. size <= poolSize' /\ poolSize' <= poolSize /\ poolSize' \in 0 .. MaxSize
  BY <1>1, <1>2
<1> HIDE DEF free, size
<1>6. Amount(queue, aside, free) \in Nat
  BY <1>1, AmountEitherWay
<1>7. Accounted'
  BY <1>1, <1>2, <1>3, <1>4, <1>5, <1>6 DEF Accounted
<1> QED BY <1>1, <1>5, <1>7, GoesWell DEF Holding, LockFree

LEMMA ReturnedStep ==
  ASSUME PoolInv, NEW c \in Client, Returned(c)
  PROVE  PoolInv'
<1>1. /\ c \in Proc /\ c # Health /\ at[c] = "return"
      /\ UNCHANGED <<steady, minSize, poolSize, aside>>
  BY PoolConstants DEF Proc, PoolConstants, Returned
<1>2. /\ inHand \in Hands /\ queue \in Seq(Conn) /\ aside \in Seq(Conn)
      /\ faults \in 0 .. MaxFaults /\ poolSize \in 0 .. MaxSize
      /\ MaxSize \in Nat /\ MaxFaults \in Nat
  BY PoolBounds DEF PoolInv, PoolTypeOK, Hands, PoolBounds
<1>3. inHand[c] # NoConn
  BY <1>1 DEF PoolInv, PlacesFit, Holding
<1>4. CASE queue' = Append(queue, inHand[c]) /\ Goes(c, "out", NoConn) /\ UNCHANGED faults
  <2>1. queue' = AtEnd(queue, inHand[c]) /\ inHand' = Puts(inHand, c, NoConn)
    BY <1>4 DEF AtEnd, Puts, Goes
  <2>2. /\ queue' \in Seq(Conn) /\ Apart(queue', aside, inHand')
        /\ Amount(queue', aside, inHand') = Amount(queue, aside, inHand)
    BY <1>1, <1>2, <1>3, <2>1, GiveBack DEF PoolInv, Accounted
  <2>3. Accounted'
    BY <1>1, <2>2 DEF PoolInv, Accounted
  <2> QED BY <1>1, <1>2, <1>4, <2>2, <2>3, GoesWell DEF Holding
<1>5. CASE Faulty /\ Goes(c, "discard", inHand[c]) /\ UNCHANGED queue
  <2>1. faults' \in 0 .. MaxFaults
    BY <1>2, <1>5 DEF Faulty
  <2> QED BY <1>1, <1>5, <2>1, KeepsStep DEF Holding
<1> QED BY <1>4, <1>5 DEF Returned

LEMMA ClientStep ==
  ASSUME PoolInv, NEW c \in Client,
         \/ Acquire(c) \/ TakeFromQueue(c) \/ ClientMoves(c)
         \/ RunOutOfTime(c) \/ Cancel(c)
  PROVE  PoolInv'
<1>1. c \in Proc /\ c # Health
  BY PoolConstants DEF Proc, PoolConstants
<1>2. inHand[c] # NoConn <=> at[c] \in Holding
  BY <1>1 DEF PoolInv, PlacesFit
<1>3. CASE Acquire(c) \/ TakeFromQueue(c) \/ LookAgain(c)
  BY <1>2, <1>3, LookStep DEF Acquire, TakeFromQueue, LookAgain, Holding
<1>4. CASE Dropped(c)
  BY <1>2, <1>4, LookStep DEF Dropped, Holding
<1>5. CASE Validated(c)
  <2>1. faults' \in 0 .. MaxFaults
    BY <1>5, PoolBounds DEF Validated, Faulty, PoolInv, PoolTypeOK, PoolBounds
  <2> QED BY <1>1, <1>5, <2>1, KeepsStep DEF Validated, Holding
<1>6. CASE Release(c)
  BY <1>1, <1>6, KeepsStep DEF Release, Holding, PoolInv, PoolTypeOK
<1>7. CASE Discarded(c)
  BY <1>1, <1>2, <1>7, LeavesStep DEF Discarded, Holding
<1>8. CASE RunOutOfTime(c)
  BY <1>1, <1>2, <1>8, LeavesStep DEF RunOutOfTime, Holding
<1>9. CASE Cancel(c)
  <2>1. CASE Goes(c, "out", NoConn)
    BY <1>1, <1>9, <2>1, LeavesStep DEF Cancel
  <2>2. CASE at[c] = "use" /\ Goes(c, "return", inHand[c])
    BY <1>1, <1>9, <2>2, KeepsStep DEF Cancel, Holding, PoolInv, PoolTypeOK
  <2>3. CASE at[c] = "drop" /\ Goes(c, "discard", inHand[c])
    BY <1>1, <1>9, <2>3, KeepsStep DEF Cancel, Holding, PoolInv, PoolTypeOK
  <2> QED BY <1>9, <2>1, <2>2, <2>3 DEF Cancel
<1> QED BY <1>3, <1>4, <1>5, <1>6, <1>7, <1>8, <1>9, ReturnedStep DEF ClientMoves

\* Who creates a connection found room for it under the lock, and still has it.
LEMMA CreatedStep ==
  ASSUME PoolInv, NEW p \in Proc, Created(p)
  PROVE  PoolInv'
<1>1. /\ at[p] = "make" /\ poolSize' = poolSize + 1
      /\ UNCHANGED <<steady, minSize, aside, faults>>
  BY DEF Created
<1>2. /\ inHand \in Hands /\ queue \in Seq(Conn) /\ aside \in Seq(Conn)
      /\ faults \in 0 .. MaxFaults /\ poolSize \in 0 .. MaxSize /\ MaxSize \in Nat
      /\ Apart(queue, aside, inHand)
  BY PoolBounds DEF PoolInv, PoolTypeOK, Hands, PoolBounds, Accounted
<1>3. /\ inHand[p] = NoConn /\ poolSize < MaxSize
      /\ \A r \in Proc : r # p => at[r] # "make"
      /\ p = Health => aside = <<>>
  BY <1>1 DEF PoolInv, PlacesFit, Holding
<1>4. PICK k \in Conn \ InPool :
        LET q == Append(queue, k)
        IN  IF p = Health
            THEN /\ queue' = q
                 /\ Goes(p, IF poolSize + 1 < minSize THEN "lock" ELSE "out", NoConn)
            ELSE queue' = Tail(q) /\ Goes(p, "use", Head(q))
  BY DEF Created
<1> DEFINE q == AtEnd(queue, k)
<1>5. /\ \A i \in DOMAIN queue : queue[i] # k
      /\ \A i \in DOMAIN aside : aside[i] # k
      /\ \A r \in Proc : inHand[r] # k
  BY PoolConstants DEF InPool, Held, ToSet, PoolConstants
<1>6. /\ q \in Seq(Conn) /\ q # <<>> /\ Apart(q, aside, inHand)
      /\ Amount(q, aside, inHand) = Amount(queue, aside, inHand) + 1
  BY <1>2, <1>5, PutLast
<1>7. IF p = Health
      THEN queue' = q /\ \E place \in {"lock", "out"} : Goes(p, place, NoConn)
      ELSE queue' = Tail(q) /\ Goes(p, "use", Head(q))
  BY <1>4 DEF AtEnd
<1> HIDE DEF q
<1>8. /\ Amount(q, aside, inHand) <= poolSize'
      /\ steady => Amount(q, aside, inHand) = poolSize'
      /\ poolSize' \in 0 .. MaxSize
  <2>1. Amount(queue, aside, inHand) \in Nat
    BY <1>2, AmountEitherWay
  <2>2. /\ Amount(queue, aside, inHand) <= poolSize
        /\ steady => Amount(queue, aside, inHand) = poolSize
    BY DEF PoolInv, Accounted
  <2> QED BY <1>1, <1>2, <1>3, <1>6, <2>1, <2>2
<1>9. CASE p = Health
  <2>1. PICK place \in {"lock", "out"} : Goes(p, place, NoConn)
    BY <1>7, <1>9
  <2>2. inHand' = inHand /\ queue' = q
    BY <1>2, <1>3, <1>7, <1>9, <2>1 DEF Goes, Hands
  <2>3. Accounted'
    BY <1>1, <1>6, <1>8, <2>2 DEF Accounted
  <2> QED BY <1>1, <1>2, <1>3, <1>6, <1>8, <1>9, <2>1, <2>2, <2>3, GoesWell DEF Holding
<1>10. CASE p # Health
  <2>1. inHand' = Puts(inHand, p, Head(q)) /\ Goes(p, "use", Head(q)) /\ queue' = Tail(q)
    BY <1>7, <1>10 DEF Goes, Puts
  <2>2. /\ Tail(q) \in Seq(Conn) /\ Head(q) \in Conn
        /\ Apart(Tail(q), aside, inHand')
        /\ Amount(Tail(q), aside, inHand') = Amount(q, aside, inHand)
    BY <1>2, <1>3, <1>6, <2>1, TakeHead
  <2>3. queue' \in Seq(Conn) /\ Accounted'
    BY <1>1, <1>8, <2>1, <2>2 DEF Accounted
  <2>4. Head(q) # NoConn /\ Head(q) \in Conn \cup {NoConn}
    BY <2>2, PoolConstants DEF PoolConstants
  <2> QED BY <1>1, <1>2, <1>3, <1>8, <1>10, <2>1, <2>3, <2>4, GoesWell DEF Holding
<1> QED BY <1>9, <1>10

LEMMA CreateStep ==
  ASSUME PoolInv, NEW p \in Proc, Makes(p) \/ CreateFails(p)
  PROVE  PoolInv'
<1>1. CASE EnterCreate(p)
  <2>1. inHand[p] = NoConn /\ (p = Health => aside = <<>>)
    BY <1>1 DEF EnterCreate, PoolInv, PlacesFit, Holding
  <2>2. CASE poolSize < MaxSize
    BY <1>1, <2>1, <2>2, LeavesStep DEF EnterCreate
  <2>3. CASE ~ (poolSize < MaxSize)
    BY <1>1, <2>1, <2>3, LeavesStep DEF EnterCreate, Otherwise
  <2> QED BY <2>2, <2>3
<1>2. CASE CreateFails(p)
  <2>1. inHand[p] = NoConn /\ (p = Health => aside = <<>>)
    BY <1>2 DEF CreateFails, PoolInv, PlacesFit, Holding
  <2> QED BY <1>2, <2>1, LeavesStep DEF CreateFails, Otherwise
<1> QED BY <1>1, <1>2, CreatedStep DEF Makes

\* The health check goes on to the next connection it has put aside.
LEMMA NextToCheckStep ==
  ASSUME PoolInv, NEW rest \in Seq(Conn), NEW free \in Hands,
         NextToCheck(rest, poolSize'), UNCHANGED <<steady, minSize, faults>>,
         queue' \in Seq(Conn), poolSize' \in 0 .. MaxSize, poolSize' <= poolSize,
         free = Puts(inHand, Health, NoConn),
         Apart(queue', rest, free), Amount(queue', rest, free) <= poolSize',
         steady => Amount(queue', rest, free) = poolSize'
  PROVE  PoolInv'
<1>1. /\ Health \in Proc /\ faults \in 0 .. MaxFaults /\ inHand \in Hands
  BY DEF Proc, PoolInv, PoolTypeOK, Hands
<1>2. free[Health] = NoConn /\ \A k : Puts(free, Health, k) = [inHand EXCEPT ![Health] = k]
  BY <1>1 DEF Puts, Hands
<1>3. CASE rest # <<>>
  <2>1. aside' = Tail(rest) /\ Goes(Health, "check", Head(rest))
    BY <1>3 DEF NextToCheck
  <2>2. inHand' = Puts(free, Health, Head(rest))
    BY <1>2, <2>1 DEF Goes
  <2>3. Apart(rest, queue', free) /\ Amount(rest, queue', free) = Amount(queue', rest, free)
    BY ApartEitherWay, AmountEitherWay
  <2>4. /\ Tail(rest) \in Seq(Conn) /\ Head(rest) \in Conn /\ inHand' \in Hands
        /\ Apart(Tail(rest), queue', inHand')
        /\ Amount(Tail(rest), queue', inHand') = Amount(rest, queue', free)
    BY <1>1, <1>2, <1>3, <2>2, <2>3, TakeHead
  <2>5. aside' \in Seq(Conn) /\ Apart(aside', queue', inHand')
        /\ Amount(aside', queue', inHand') = Amount(rest, queue', free)
    BY <2>1, <2>4
  <2>6. Apart(queue', aside', inHand')
        /\ Amount(queue', aside', inHand') = Amount(queue', rest, free)
    BY <2>3, <2>5, ApartEitherWay, AmountEitherWay
  <2>7. Accounted'
    BY <2>6 DEF Accounted
  <2>8. Head(rest) # NoConn /\ Head(rest) \in Conn \cup {NoConn}
    BY <2>4, PoolConstants DEF PoolConstants
  <2> QED BY <1>1, <2>1, <2>5, <2>7, <2>8, GoesWell DEF Holding
<1>4. CASE rest = <<>>
  <2>1. PICK place \in {"lock", "out"} : aside' = <<>> /\ Goes(Health, place, NoConn)
    BY <1>4 DEF NextToCheck
  <2>2. inHand' = free
    BY <2>1 DEF Goes, Puts
  <2>3. Accounted' /\ aside' \in Seq(Conn)
    BY <1>4, <2>1, <2>2 DEF Accounted
  <2> QED BY <1>1, <2>1, <2>3, GoesWell DEF Holding
<1> QED BY <1>3, <1>4

LEMMA HealthStep ==
  ASSUME PoolInv, BeginCheck \/ HealthValidated \/ HealthDropped
  PROVE  PoolInv'
<1>1. /\ Health \in Proc /\ inHand \in Hands
      /\ queue \in Seq(Conn) /\ aside \in Seq(Conn) /\ <<>> \in Seq(Conn)
      /\ faults \in 0 .. MaxFaults /\ MaxFaults \in Nat
      /\ poolSize \in 0 .. MaxSize /\ MaxSize \in Nat
      /\ inHand[Health] # NoConn <=> at[Health] \in Holding
      /\ Apart(queue, aside, inHand)
  BY PoolBounds DEF Proc, PoolInv, PoolTypeOK, Hands, PlacesFit, Accounted, PoolBounds
<1> DEFINE free == Puts(inHand, Health, NoConn)
           size == IF inHand[Health] = NoConn THEN poolSize ELSE poolSize - 1
<1>2. /\ free \in Hands /\ Apart(queue, aside, free)
      /\ Amount(queue, aside, free) <= size
      /\ steady => Amount(queue, aside, free) = size
      /\ size \in 0 .. MaxSize /\ size <= poolSize
  BY <1>1, EmptyHands
<1>3. CASE BeginCheck
  <2>1. /\ NextToCheck(queue, poolSize) /\ queue' = <<>> /\ aside = <<>>
        /\ UNCHANGED <<steady, minSize, poolSize, faults>>
        /\ size = poolSize
    BY <1>1, <1>3 DEF BeginCheck, PoolInv, PlacesFit, Holding
  <2> HIDE DEF free, size
  <2>2. Apart(queue, queue', free) /\ Amount(queue, queue', free) <= poolSize
        /\ (steady => Amount(queue, queue', free) = poolSize)
    BY <1>2, <2>1
  <2>3. Apart(queue', queue, free) /\ Amount(queue', queue, free) = Amount(queue, queue', free)
    BY <1>1, <2>1, <2>2, ApartEitherWay, AmountEitherWay
  <2> QED BY <1>1, <1>2, <2>1, <2>2, <2>3, NextToCheckStep DEF free
<1>4. CASE /\ HealthValidated
           /\ queue' = Append(queue, inHand[Health])
           /\ NextToCheck(aside, poolSize) /\ UNCHANGED faults
  <2>1. /\ inHand[Health] # NoConn /\ queue' = AtEnd(queue, inHand[Health])
        /\ UNCHANGED <<steady, minSize, poolSize>>
    BY <1>1, <1>4 DEF HealthValidated, Holding, AtEnd
  <2> HIDE DEF free
  <2>2. /\ queue' \in Seq(Conn) /\ Apart(queue', aside, free)
        /\ Amount(queue', aside, free) = Amount(queue, aside, inHand)
    BY <1>1, <2>1, GiveBack DEF free
  <2>3. /\ Amount(queue', aside, free) <= poolSize'
        /\ steady => Amount(queue', aside, free) = poolSize'
    BY <2>1, <2>2 DEF PoolInv, Accounted
  <2> QED BY <1>1, <1>2, <1>4, <2>1, <2>2, <2>3, NextToCheckStep DEF free
<1>5. CASE /\ HealthValidated
           /\ Faulty /\ Goes(Health, "drop", inHand[Health]) /\ UNCHANGED <<queue, aside>>
  <2>1. faults' \in 0 .. MaxFaults
    BY <1>1, <1>5 DEF Faulty
  <2> QED BY <1>1, <1>5, <2>1, KeepsStep DEF HealthValidated, Holding
<1>6. CASE HealthDropped
  <2>1. /\ poolSize' = size /\ NextToCheck(aside, poolSize') /\ queue' = queue
        /\ UNCHANGED <<steady, minSize, faults>>
    BY <1>1, <1>6 DEF HealthDropped, Holding
  <2> HIDE DEF free, size
  <2> QED BY <1>1, <1>2, <2>1, NextToCheckStep DEF free
<1> QED BY <1>3, <1>4, <1>5, <1>6 DEF HealthValidated

LEMMA PoolInvInit == PoolInit => PoolInv
<1> SUFFICES ASSUME PoolInit PROVE PoolInv
  OBVIOUS
<1>1. /\ minSize \in MinSizes /\ minSize \in 0 .. MaxSize /\ MaxSize \in Nat
      /\ poolSize = minSize /\ MaxFaults \in Nat
  BY PoolBounds DEF PoolInit, PoolBounds
<1>2. queue \in Seq(Conn) /\ Len(queue) = minSize /\ IsInjective(queue)
  <2>1. queue \in [1 .. minSize -> Conn] /\ minSize \in Nat
    BY <1>1 DEF PoolInit
  <2>2. queue \in Seq(Conn)
    BY <2>1, SeqDef
  <2> QED BY <1>1, <2>1, <2>2, LenProperties DEF PoolInit
<1>3. PoolTypeOK
  BY <1>1, <1>2 DEF PoolInit, PoolTypeOK
<1>4. Holders(inHand) = {}
  BY DEF PoolInit, Holders
<1>5. Apart(queue, aside, inHand)
  BY <1>2, <1>4 DEF PoolInit, Apart, IsInjective
<1>6. Amount(queue, aside, inHand) = poolSize
  <2>1. Cardinality(Holders(inHand)) = 0
    BY <1>4, FS_EmptySet
  <2>2. Len(aside) = 0
    BY DEF PoolInit
  <2> QED BY <1>1, <1>2, <2>1, <2>2 DEF Amount
<1>7. PlacesFit
  BY DEF PoolInit, PlacesFit, Proc, Holding
<1> QED BY <1>1, <1>3, <1>5, <1>6, <1>7 DEF PoolInv, Accounted

LEMMA PoolInvStep == PoolInv /\ [PoolNext]_poolVars => PoolInv'
<1> SUFFICES ASSUME PoolInv, [PoolNext]_poolVars PROVE PoolInv'
  OBVIOUS
<1>1. CASE UNCHANGED poolVars
  BY <1>1 DEF poolVars, PoolInv, PoolTypeOK, Accounted, PlacesFit
<1> QED BY <1>1, ClientStep, CreateStep, HealthStep DEF PoolNext

\* A sequence without repetitions is as long as it has elements.
LEMMA InjectiveLength ==
  ASSUME NEW S, NEW s \in Seq(S), IsInjective(s)
  PROVE  IsFiniteSet(ToSet(s)) /\ Cardinality(ToSet(s)) = Len(s)
<1>1. Len(s) \in Nat /\ DOMAIN s = 1 .. Len(s)
  OBVIOUS
<1>2. s \in Bijection(1 .. Len(s), ToSet(s))
  <2>1. s \in [1 .. Len(s) -> ToSet(s)]
    BY <1>1 DEF ToSet
  <2>2. \A t \in ToSet(s) : \E i \in 1 .. Len(s) : s[i] = t
    BY <1>1 DEF ToSet
  <2> QED BY <2>1, <2>2 DEF Bijection, Injection, Surjection
<1>3. ExistsBijection(1 .. Len(s), ToSet(s))
  BY <1>2 DEF ExistsBijection
<1> QED BY <1>1, <1>3, FS_NatBijection, FS_CountingElements

LEMMA InPoolIsCounted ==
  ASSUME PoolInv
  PROVE  Cardinality(InPool) = Amount(queue, aside, inHand)
<1>1. /\ queue \in Seq(Conn) /\ aside \in Seq(Conn) /\ Apart(queue, aside, inHand)
      /\ inHand \in Hands
  BY DEF PoolInv, PoolTypeOK, Accounted, Hands
<1>2. /\ IsFiniteSet(ToSet(queue)) /\ Cardinality(ToSet(queue)) = Len(queue)
      /\ IsFiniteSet(ToSet(aside)) /\ Cardinality(ToSet(aside)) = Len(aside)
  BY <1>1, InjectiveLength DEF Apart
<1>3. IsFiniteSet(Held) /\ Cardinality(Held) = Cardinality(Holders(inHand))
  <2> DEFINE h == [p \in Holders(inHand) |-> inHand[p]]
  <2>1. Held = {inHand[p] : p \in Holders(inHand)}
    BY DEF Held, Holders
  <2>2. h \in [Holders(inHand) -> Held] /\ \A k \in Held : \E p \in Holders(inHand) : h[p] = k
    BY <2>1
  <2>3. IsInjective(h)
    BY <1>1 DEF IsInjective, Apart
  <2>4. h \in Bijection(Holders(inHand), Held)
    BY <2>2, <2>3 DEF Bijection, Injection, Surjection
  <2>5. ExistsBijection(Holders(inHand), Held)
    BY <2>4 DEF ExistsBijection
  <2> QED BY <2>5, HoldersAreFinite, FS_Bijection
<1>4. ToSet(queue) \cap ToSet(aside) = {}
  BY <1>1 DEF Apart, ToSet
<1>5. (ToSet(queue) \cup ToSet(aside)) \cap Held = {}
  BY <1>1 DEF Apart, ToSet, Held, Holders
<1>6. /\ IsFiniteSet(ToSet(queue) \cup ToSet(aside))
      /\ Cardinality(ToSet(queue) \cup ToSet(aside)) = Len(queue) + Len(aside)
  <2>1. /\ IsFiniteSet(ToSet(queue) \cup ToSet(aside))
        /\ Cardinality(ToSet(queue) \cup ToSet(aside)) = Len(queue) + Len(aside) - Cardinality({})
    BY <1>2, <1>4, FS_Union
  <2> QED BY <1>1, <2>1, FS_EmptySet
<1>7. Cardinality(InPool)
        = Len(queue) + Len(aside) + Cardinality(Holders(inHand)) - Cardinality({})
  BY <1>3, <1>5, <1>6, FS_Union DEF InPool
<1> QED BY <1>1, <1>7, FS_EmptySet, HoldersAreFinite DEF Amount

\* The pool's bookkeeping keeps its type; the size stays between nothing and max_size.
THEOREM PoolTypeCorrect == PoolSpec => []PoolTypeOK
<1>1. PoolInv => PoolTypeOK
  BY DEF PoolInv
<1> QED BY <1>1, PoolInvInit, PoolInvStep, PTL DEF PoolSpec

\* For any number of clients and any limit, whoever acquires, releases, creates, is
\* cancelled and checks at the same time: no connection is in two places, _size counts
\* at least those there are, exactly those without cancellations, and at most max_size.
THEOREM PoolKeepsAccount == PoolSpec => []ConnectionsAccounted
<1>1. PoolInv => ConnectionsAccounted
  <2> SUFFICES ASSUME PoolInv PROVE ConnectionsAccounted
    OBVIOUS
  <2>1. Holders(inHand) = {p \in Proc : inHand[p] # NoConn}
    BY DEF Holders
  <2>2. poolSize <= MaxSize
    BY PoolBounds DEF PoolInv, PoolTypeOK, PoolBounds
  <2> QED BY <2>1, <2>2, InPoolIsCounted DEF PoolInv, Accounted, Amount, ConnectionsAccounted
<1> QED BY <1>1, PoolInvInit, PoolInvStep, PTL DEF PoolSpec
=============================================================================
