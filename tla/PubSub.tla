------------------------------- MODULE PubSub -------------------------------
(***************************************************************************)
(* One topic with one partition, its subscriptions and their subscribers   *)
(* (streaming/pubsub.py), in the delivery mode AT_LEAST_ONCE.  The manager *)
(* works under a lock, one step per call; a subscriber's handler runs      *)
(* between the receipt of a message and its acknowledgement.               *)
(*                                                                         *)
(* The thread that would sweep old messages and acknowledgements that time *)
(* out ends with a TypeError on its first look at a topic with a message   *)
(* (line 574 compares a naive publish_time with an aware cutoff).  Nothing *)
(* expires and no acknowledgement times out, so neither is an action.      *)
(*                                                                         *)
(* unbroken singles out the runs in which no subscriber is stopped with a  *)
(* message in hand and every subscription keeps a subscriber.              *)
(***************************************************************************)
EXTENDS Naturals, Sequences, SequencesExt, FiniteSets

CONSTANTS
  Message, NoMessage,   \* messages are numbers in the order they are published,
                        \* which are the hashes of their keys too
  Subscription,
  Subscriber,
  SubscribesTo,         \* the subscription of each
  MaxRedeliveries,      \* max_redeliveries
  MaxStops              \* bound: subscribers stopped

ASSUME SubscribesSomewhere ==
  IsFiniteSet(Subscriber) /\ SubscribesTo \in [Subscriber -> Subscription]
ASSUME PubSubBounds == Message \subseteq Nat /\ MaxStops \in Nat

VARIABLES
  unbroken,
  kind,         \* subscription_type of all subscriptions
  log,          \* the partition
  cursor,       \* cursor_positions
  awaiting,     \* keys of pending_acks
  redelivered,  \* redelivery_count, one for all subscriptions
  acked, dead,  \* messages acknowledged, messages given up (dead letters)
  line,         \* subscribers
  handling,     \* the message each subscriber has in hand
  stops

pubSubVars == <<unbroken, kind, log, cursor, awaiting, redelivered,
                acked, dead, line, handling, stops>>

PubSubTypeOK ==
  /\ unbroken \in BOOLEAN
  /\ kind \in {"EXCLUSIVE", "SHARED", "KEY_SHARED"}
  /\ log \in Seq(Message)
  /\ cursor \in [Subscription -> 0 .. Len(log)]
  /\ awaiting \in [Subscription -> SUBSET Message]
  /\ redelivered \in [Message -> Nat]
  /\ acked \in [Subscription -> SUBSET Message]
  /\ dead \in [Subscription -> SUBSET Message]
  /\ line \in [Subscription -> Seq(Subscriber)]
  /\ handling \in [Subscriber -> Message \cup {NoMessage}]
  /\ stops \in 0 .. MaxStops

Subscribed(s) == {x \in Subscriber : SubscribesTo[x] = s}

\* create_topic, create_subscription and a first start_async of every subscriber,
\* in any order, before the first message.
PubSubInit ==
  /\ unbroken \in BOOLEAN
  /\ kind \in {"EXCLUSIVE", "SHARED", "KEY_SHARED"}
  /\ log = <<>>
  /\ cursor = [s \in Subscription |-> 0]
  /\ awaiting = [s \in Subscription |-> {}]
  /\ redelivered = [m \in Message |-> 0]
  /\ acked = [s \in Subscription |-> {}] /\ dead = [s \in Subscription |-> {}]
  /\ line \in {l \in [Subscription -> UNION {SetToSeqs(Subscribed(s)) : s \in Subscription}] :
                \A s \in Subscription : ToSet(l[s]) = Subscribed(s)}
  /\ handling = [x \in Subscriber |-> NoMessage]
  /\ stops = 0

----------------------------------------------------------------------------
\* publish: every message has an id of its own.
Publish(m) ==
  /\ ToSet(log) = 1 .. m - 1
  /\ log' = Append(log, m)
  /\ UNCHANGED <<unbroken, kind, cursor, awaiting, redelivered,
                 acked, dead, line, handling, stops>>

\* start_async
Join(x) ==
  LET s == SubscribesTo[x]
  IN  /\ x \notin ToSet(line[s])
      /\ line' = [line EXCEPT ![s] = Append(@, x)]
      /\ UNCHANGED <<unbroken, kind, log, cursor, awaiting,
                     redelivered, acked, dead, handling, stops>>

\* Whether _get_next_message gives the message to this subscriber.
MayReceive(x, s, m) ==
  \/ kind = "SHARED"
  \/ kind = "EXCLUSIVE" /\ Head(line[s]) = x
  \/ kind = "KEY_SHARED" /\ line[s][1 + (m % Len(line[s]))] = x

\* _get_next_message: the cursor moves on and the message awaits its
\* acknowledgement in one step.
Receive(x) ==
  LET s == SubscribesTo[x]
  IN  /\ x \in ToSet(line[s]) /\ handling[x] = NoMessage
      /\ cursor[s] < Len(log)
      /\ LET m == log[cursor[s] + 1]
         IN  /\ MayReceive(x, s, m)
             /\ handling' = [handling EXCEPT ![x] = m]
             /\ awaiting' = [awaiting EXCEPT ![s] = @ \cup {m}]
      /\ cursor' = [cursor EXCEPT ![s] = @ + 1]
      /\ UNCHANGED <<unbroken, kind, log, redelivered, acked, dead,
                     line, stops>>

\* _negative_acknowledge_message: what has failed too often is given up, the
\* rest goes to the end of the partition, where every subscription finds it.
Requeue_Drops(s, m) ==
  IF redelivered[m] + 1 >= MaxRedeliveries
  THEN dead' = [dead EXCEPT ![s] = @ \cup {m}] /\ UNCHANGED log
  ELSE UNCHANGED <<dead, log>>

Requeue(s, m) ==
  IF redelivered[m] + 1 >= MaxRedeliveries
  THEN dead' = [dead EXCEPT ![s] = @ \cup {m}] /\ UNCHANGED log
  ELSE log' = Append(log, m) /\ UNCHANGED dead

\* The handler is done (_process_message).  An answer to a message that awaits
\* none any more is ignored.
Finish(x, success) ==
  LET s == SubscribesTo[x]
      m == handling[x]
  IN  /\ m # NoMessage
      /\ handling' = [handling EXCEPT ![x] = NoMessage]
      /\ awaiting' = [awaiting EXCEPT ![s] = @ \ {m}]
      /\ IF m \in awaiting[s] /\ success
         THEN acked' = [acked EXCEPT ![s] = @ \cup {m}]
         ELSE UNCHANGED acked
      /\ IF m \in awaiting[s] /\ ~success
         THEN redelivered' = [redelivered EXCEPT ![m] = @ + 1] /\ Requeue(s, m)
         ELSE UNCHANGED <<redelivered, dead, log>>
      /\ UNCHANGED <<unbroken, kind, cursor, line, stops>>

\* stop_async: the receive loop is cancelled first, in the middle of a handler
\* too, and then the subscriber leaves the line.
Stop_LetsItFinish(x) ==
  LET s == SubscribesTo[x]
  IN  /\ stops < MaxStops /\ stops' = stops + 1
      /\ unbroken => handling[x] = NoMessage /\ Len(line[s]) > 1
      /\ \E i \in DOMAIN line[s] :
           line[s][i] = x /\ line' = [line EXCEPT ![s] = RemoveAt(@, i)]
      /\ UNCHANGED <<unbroken, kind, log, cursor, awaiting,
                     redelivered, acked, dead, handling>>

Stop(x) ==
  LET s == SubscribesTo[x]
  IN  /\ stops < MaxStops /\ stops' = stops + 1
      /\ unbroken => handling[x] = NoMessage /\ Len(line[s]) > 1
      /\ \E i \in DOMAIN line[s] :
           line[s][i] = x /\ line' = [line EXCEPT ![s] = RemoveAt(@, i)]
      /\ handling' = [handling EXCEPT ![x] = NoMessage]
      /\ UNCHANGED <<unbroken, kind, log, cursor, awaiting,
                     redelivered, acked, dead>>

PubSubNext ==
  \/ \E m \in Message : Publish(m)
  \/ \E x \in Subscriber : \/ Join(x) \/ Receive(x) \/ Stop(x)
                           \/ \E success \in BOOLEAN : Finish(x, success)

PubSubSpec == PubSubInit /\ [][PubSubNext]_pubSubVars

\* Subscribers that are in line work.
PubSubMoves ==
  \E x \in Subscriber : Receive(x) \/ \E success \in BOOLEAN : Finish(x, success)

PubSubFairness == WF_pubSubVars(PubSubMoves)

----------------------------------------------------------------------------
SettledFor(s, m) == m \in acked[s] \cup dead[s]

\* An EXCLUSIVE subscription has one subscriber at work, also when the first in
\* line is stopped in the middle of a message and the next takes over
\* (stop_async cancels before it removes).
ExclusiveIsAlone ==
  kind = "EXCLUSIVE" =>
    \A s \in Subscription :
      Cardinality({x \in Subscribed(s) : handling[x] # NoMessage}) <= 1

\* AT_LEAST_ONCE: in an unbroken run every published message is acknowledged or
\* given up by every subscription, sooner or later all of them are.
EveryMessageSettles ==
  []<>(unbroken => \A s \in Subscription, m \in ToSet(log) : SettledFor(s, m))
=============================================================================
