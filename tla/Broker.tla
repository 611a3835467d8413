------------------------------- MODULE Broker -------------------------------
(***************************************************************************)
(* A topic of RabbitMQ and the consumers WithConsumerTopic registers on    *)
(* it.  A consumer is a task of the worker pool: it ranges over the        *)
(* deliveries of its channel, calls fn with each and acknowledges it,      *)
(* whatever fn returned.  There is no limit on what is delivered ahead, so *)
(* a consumer holds a buffer of deliveries that only it can acknowledge.   *)
(*                                                                         *)
(* NewOrderApplication registers a consumer when the process starts, and   *)
(* again for every virtual account request, which builds an application of *)
(* its own: several consumers on one topic are the normal case.            *)
(***************************************************************************)
EXTENDS Integers, FiniteSets

CONSTANTS Messages, Consumers, NIL, MaxFaults

ASSUME BrokerAssumption ==
  NIL \notin Messages /\ MaxFaults \in Nat

VARIABLES
  ready,     \* the messages in the queue
  unacked,   \* unacked[c]: delivered on c's channel and not acknowledged, for the broker
  buffer,    \* buffer[c]: deliveries c has received and not begun
  current,   \* current[c]: the message fn is called with
  consumer,  \* consumer[c]: not there ("none"), "up", or with its connection "cut"
  acked,     \* the messages acknowledged
  returns,   \* returns[m]: how often fn returned for m
  delivered, \* delivered[m]: how often m was delivered
  faults     \* panics, lost connections and crashes so far

brokerVars ==
  <<ready, unacked, buffer, current, consumer, acked, returns, delivered, faults>>

Queued == ready \cup (UNION {unacked[c] : c \in Consumers}) \cup acked

BrokerInit ==
  /\ ready = {}
  /\ unacked = [c \in Consumers |-> {}]
  /\ buffer = [c \in Consumers |-> {}]
  /\ current = [c \in Consumers |-> NIL]
  /\ consumer = [c \in Consumers |-> "none"]
  /\ acked = {}
  /\ returns = [m \in Messages |-> 0]
  /\ delivered = [m \in Messages |-> 0]
  /\ faults = 0

-----------------------------------------------------------------------------
(* The bank gateway publishes; a message is published once.                *)

Publish(m) ==
  /\ m \notin Queued
  /\ ready' = ready \cup {m}
  /\ UNCHANGED <<unacked, buffer, current, consumer, acked, returns, delivered, faults>>

\* WithConsumerTopic: declare exchange and queue, bind, consume.
WithConsumerTopic(c) ==
  /\ consumer[c] = "none"
  /\ consumer' = [consumer EXCEPT ![c] = "up"]
  /\ UNCHANGED <<ready, unacked, buffer, current, acked, returns, delivered, faults>>

\* Mutant: the message stays in the queue while it is out on a channel.
DeliverTwice(c, m) ==
  /\ consumer[c] = "up" /\ m \in ready \ unacked[c]
  /\ delivered[m] < 1 + MaxFaults
  /\ unacked' = [unacked EXCEPT ![c] = @ \cup {m}]
  /\ buffer' = [buffer EXCEPT ![c] = @ \cup {m}]
  /\ delivered' = [delivered EXCEPT ![m] = @ + 1]
  /\ UNCHANGED <<ready, current, consumer, acked, returns, faults>>

Deliver(c, m) ==
  /\ consumer[c] = "up" /\ m \in ready
  /\ ready' = ready \ {m}
  /\ unacked' = [unacked EXCEPT ![c] = @ \cup {m}]
  /\ buffer' = [buffer EXCEPT ![c] = @ \cup {m}]
  /\ delivered' = [delivered EXCEPT ![m] = @ + 1]
  /\ UNCHANGED <<current, consumer, acked, returns, faults>>

\* One message at a time.
Take(c, m) ==
  /\ consumer[c] \in {"up", "cut"} /\ current[c] = NIL /\ m \in buffer[c]
  /\ buffer' = [buffer EXCEPT ![c] = @ \ {m}]
  /\ current' = [current EXCEPT ![c] = m]
  /\ UNCHANGED <<ready, unacked, consumer, acked, returns, delivered, faults>>

\* fn returns and the message is acknowledged; on a channel that is gone the
\* Ack fails and nobody looks at its error.
Return(c) ==
  /\ current[c] # NIL
  /\ returns' = [returns EXCEPT ![current[c]] = @ + 1]
  /\ acked' = acked \cup (unacked[c] \cap {current[c]})
  /\ unacked' = [unacked EXCEPT ![c] = @ \ {current[c]}]
  /\ current' = [current EXCEPT ![c] = NIL]
  /\ UNCHANGED <<ready, buffer, consumer, delivered, faults>>

-----------------------------------------------------------------------------
(* What ends consumers.  What they have not acknowledged is requeued.      *)

Fault == faults < MaxFaults /\ faults' = faults + 1

Requeue(cs) ==
  /\ ready' = ready \cup (UNION {unacked[c] : c \in cs})
  /\ unacked' = [c \in Consumers |-> IF c \in cs THEN {} ELSE unacked[c]]

Gone(cs) ==
  /\ buffer' = [c \in Consumers |-> IF c \in cs THEN {} ELSE buffer[c]]
  /\ current' = [c \in Consumers |-> IF c \in cs THEN NIL ELSE current[c]]
  /\ consumer' = [c \in Consumers |-> IF c \in cs THEN "none" ELSE consumer[c]]

\* fn panics: the deferred Close closes the channel and the pool's handler logs
\* the panic.  The task is over; nothing registers the consumer again.
Panic(c) ==
  /\ current[c] # NIL
  /\ Fault /\ Requeue({c}) /\ Gone({c})
  /\ UNCHANGED <<acked, returns, delivered>>

\* The connection is lost: the broker requeues at once, fn does not notice.
Cut(c) ==
  /\ consumer[c] = "up"
  /\ Fault /\ Requeue({c})
  /\ consumer' = [consumer EXCEPT ![c] = "cut"]
  /\ UNCHANGED <<buffer, current, acked, returns, delivered>>

\* The client library closes the deliveries of a lost connection, dropping the
\* ones that are still buffered, sooner or later: the range ends.
RangeEnds(c) ==
  /\ consumer[c] = "cut" /\ current[c] = NIL
  /\ Gone({c})
  /\ UNCHANGED <<ready, unacked, acked, returns, delivered, faults>>

\* The process dies and all its consumers with it.
Crash ==
  /\ Fault /\ Requeue(Consumers) /\ Gone(Consumers)
  /\ UNCHANGED <<acked, returns, delivered>>

Around ==
  \/ \E m \in Messages : Publish(m)
  \/ \E c \in Consumers : WithConsumerTopic(c) \/ Cut(c) \/ RangeEnds(c)
  \/ \E c \in Consumers, m \in Messages : Deliver(c, m)
  \/ Crash

BrokerNext ==
  \/ Around
  \/ \E c \in Consumers, m \in Messages : Take(c, m)
  \/ \E c \in Consumers : Return(c) \/ Panic(c)

BrokerSpec == BrokerInit /\ [][BrokerNext]_brokerVars

-----------------------------------------------------------------------------
(* Properties.                                                             *)

BrokerTypeOK ==
  /\ ready \in SUBSET Messages
  /\ unacked \in [Consumers -> SUBSET Messages]
  /\ buffer \in [Consumers -> SUBSET Messages]
  /\ current \in [Consumers -> Messages \cup {NIL}]
  /\ consumer \in [Consumers -> {"none", "up", "cut"}]
  /\ acked \in SUBSET Messages
  /\ returns \in [Messages -> Nat]
  /\ delivered \in [Messages -> Nat]
  /\ faults \in 0 .. MaxFaults

\* The broker gives a message to one consumer at a time, and not while it is
\* queued or acknowledged.
DeliveredToOne ==
  /\ ready \cap acked = {}
  /\ \A c \in Consumers :
       /\ unacked[c] \cap (ready \cup acked) = {}
       /\ \A d \in Consumers \ {c} : unacked[c] \cap unacked[d] = {}

\* Two consumers work on the same message at once only if one of them has lost
\* its connection and its fn runs on.
OverlapNeedsCut ==
  \A c, d \in Consumers :
    c # d /\ current[c] # NIL /\ current[c] = current[d] => "cut" \in {consumer[c], consumer[d]}

\* An acknowledged message is one fn has returned for.
AckedWasHandled == \A m \in acked : returns[m] > 0

\* Every delivery after the first is owed to a panic, a lost connection or a crash.
RedeliveryNeedsFault == \A m \in Messages : delivered[m] <= 1 + faults

\* A message is never dropped: published, it is queued, out or acknowledged.
NeverDropped == [][Queued \subseteq Queued']_brokerVars
=============================================================================
