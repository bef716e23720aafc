--------------------------- MODULE BrokerConsumers ---------------------------
(* The consuming side of the broker adapters: who acknowledges a message,   *)
(* and when, between the adapter's iterator and the application's loop.     *)
EXTENDS Naturals, Sequences

CONSTANTS
    Messages,      \* numbered in publication order
    max_messages,  \* what one pull returns at most
    MaxFailures    \* how often a consumer dies, or a payload is not decoded

ASSUME ConsumersAssumption ==
    Messages \subseteq Nat /\ max_messages \in Nat /\ MaxFailures \in Nat

VARIABLES
    transport,   \* the adapter; never changes
    message,     \* per message, at the broker: "ready", "out" (delivered) or "acked"
    batch,       \* the messages the adapter holds, in order; the first is in the loop
    body,        \* of the first one: "new", "yielded", "processed"
    acks,        \* ack_ids collected by pull()
    processed,   \* the messages the application has processed
    failures     \* history: failures so far

consumer_vars == <<transport, message, batch, body, acks, processed, failures>>

Transports == {"pubsub", "servicebus", "pulsar", "redis", "kafka"}

ConsumerTypeOK ==
    /\ transport \in Transports
    /\ message \in [Messages -> {"ready", "out", "acked"}]
    /\ batch \in Seq(Messages) /\ acks \subseteq Messages /\ processed \subseteq Messages
    /\ body \in {"new", "yielded", "processed"} /\ failures \in 0..MaxFailures

ConsumerInit ==
    /\ transport \in Transports
    /\ message = [m \in Messages |-> "ready"]
    /\ batch = <<>> /\ body = "new" /\ acks = {} /\ processed = {} /\ failures = 0

Ready == {m \in Messages : message[m] = "ready"}
Batches ==
    {b \in UNION {[1..n -> Ready] : n \in 1..max_messages} :
        \A i, j \in DOMAIN b : i < j => b[i] < b[j]}
Members(b) == {b[i] : i \in DOMAIN b}
Deliver(b) ==
    /\ batch = <<>>
    /\ batch' = b
    /\ message' = [m \in Messages |-> IF m \in Members(b) THEN "out" ELSE message[m]]
    /\ UNCHANGED <<transport, body, acks, processed, failures>>

(* PubSubSubscriber.pull: one request, up to max_messages.  A new pull()   *)
(* starts with an empty list of ack_ids.                                   *)
pull == transport = "pubsub" /\ acks = {} /\ \E b \in Batches : Deliver(b)

(* RedisStreamConsumerGroup.read: only entries never delivered (">"). *)
read == transport = "redis" /\ \E b \in Batches : Deliver(b)

(* One at a time: the Service Bus receiver, PulsarConsumer.__anext__ (which *)
(* ends the loop after 100 ms without a message), KafkaConsumer.__aiter__.  *)
receive == transport \in {"servicebus", "pulsar", "kafka"} /\ \E m \in Ready : Deliver(<<m>>)

(* The payload is decoded and yielded; pull() notes the ack_id first. *)
decode ==
    /\ batch # <<>> /\ body = "new" /\ body' = "yielded"
    /\ acks' = IF transport = "pubsub" THEN acks \cup {Head(batch)} ELSE acks
    /\ UNCHANGED <<transport, message, batch, processed, failures>>

(* json.loads raises: Service Bus abandons, pull() skips it unacknowledged *)
(* (its deadline makes it ready again).                                    *)
decode_error ==
    /\ transport \in {"pubsub", "servicebus"} /\ batch # <<>> /\ body = "new" /\ failures < MaxFailures
    /\ failures' = failures + 1
    /\ message' = [message EXCEPT ![Head(batch)] = "ready"]
    /\ batch' = Tail(batch)
    /\ UNCHANGED <<transport, body, acks, processed>>

(* The body of the application's loop; with Pulsar and Redis it ends with  *)
(* an ack of its own.                                                      *)
process ==
    /\ body = "yielded" /\ body' = "processed"
    /\ processed' = processed \cup {Head(batch)}
    /\ UNCHANGED <<transport, message, batch, acks, failures>>

(* Plausible slips in the definitions below, used to test the properties. *)
next_unprocessed ==
    /\ batch # <<>> /\ body # "new"
    /\ message' = IF transport \in {"pubsub", "kafka"} THEN message ELSE [message EXCEPT ![Head(batch)] = "acked"]
    /\ batch' = Tail(batch) /\ body' = "new"
    /\ UNCHANGED <<transport, acks, processed, failures>>
Redelivered_never == {m \in Messages : message[m] = "out" /\ transport \in {"pulsar", "kafka"}}

(* After the loop body: complete_message, PulsarConsumer.ack and           *)
(* RedisStreamConsumerGroup.ack acknowledge it; pull() just goes on.       *)
next ==
    /\ batch # <<>> /\ body = "processed"
    /\ message' = IF transport \in {"pubsub", "kafka"} THEN message ELSE [message EXCEPT ![Head(batch)] = "acked"]
    /\ batch' = Tail(batch) /\ body' = "new"
    /\ UNCHANGED <<transport, acks, processed, failures>>

(* The end of pull(): everything decoded is acknowledged at once. *)
acknowledge ==
    /\ transport = "pubsub" /\ batch = <<>> /\ acks # {}
    /\ message' = [m \in Messages |-> IF m \in acks /\ message[m] = "out" THEN "acked" ELSE message[m]]
    /\ acks' = {}
    /\ UNCHANGED <<transport, batch, body, processed, failures>>

(* aiokafka's default: the position of what was handed out is committed in *)
(* the background, processed or not.                                       *)
auto_commit ==
    /\ transport = "kafka" /\ \E m \in Messages : message[m] = "out"
    /\ message' = [m \in Messages |-> IF message[m] = "out" THEN "acked" ELSE message[m]]
    /\ UNCHANGED <<transport, batch, body, acks, processed, failures>>

(* What the broker delivers again when the consumer dies or leaves the     *)
(* loop; a Redis group keeps it for a claim that this code never makes.    *)
Redelivered == {m \in Messages : message[m] = "out" /\ transport # "redis"}

leave ==
    /\ failures < MaxFailures /\ (batch # <<>> \/ acks # {})
    /\ failures' = failures + 1
    /\ message' = [m \in Messages |-> IF m \in Redelivered THEN "ready" ELSE message[m]]
    /\ batch' = <<>> /\ body' = "new" /\ acks' = {}
    /\ UNCHANGED <<transport, processed>>

Consume == pull \/ read \/ receive \/ decode \/ process \/ next \/ acknowledge
ConsumerNext == Consume \/ decode_error \/ auto_commit \/ leave
ConsumerSpec == ConsumerInit /\ [][ConsumerNext]_consumer_vars

-----------------------------------------------------------------------------
(* An acknowledged message has been processed; only Kafka's commit in the  *)
(* background, with a consumer that then dies, can lose one.               *)
AckedIsProcessed ==
    \A m \in Messages : message[m] = "acked" =>
        m \in processed \/ (transport = "kafka" /\ (failures > 0 \/ m \in Members(batch)))

(* Every message is processed in the end, however often the consumer dies  *)
(* first; what a dead Redis consumer had read, and what Kafka committed    *)
(* for one that died, is not.                                              *)
EventuallyProcessed ==
    <>(\A m \in Messages : m \in processed \/ (failures > 0 /\ transport \in {"redis", "kafka"}))
=============================================================================
