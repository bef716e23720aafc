------------------------------- MODULE Buses --------------------------------
(* The buses: connections to brokers, and the ones within the process.      *)
EXTENDS Naturals, FiniteSets

(* The publishing side of the NATS, RabbitMQ, Pulsar and Kafka adapters:    *)
(* the connection that the first publish() opens, all calls share, and      *)
(* close() closes.  Two calls may find it missing at the same time.         *)

CONSTANTS Publishers, MaxConnections

VARIABLES
    bus,        \* the adapter; never changes
    link,       \* the connection it refers to; 0 is None
    open,       \* the connections that are open
    opened,     \* how many were opened
    publisher,  \* per publish(): "idle", "connecting", "sending"
    delivered,  \* the connections over which something was sent
    crossed_connect   \* history: something else ran while one was connecting

bus_vars == <<bus, link, open, opened, publisher, delivered, crossed_connect>>

LinkTypeOK ==
    /\ bus \in {"nats", "rabbitmq", "pulsar", "kafka"}
    /\ link \in 0..MaxConnections /\ opened \in 0..MaxConnections
    /\ open \subseteq 1..MaxConnections /\ delivered \subseteq 1..MaxConnections
    /\ publisher \in [Publishers -> {"idle", "connecting", "sending"}]
    /\ crossed_connect \in BOOLEAN

LinkInit ==
    /\ bus \in {"nats", "rabbitmq", "pulsar", "kafka"}
    /\ link = 0 /\ open = {} /\ opened = 0 /\ delivered = {} /\ crossed_connect = FALSE
    /\ publisher = [p \in Publishers |-> "idle"]

Connecting == {p \in Publishers : publisher[p] = "connecting"}

(* Plausible slips in the definitions below, used to test the properties. *)
publish_reconnecting(p) ==
    /\ publisher[p] = "idle"
    /\ publisher' = [publisher EXCEPT ![p] = IF link \notin open THEN "connecting" ELSE "sending"]
    /\ crossed_connect' = (crossed_connect \/ (link \notin open /\ Connecting # {}))
    /\ UNCHANGED <<bus, link, open, opened, delivered>>
connect_each_time(p) ==
    /\ publisher[p] # "idle" /\ opened < MaxConnections
    /\ opened' = opened + 1 /\ open' = open \cup {opened + 1} /\ link' = opened + 1
    /\ publisher' = [publisher EXCEPT ![p] = "sending"]
    /\ UNCHANGED <<bus, delivered, crossed_connect>>

publish(p) ==
    /\ publisher[p] = "idle"
    /\ publisher' = [publisher EXCEPT ![p] = IF link = 0 THEN "connecting" ELSE "sending"]
    /\ crossed_connect' = (crossed_connect \/ (link = 0 /\ Connecting # {}))
    /\ UNCHANGED <<bus, link, open, opened, delivered>>

(* The reference is replaced when the connection is there. *)
connect(p) ==
    /\ publisher[p] = "connecting" /\ opened < MaxConnections
    /\ opened' = opened + 1 /\ open' = open \cup {opened + 1} /\ link' = opened + 1
    /\ publisher' = [publisher EXCEPT ![p] = "sending"]
    /\ UNCHANGED <<bus, delivered, crossed_connect>>

(* The broker cannot be reached: publish() raises. *)
connect_fails(p) ==
    /\ publisher[p] = "connecting"
    /\ publisher' = [publisher EXCEPT ![p] = "idle"]
    /\ UNCHANGED <<bus, link, open, opened, delivered, crossed_connect>>

(* Over a connection that is closed it raises. *)
send(p) ==
    /\ publisher[p] = "sending"
    /\ delivered' = IF link \in open THEN delivered \cup {link} ELSE delivered
    /\ publisher' = [publisher EXCEPT ![p] = "idle"]
    /\ UNCHANGED <<bus, link, open, opened, crossed_connect>>

Close(l) ==
    /\ link # 0 /\ open' = open \ {link} /\ link' = l
    /\ crossed_connect' = (crossed_connect \/ Connecting # {})
    /\ UNCHANGED <<bus, opened, publisher, delivered>>

(* NatsMessageBus and RabbitMQMessageBus keep the closed connection. *)
close_keeping == bus \in {"nats", "rabbitmq"} /\ Close(link)

(* PulsarProducer forgets it, KafkaProducer.stop clears _started: the next *)
(* publish() connects again.                                               *)
close_forgetting == bus \in {"pulsar", "kafka"} /\ Close(0)

LinkNext ==
    \/ \E p \in Publishers : publish(p) \/ connect(p) \/ connect_fails(p) \/ send(p)
    \/ close_keeping \/ close_forgetting

-----------------------------------------------------------------------------
(* No connection is left open behind the adapter's back: at most the one   *)
(* it refers to, which close() can close.  Two first publishes at once, or *)
(* a close() while one connects, are what leaks one.                       *)
NoneLeaked == crossed_connect \/ open \subseteq {link}

(* Once a NATS or RabbitMQ bus is closed nothing is sent over it again: it *)
(* neither reconnects nor notices.                                         *)
ClosedStaysClosed ==
    [][link # 0 /\ bus \in {"nats", "rabbitmq"} /\ link \notin open /\ ~crossed_connect
          => UNCHANGED <<open, delivered>>]_bus_vars

-----------------------------------------------------------------------------
(* InProcessEventBus.publish (asyncio.gather over the handlers), the command *)
(* and query buses built from the decorators' registries, ServiceRegistry.   *)

CONSTANTS Handlers, Types, None

VARIABLES
    subscribed,  \* the handlers of the event type
    event,       \* the publish() under way: "none", "gathering", "returned", "raised"
    task,        \* per handler: "none", "running", "done", "failed"
    registry,    \* _COMMAND_REGISTRY / _QUERY_REGISTRY: the types with a handler class
    made,        \* the handlers of the bus made from it: None or a set of types
    late_types,  \* history: types decorated after the bus was made
    services     \* ServiceRegistry: per name, the service or None

buses_vars == <<subscribed, event, task, registry, made, late_types, services>>

BusTypeOK ==
    /\ subscribed \subseteq Handlers /\ event \in {"none", "gathering", "returned", "raised"}
    /\ task \in [Handlers -> {"none", "running", "done", "failed"}]
    /\ registry \subseteq Types /\ made \in {None} \cup SUBSET Types /\ late_types \subseteq Types
    /\ services \in [Types -> {None} \cup Handlers]

BusInit ==
    /\ subscribed = {} /\ event = "none" /\ task = [h \in Handlers |-> "none"]
    /\ registry = {} /\ made = None /\ late_types = {}
    /\ services = [t \in Types |-> None]

events == <<subscribed, event, task>>
commands == <<registry, made, late_types>>

subscribe(h) ==
    /\ event = "none" /\ subscribed' = subscribed \cup {h}
    /\ UNCHANGED <<event, task, commands, services>>

(* One task per handler; without one publish() returns at once. *)
publish_in_process ==
    /\ event = "none"
    /\ event' = IF subscribed = {} THEN "returned" ELSE "gathering"
    /\ task' = [h \in Handlers |-> IF h \in subscribed THEN "running" ELSE "none"]
    /\ UNCHANGED <<subscribed, commands, services>>

Running == {h \in Handlers : task[h] = "running"}

(* Plausible slips in the definitions below, used to test the properties. *)
handle_cancelling(h) ==
    /\ task[h] = "running"
    /\ \/ task' = [task EXCEPT ![h] = "done"]
             /\ event' = IF event = "gathering" /\ Running = {h} THEN "returned" ELSE event
       \/ task' = [k \in Handlers |-> IF task[k] = "running" THEN "failed" ELSE task[k]] /\ event' = "returned"
    /\ UNCHANGED <<subscribed, commands, services>>
handle_while_gathering(h) ==
    /\ task[h] = "running" /\ event = "gathering"
    /\ \/ task' = [task EXCEPT ![h] = "done"] /\ event' = IF Running = {h} THEN "returned" ELSE event
       \/ task' = [task EXCEPT ![h] = "failed"] /\ event' = "raised"
    /\ UNCHANGED <<subscribed, commands, services>>
make_bus_empty == made = None /\ made' = {} /\ UNCHANGED <<events, registry, late_types, services>>

(* gather raises the first exception at once; the other handlers run on,  *)
(* unobserved.                                                            *)
handle(h) ==
    /\ task[h] = "running"
    /\ \/ task' = [task EXCEPT ![h] = "done"]
             /\ event' = IF event = "gathering" /\ Running = {h} THEN "returned" ELSE event
       \/ task' = [task EXCEPT ![h] = "failed"] /\ event' = "raised"
    /\ UNCHANGED <<subscribed, commands, services>>

(* @command_handler / @query_handler, when their module is imported. *)
decorate(t) ==
    /\ registry' = registry \cup {t}
    /\ late_types' = IF made # None /\ t \notin registry THEN late_types \cup {t} ELSE late_types
    /\ UNCHANGED <<events, made, services>>
make_bus == made = None /\ made' = registry /\ UNCHANGED <<events, registry, late_types, services>>
clear_registries == registry # {} /\ registry' = {} /\ UNCHANGED <<events, made, late_types, services>>

(* A type without a handler raises KeyError. *)
dispatches(t) == made # None /\ t \in made

(* Another service under the same name raises ValueError. *)
register(t, s) ==
    /\ services[t] \in {None, s}
    /\ services' = [services EXCEPT ![t] = s]
    /\ UNCHANGED <<events, commands>>

BusNext ==
    \/ publish_in_process \/ make_bus \/ clear_registries
    \/ \E h \in Handlers : subscribe(h) \/ handle(h) \/ \E t \in Types : register(t, h)
    \/ \E t \in Types : decorate(t)

-----------------------------------------------------------------------------
(* publish() returns only when every handler has handled the event, and    *)
(* raises only when one of them failed.                                    *)
ReturnedMeansHandled ==
    /\ event = "returned" => \A h \in subscribed : task[h] = "done"
    /\ event = "raised" => \E h \in subscribed : task[h] = "failed"

(* A handler that fails does not stop the others, though nobody waits for  *)
(* them any more.                                                          *)
StragglersFinish == \A h \in Handlers : task[h] = "running" ~> task[h] \in {"done", "failed"}

(* A bus made from the registry knows every type decorated before it was   *)
(* made; one decorated later (an import too late) stays unknown to it.     *)
BusKnowsItsTypes == made # None => \A t \in registry \ late_types : dispatches(t)

-----------------------------------------------------------------------------
TypeOK == LinkTypeOK /\ BusTypeOK
=============================================================================
