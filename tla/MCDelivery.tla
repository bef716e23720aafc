----------------------------- MODULE MCDelivery -----------------------------
(* Requests and messages on their way through the middlewares, the in-      *)
(* process buses and the broker adapters, one part at a time: `part` is the *)
(* one that runs. No symmetry: the run checks liveness.                     *)
EXTENDS Idempotency, BrokerConsumers, Pipeline

CONSTANTS Publishers, Handlers

VARIABLES part, bus, link, open, opened, publisher, delivered, crossed_connect, subscribed, event,
          task, registry, made, late_types, services

Bussing == INSTANCE Buses WITH MaxConnections <- 4, Types <- {"CreateOrder", "GetOrder"}

MCvars == <<part, vars, pipeline_vars, uow_vars, consumer_vars, bus, link, open, opened, publisher,
            delivered, crossed_connect, subscribed, event, task, registry, made, late_types, services>>

MCInit ==
    /\ part \in {"idempotency", "pipeline", "uow", "consumers", "connections", "buses"}
    /\ part # "pipeline" => chain = <<"uow">>
    /\ part # "uow" => kind = "mongo"
    /\ part # "consumers" => transport = "kafka"
    /\ part # "connections" => bus = "kafka"
    /\ Init
    /\ ChainInit /\ UowInit /\ ConsumerInit /\ Bussing!LinkInit
    /\ Bussing!BusInit

MCNext ==
    /\ UNCHANGED part
    /\ IF part = "idempotency" THEN Next ELSE UNCHANGED vars
    /\ IF part = "pipeline" THEN ChainNext ELSE UNCHANGED pipeline_vars
    /\ IF part = "uow" THEN UowNext ELSE UNCHANGED uow_vars
    /\ IF part = "consumers" THEN ConsumerNext ELSE UNCHANGED consumer_vars
    /\ IF part = "connections" THEN Bussing!LinkNext
       ELSE UNCHANGED <<bus, link, open, opened, publisher, delivered, crossed_connect>>
    /\ IF part = "buses" THEN Bussing!BusNext
       ELSE UNCHANGED <<subscribed, event, task, registry, made, late_types, services>>

(* A handler or a middleware that is awaited ends, a consumer that is not   *)
(* stopped goes on.                                                         *)
MCFairness ==
    /\ WF_pipeline_vars(part = "pipeline" /\ ChainNext)
    /\ WF_consumer_vars(part = "consumers" /\ Consume)
    /\ \A h \in Handlers : WF_<<subscribed, event, task, registry, made, late_types, services>>(part = "buses" /\ Bussing!handle(h))

MCSpec == MCInit /\ [][MCNext]_MCvars /\ MCFairness

-----------------------------------------------------------------------------
(* The properties below join those of the parts, whose modules state their  *)
(* exceptions.                                                              *)

(* The state of the other parts has its type. *)
TypesOK == TypeOK /\ ConsumerTypeOK /\ Bussing!TypeOK

(* No connection is leaked unless two calls opened one at the same time,    *)
(* and a closed one is not used again; publish() returns once every handler *)
(* has run; and a bus knows every type registered before it was made.       *)
BusesKeepTheirWord ==
    /\ []TypesOK /\ []Bussing!NoneLeaked /\ []Bussing!ReturnedMeansHandled
    /\ []Bussing!BusKnowsItsTypes /\ Bussing!ClosedStaysClosed

(* A command ends, a message is processed in the end, and the handlers that *)
(* a failed publish() left behind finish.                                   *)
DeliveryEnds ==
    /\ (part = "pipeline" => CommandEnds)
    /\ (part = "consumers" => EventuallyProcessed) /\ Bussing!StragglersFinish
=============================================================================
