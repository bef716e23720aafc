--------------------------- MODULE MCConcurrency ----------------------------
(* Calls, connections and records that share one event loop, one part at a  *)
(* time: `part` is the one that runs. No symmetry: the order of the waiters *)
(* leaves little to gain from it, and the run checks liveness.              *)
EXTENDS QueueLimiter, WebSocketHub, Servers

VARIABLES part, logged, counter, queue, drainer, stopping, written, sampled, dropped,
          audit_store, stamped, pending, records, session_log, rolled_back, checks, turn,
          probe, verdict, results, gauge, clients, found, rounds, totals, errors, alerts,
          instrument, series, given

(* One client comes back under its id. *)
ClientConns == {<<"u", 1>>, <<"u", 2>>, <<"v", 1>>}

Writing == INSTANCE Journals WITH MaxRecords <- 5, rate <- 2, maxsize <- 2, Principals <- {"ann", "bob"},
             MaxEvents <- 3, limit <- 2
Observing == INSTANCE Observability WITH Kinds <- {"kafka", "database"}, Clients <- {"kafka"}, MaxRounds <- 2,
             allowed_of <- 1, per <- 3, threshold <- 2, LabelNames <- {1, 2, 3},
             MaxRequests <- 4, MaxSamples <- 1

MCvars == <<part, vars, asgi_vars, grpc_vars, hub_vars, logged, counter, queue, drainer, stopping, written, sampled,
            dropped, audit_store, stamped, pending, records, session_log, rolled_back,
            checks, turn, probe, verdict, results, gauge, clients, found, rounds, totals,
            errors, alerts, instrument, series, given>>

MCInit ==
    /\ part \in {"queue_limiter", "asgi", "grpc", "hub", "logs", "audit", "health", "slo"}
    /\ part # "asgi" => stack = <<"headers">> /\ server = "task" /\ require = TRUE
    /\ part # "grpc" => wrappers = <<>> /\ method = "public"
    /\ part # "audit" => audit_store = "sql"
    /\ part # "health" => checks = <<"kafka">>
    /\ Init
    /\ AsgiInit /\ GrpcInit /\ HubInit /\ Writing!LogInit
    /\ Writing!AuditInit /\ Observing!HealthInit /\ Observing!LevelInit

MCNext ==
    /\ UNCHANGED part
    /\ IF part = "queue_limiter" THEN Next ELSE UNCHANGED vars
    /\ IF part = "asgi" THEN AsgiNext ELSE UNCHANGED asgi_vars
    /\ IF part = "grpc" THEN GrpcNext ELSE UNCHANGED grpc_vars
    /\ IF part = "hub" THEN HubNext ELSE UNCHANGED hub_vars
    /\ IF part = "logs" THEN Writing!LogNext
       ELSE UNCHANGED <<logged, counter, queue, drainer, stopping, written, sampled,
                        dropped>>
    /\ IF part = "audit" THEN Writing!AuditNext
       ELSE UNCHANGED <<audit_store, stamped, pending, records, session_log, rolled_back>>
    /\ IF part = "health" THEN Observing!HealthNext
       ELSE UNCHANGED <<checks, turn, probe, verdict, results, gauge, clients, found,
                        rounds>>
    /\ IF part = "slo" THEN Observing!LevelNext
       ELSE UNCHANGED <<totals, errors, alerts, instrument, series, given>>

(* A task that can run is run, an awaited send or probe ends.               *)
MCFairness ==
    /\ \A t \in Tasks : WF_vars(part = "queue_limiter" /\ aenter_resumed(t)) /\ WF_vars(part = "queue_limiter" /\ aexit(t))
    /\ \A r \in Requests : WF_asgi_vars(part = "asgi" /\ RequestStep(r))
    /\ \A c \in Conns : WF_hub_vars(part = "hub" /\ send(c))
    /\ WF_<<logged, counter, queue, drainer, stopping, written, sampled, dropped>>(part = "logs" /\ Writing!drain)
    /\ WF_<<checks, turn, probe, verdict, results, gauge, clients, found, rounds>>(part = "health" /\ Observing!HealthNext)

MCSpec == MCInit /\ [][MCNext]_MCvars /\ MCFairness

-----------------------------------------------------------------------------
(* The properties below join those of the parts, whose modules state their  *)
(* exceptions.                                                              *)

(* The state of every part has its type. *)
TypesOK ==
    /\ TypeOK /\ HubTypeOK /\ Writing!TypeOK /\ Observing!TypeOK

(* A log record is written, in order, or known to be dropped; an audit      *)
(* event is stored, or its session was rolled back; and a query returns the *)
(* oldest first.                                                            *)
NothingUnaccounted ==
    /\ TypesOK /\ Writing!RecordsAccountedFor /\ Writing!WrittenInOrder /\ Writing!SampledOften
    /\ Writing!EventsAccountedFor /\ Writing!OldestFirst

(* What operators are told is so: of health, with no client of a check left *)
(* open, of the error budget, and of the labels of a sample.                *)
ReportsTruthful ==
    /\ Observing!HealthyMeansAllHealthy /\ Observing!GaugesCurrent
    /\ Observing!NoClientLeft /\ Observing!ExhaustedWhenBurnt /\ Observing!AlertsDeserved
    /\ Observing!LabelledAsGiven

(* Waiting ends, and in the order it began at the bulkhead: tasks are let   *)
(* in, requests answered, broadcasts and rounds of checks completed, and    *)
(* the queue of the log drained.                                            *)
WaitingEnds ==
    /\ NoOvertaking /\ WaitersServed /\ RequestsAnswered /\ BroadcastEnds
    /\ Writing!QueueDrains /\ Observing!RoundEnds
=============================================================================
