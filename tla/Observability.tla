--------------------------- MODULE Observability ----------------------------
(* What operators are told: health reports, service levels and metrics.     *)
EXTENDS Naturals, Sequences, FiniteSets, SequencesExt

(* HealthRegistry.run_all over the built-in and adapter checks, and the      *)
(* loop of PrometheusHealthExporter that publishes what they say.            *)

CONSTANTS
    Kinds,      \* of checks; a kind is also its check's name ("kafka", "database", ...)
    Clients,    \* the kinds that open a client of their own (Kafka, NATS)
    MaxRounds

VARIABLES
    checks,     \* registry._checks: kinds, a kind may be registered twice; never changes
    turn,       \* the check run_all() is at; 0 between two rounds
    probe,      \* of that check: "before", "probing", "closing"
    verdict,    \* what the probe found, until it is closed
    results,    \* report.results: per name, "none", "healthy", "unhealthy"
    gauge,      \* per name: what is exported
    clients,    \* the check that has a client open, 0 for none
    found,      \* history: per check, what it found in the current round
    rounds

health_vars == <<checks, turn, probe, verdict, results, gauge, clients, found, rounds>>

Answers == {"none", "healthy", "unhealthy"}

HealthTypeOK ==
    /\ checks \in Seq(Kinds) /\ turn \in 0..Len(checks) /\ probe \in {"before", "probing", "closing"}
    /\ verdict \in Answers /\ results \in [Kinds -> Answers] /\ gauge \in [Kinds -> Answers]
    /\ clients \in 0..Len(checks) /\ found \in [1..Len(checks) -> Answers] /\ rounds \in 0..MaxRounds

HealthInit ==
    /\ checks \in UNION {[1..l -> Kinds] : l \in 1..3}
    /\ turn = 0 /\ probe = "before" /\ verdict = "none" /\ clients = 0 /\ rounds = 0
    /\ results = [k \in Kinds |-> "none"] /\ gauge = [k \in Kinds |-> "none"]
    /\ found = [i \in 1..Len(checks) |-> "none"]

(* collect(), one round: the checks run one after the other. *)
collect ==
    /\ turn = 0 /\ rounds < MaxRounds /\ rounds' = rounds + 1 /\ turn' = 1
    /\ results' = [k \in Kinds |-> "none"] /\ found' = [i \in 1..Len(checks) |-> "none"]
    /\ UNCHANGED <<checks, probe, verdict, gauge, clients>>

(* KafkaHealthCheck and NatsHealthCheck create a client first; if NATS     *)
(* cannot connect there is none to close.                                  *)
check_client ==
    /\ turn > 0 /\ probe = "before" /\ checks[turn] \in Clients
    /\ \/ clients' = turn /\ probe' = "probing" /\ UNCHANGED verdict
       \/ clients' = 0 /\ probe' = "closing" /\ verdict' = "unhealthy"
    /\ UNCHANGED <<checks, turn, results, gauge, found, rounds>>

(* The others go straight to the database, Redis, an HTTP endpoint, the    *)
(* RabbitMQ or Elasticsearch API, or a function.                           *)
check_plain ==
    /\ turn > 0 /\ probe = "before" /\ checks[turn] \notin Clients /\ probe' = "probing"
    /\ UNCHANGED <<checks, turn, verdict, results, gauge, clients, found, rounds>>

(* Plausible slips in the definitions below, used to test the properties. *)
answer_of_clients ==
    /\ probe = "probing" /\ clients # 0 /\ probe' = "closing"
    /\ \E v \in {"healthy", "unhealthy"} : verdict' = v
    /\ UNCHANGED <<checks, turn, results, gauge, clients, found, rounds>>
Closed_if_healthy == IF verdict = "healthy" THEN 0 ELSE clients
Filed_healthy == IF verdict = "healthy" THEN [results EXCEPT ![checks[turn]] = verdict] ELSE results
Exported_first == [k \in Kinds |-> IF gauge[k] = "none" THEN results'[k] ELSE gauge[k]]

(* An answer, or an exception: caught by the check or by run_all. *)
answer ==
    /\ probe = "probing" /\ probe' = "closing"
    /\ \E v \in {"healthy", "unhealthy"} : verdict' = v
    /\ UNCHANGED <<checks, turn, results, gauge, clients, found, rounds>>

(* The finally of the check closes the client. *)
Closed == 0

(* report.results[check.name] = status: the last of a name is kept. *)
Filed == [results EXCEPT ![checks[turn]] = verdict]

(* Every name of the report is exported. *)
Exported == [k \in Kinds |-> IF results'[k] = "none" THEN gauge[k] ELSE results'[k]]

(* The check returns; after the last one the gauges are set. *)
file ==
    /\ probe = "closing" /\ probe' = "before"
    /\ clients' = Closed /\ results' = Filed /\ found' = [found EXCEPT ![turn] = verdict]
    /\ verdict' = "none"
    /\ IF turn < Len(checks) THEN turn' = turn + 1 /\ UNCHANGED gauge
       ELSE turn' = 0 /\ gauge' = Exported
    /\ UNCHANGED <<checks, rounds>>

HealthNext == collect \/ check_client \/ check_plain \/ answer \/ file

overall == \A k \in Kinds : results[k] # "unhealthy"
Twins(k) == Cardinality({i \in DOMAIN checks : checks[i] = k}) > 1
Finished == turn = 0 /\ rounds > 0
-----------------------------------------------------------------------------
(* A report is healthy overall only if every check found its dependency    *)
(* healthy, except where a later check of the same name (two databases,    *)
(* two clusters) has overwritten the answer of an earlier one.             *)
HealthyMeansAllHealthy ==
    Finished /\ overall =>
        \A i \in DOMAIN checks : found[i] = "healthy" \/ \E j \in DOMAIN checks : j > i /\ checks[j] = checks[i]

(* After a round the gauge of every check shows what it found last. *)
GaugesCurrent ==
    Finished => \A i \in DOMAIN checks : gauge[checks[i]] = found[i] \/ Twins(checks[i])

(* No client of a check outlives it. *)
NoClientLeft == clients # 0 => clients = turn /\ probe # "before"

(* A round that has begun ends, whatever the dependencies answer. *)
RoundEnds == turn # 0 ~> turn = 0

-----------------------------------------------------------------------------
(* InMemorySLOTracker, ErrorBudget and BurnRateAlert; and the instruments   *)
(* of PrometheusMetrics the counts go to.  The target is                    *)
(* 1 - allowed_of/per.                                                      *)

CONSTANTS
    allowed_of, per,    \* the share of requests that may fail
    threshold,          \* burn rate from which on an alert is raised
    LabelNames,         \* names of labels, as numbers: their order is the sort order
    MaxRequests, MaxSamples

VARIABLES
    totals, errors,     \* of one metric
    alerts,             \* events of the tracker, each with the counts at that time
    instrument,         \* label names the counter was created with; {} before
    series,             \* samples: label values by position, as recorded
    given               \* history: the labels that the samples were recorded with

slo_vars == <<totals, errors, alerts, instrument, series, given>>

Labels == UNION {[names -> {"a", "b"}] : names \in SUBSET LabelNames}

LevelTypeOK ==
    /\ totals \in 0..MaxRequests /\ errors \in 0..totals /\ alerts \in Seq((0..MaxRequests) \X (0..MaxRequests))
    /\ instrument \subseteq LabelNames /\ series \in Seq(Seq({"a", "b"})) /\ given \in Seq(Labels)

LevelInit == totals = 0 /\ errors = 0 /\ alerts = <<>> /\ instrument = {} /\ series = <<>> /\ given = <<>>

record_request(success) ==
    /\ totals < MaxRequests /\ totals' = totals + 1
    /\ errors' = IF success THEN errors ELSE errors + 1
    /\ UNCHANGED <<alerts, instrument, series, given>>

(* Plausible slips in the definitions below, used to test the properties. *)
is_exhausted_strictly == errors * per > totals * allowed_of
Burning_without_requests(x) == errors * per >= x * allowed_of * totals
LabelValues_by_value(labels) == SetToSortSeq({labels[k] : k \in DOMAIN labels}, LAMBDA x, y : x = "a" /\ y = "b")

(* ErrorBudget, in whole numbers: error_count >= total * (1 - target). *)
is_exhausted == errors * per >= totals * allowed_of

(* burn_rate() >= x, which is 0 without requests. *)
Burning(x) == totals > 0 /\ errors * per >= x * allowed_of * totals

(* BurnRateAlert.check: every call that finds it burning raises an alert. *)
check ==
    /\ Burning(threshold) /\ Len(alerts) < 2
    /\ alerts' = Append(alerts, <<errors, totals>>)
    /\ UNCHANGED <<totals, errors, instrument, series, given>>

(* PrometheusMetrics.counter/gauge/histogram: the first call fixes the     *)
(* label names, later ones return the instrument as it is.                 *)
create(names) ==
    /\ instrument = {} /\ names # {} /\ instrument' = names
    /\ UNCHANGED <<totals, errors, alerts, series, given>>

(* add, record, set: the values are passed by position, in the order of    *)
(* the names given; another number of them raises ValueError.              *)
LabelValues(labels) == LET names == SetToSortSeq(DOMAIN labels, <) IN [i \in DOMAIN names |-> labels[names[i]]]
sample(labels) ==
    /\ instrument # {} /\ Len(series) < MaxSamples
    /\ Cardinality(DOMAIN labels) = Cardinality(instrument)
    /\ series' = Append(series, LabelValues(labels)) /\ given' = Append(given, labels)
    /\ UNCHANGED <<totals, errors, alerts, instrument>>

LevelNext ==
    \/ \E success \in BOOLEAN : record_request(success)
    \/ check \/ \E names \in SUBSET LabelNames : create(names)
    \/ \E labels \in Labels : sample(labels)

-----------------------------------------------------------------------------
(* The budget is exhausted exactly when it burns at rate 1 or faster, once *)
(* there was a request; before that it counts as exhausted though nothing  *)
(* failed.                                                                 *)
ExhaustedWhenBurnt == is_exhausted <=> (Burning(1) \/ totals = 0)

(* An alert was raised on counts that deserved it, and with a threshold    *)
(* above 1 only on a budget that was exhausted.                            *)
AlertsDeserved ==
    \A i \in DOMAIN alerts : alerts[i][2] > 0 /\ alerts[i][1] * per >= alerts[i][2] * allowed_of

(* A sample is exported under the labels it was given, if they carry the   *)
(* names the instrument was created with; other names of the same number   *)
(* are taken for them without an error.                                    *)
LabelledAsGiven ==
    \A i \in DOMAIN series : DOMAIN given[i] = instrument =>
        LET names == SetToSortSeq(instrument, <) IN
        \A k \in DOMAIN names : k \in DOMAIN series[i] /\ series[i][k] = given[i][names[k]]

-----------------------------------------------------------------------------
TypeOK == HealthTypeOK /\ LevelTypeOK
=============================================================================
