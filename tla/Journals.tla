------------------------------ MODULE Journals ------------------------------
(* What is written down: log records and audit events.                      *)
EXTENDS Naturals, Sequences, SequencesExt, FiniteSets

(* SampledLogger in front of AsyncLogHandler: records go through a bounded  *)
(* queue to a background task that hands them to the delegate handler.      *)

CONSTANTS
    MaxRecords,  \* how many records are logged
    rate,        \* one of how many is emitted
    maxsize      \* of the queue

VARIABLES
    logged,    \* records logged so far: 1..logged
    counter,   \* SampledLogger._counters
    queue,     \* AsyncLogHandler._queue: records, 0 is the sentinel
    drainer,   \* the task: "none", "waiting", "failed", "ended"
    stopping,  \* stop(): "no", "joining", "closing", "stopped"
    written,   \* what the delegate has emitted
    sampled,   \* history: the records that passed the sampling
    dropped    \* history: the records a full queue refused

log_vars == <<logged, counter, queue, drainer, stopping, written, sampled, dropped>>

LogTypeOK ==
    /\ logged \in 0..MaxRecords /\ counter \in Nat /\ Len(queue) <= maxsize
    /\ queue \in Seq(0..MaxRecords) /\ drainer \in {"none", "waiting", "failed", "ended"}
    /\ stopping \in {"no", "joining", "closing", "stopped"} /\ written \in Seq(1..MaxRecords)
    /\ sampled \subseteq 1..MaxRecords /\ dropped \subseteq sampled

LogInit ==
    /\ logged = 0 /\ counter = 0 /\ queue = <<>> /\ drainer = "none" /\ stopping = "no"
    /\ written = <<>> /\ sampled = {} /\ dropped = {}

(* Plausible slips in the definitions below, used to test the properties. *)
Emits_last(k) == k % rate = 0
Put_oldest(r) == IF Len(queue) < maxsize THEN Append(queue, r) ELSE Append(Tail(queue), r)
Put_unbounded(r) == Append(queue, r)
Put_front(r) == IF Len(queue) < maxsize THEN <<r>> \o queue ELSE queue
drain_full ==
    /\ drainer = "waiting" /\ Len(queue) = maxsize /\ queue' = Tail(queue)
    /\ written' = Append(written, Head(queue))
    /\ UNCHANGED <<logged, counter, drainer, stopping, sampled, dropped>>

(* SampledLogger._should_emit: the first of every `rate` calls. *)
Emits(k) == rate <= 1 \/ k % rate = 1

(* put_nowait; a full queue drops the record. *)
Put(r) == IF Len(queue) < maxsize THEN Append(queue, r) ELSE queue

log ==
    /\ logged < MaxRecords
    /\ logged' = logged + 1 /\ counter' = counter + 1
    /\ IF Emits(counter + 1)
       THEN /\ queue' = Put(logged + 1)
            /\ sampled' = sampled \cup {logged + 1}
            /\ dropped' = IF logged + 1 \in ToSet(Put(logged + 1)) THEN dropped ELSE dropped \cup {logged + 1}
       ELSE UNCHANGED <<queue, sampled, dropped>>
    /\ UNCHANGED <<drainer, stopping, written>>

(* bind() returns a logger with counters of its own, at zero. *)
bind == counter # 0 /\ counter' = 0 /\ UNCHANGED <<logged, queue, drainer, stopping, written, sampled, dropped>>

start ==
    /\ drainer = "none" /\ stopping = "no" /\ drainer' = "waiting"
    /\ UNCHANGED <<logged, counter, queue, stopping, written, sampled, dropped>>

(* _drain: one record; an exception of the delegate ends the task, and the *)
(* sentinel does.                                                          *)
drain ==
    /\ drainer = "waiting" /\ queue # <<>> /\ queue' = Tail(queue)
    /\ IF Head(queue) = 0 THEN drainer' = "ended" /\ UNCHANGED written
       ELSE \/ written' = Append(written, Head(queue)) /\ UNCHANGED drainer
            \/ drainer' = "failed" /\ UNCHANGED written
    /\ UNCHANGED <<logged, counter, stopping, sampled, dropped>>

(* drain_sync, with no task. *)
drain_sync ==
    /\ drainer = "none" /\ queue # <<>>
    /\ queue' = <<>> /\ written' = written \o SelectSeq(queue, LAMBDA r : r # 0)
    /\ UNCHANGED <<logged, counter, drainer, stopping, sampled, dropped>>

(* stop(): join the queue for up to `timeout`, put the sentinel, cancel. *)
stop ==
    /\ stopping = "no" /\ stopping' = "joining"
    /\ UNCHANGED <<logged, counter, queue, drainer, written, sampled, dropped>>
joined ==
    /\ stopping = "joining" /\ queue = <<>> /\ stopping' = "closing" /\ queue' = <<0>>
    /\ UNCHANGED <<logged, counter, drainer, written, sampled, dropped>>
join_timeout ==
    /\ stopping = "joining" /\ queue # <<>> /\ stopping' = "closing" /\ queue' = Put(0)
    /\ UNCHANGED <<logged, counter, drainer, written, sampled, dropped>>
cancel ==
    /\ stopping = "closing" /\ stopping' = "stopped"
    /\ drainer' = IF drainer = "waiting" THEN "ended" ELSE drainer
    /\ UNCHANGED <<logged, counter, queue, written, sampled, dropped>>

Drainer == start \/ drain
LogNext == log \/ bind \/ Drainer \/ drain_sync \/ stop \/ joined \/ join_timeout \/ cancel

Failed == IF drainer = "failed" THEN 1 ELSE 0
-----------------------------------------------------------------------------
(* A record that passed the sampling is written, still queued, or was      *)
(* refused by a full queue: only the one the delegate failed on is gone.   *)
(* (After stop(), and after a failure, "queued" is for ever.)              *)
RecordsAccountedFor ==
    Cardinality(sampled \ (ToSet(written) \cup ToSet(queue) \cup dropped)) = Failed

(* Records are written in the order they were logged, and none twice. *)
WrittenInOrder == \A i, j \in DOMAIN written : i < j => written[i] < written[j]

(* Of any `rate` consecutive records at least one is emitted, however often *)
(* a logger is bound anew in between.                                      *)
SampledOften ==
    \A k \in 1..MaxRecords : k + rate - 1 <= logged => sampled \cap (k..(k + rate - 1)) # {}

(* A drain task that runs empties the queue, until its delegate fails or   *)
(* the handler is stopped.                                                 *)
QueueDrains == drainer = "waiting" ~> (queue = <<>> \/ drainer \in {"failed", "ended"})

-----------------------------------------------------------------------------
(* AuditStore: InMemoryAuditStore, and SQLAlchemyAuditStore, which writes    *)
(* through the session of its caller.  Events are stamped when they are      *)
(* created and recorded later, so that they may arrive out of order.         *)

CONSTANTS
    Principals, MaxEvents,
    limit   \* of a query

VARIABLES
    audit_store,  \* "memory" or "sql"; never changes
    stamped,      \* events created: at time i, <<principal, outcome>>
    pending,      \* those not recorded yet
    records,      \* the store: event times in the order they were recorded
    session_log,  \* the rows of the open session (SQL)
    rolled_back   \* history: rows whose session was rolled back

audit_vars == <<audit_store, stamped, pending, records, session_log, rolled_back>>

Outcomes == {"allow", "deny"}
Times == 1..MaxEvents

AuditTypeOK ==
    /\ audit_store \in {"memory", "sql"} /\ stamped \in Seq(Principals \X Outcomes)
    /\ pending \subseteq Times /\ records \in Seq(Times) /\ session_log \in Seq(Times)
    /\ rolled_back \subseteq Times

AuditInit ==
    /\ audit_store \in {"memory", "sql"}
    /\ stamped = <<>> /\ pending = {} /\ records = <<>> /\ session_log = <<>> /\ rolled_back = {}

(* AuditEvent(...): occurred_at is now. *)
create(p, o) ==
    /\ Len(stamped) < MaxEvents
    /\ stamped' = Append(stamped, <<p, o>>) /\ pending' = pending \cup {Len(stamped) + 1}
    /\ UNCHANGED <<audit_store, records, session_log, rolled_back>>

(* Plausible slips in the definitions below, used to test the properties. *)
record_memory_twice(e) ==
    /\ audit_store = "memory" /\ e \in pending /\ records' = Append(records, e)
    /\ UNCHANGED <<audit_store, stamped, pending, session_log, rolled_back>>

record_memory(e) ==
    /\ audit_store = "memory" /\ e \in pending
    /\ pending' = pending \ {e} /\ records' = Append(records, e)
    /\ UNCHANGED <<audit_store, stamped, session_log, rolled_back>>

(* An INSERT in the caller's session, kept or lost with it. *)
record_sql(e) ==
    /\ audit_store = "sql" /\ e \in pending
    /\ pending' = pending \ {e} /\ session_log' = Append(session_log, e)
    /\ UNCHANGED <<audit_store, stamped, records, rolled_back>>
commit ==
    /\ session_log # <<>> /\ records' = records \o session_log /\ session_log' = <<>>
    /\ UNCHANGED <<audit_store, stamped, pending, rolled_back>>
rollback ==
    /\ session_log # <<>> /\ rolled_back' = rolled_back \cup ToSet(session_log) /\ session_log' = <<>>
    /\ UNCHANGED <<audit_store, stamped, pending, records>>

Queries == [principal : Principals \cup {"any"}, outcome : Outcomes \cup {"any"}]   \* "any" is None
Rows == records \o session_log   \* what a session sees
Matches(e, q) ==
    /\ q.principal \in {"any", stamped[e][1]} /\ q.outcome \in {"any", stamped[e][2]}
First(s) == SubSeq(s, 1, IF Len(s) < limit THEN Len(s) ELSE limit)

(* Plausible slips in the definitions below, used to test the properties. *)
Selected_before_sorting(q) == SetToSortSeq(ToSet(First(SelectSeq(Rows, LAMBDA e : Matches(e, q)))), <)

(* query(): all filters, oldest first, then the limit. *)
Selected(q) == First(SetToSortSeq({e \in ToSet(Rows) : Matches(e, q)}, <))

AuditNext ==
    \/ \E p \in Principals, o \in Outcomes : create(p, o)
    \/ \E e \in Times : record_memory(e) \/ record_sql(e)
    \/ commit \/ rollback

-----------------------------------------------------------------------------
(* Every event that was created is recorded once, still on its way, or     *)
(* went with a session that was rolled back (the "deny" of a failed        *)
(* command, if the store shares the command's session).                    *)
EventsAccountedFor ==
    \A e \in 1..Len(stamped) :
        Cardinality({i \in DOMAIN Rows : Rows[i] = e})
            + (IF e \in pending THEN 1 ELSE 0) + (IF e \in rolled_back THEN 1 ELSE 0) = 1

(* A page holds the oldest events that match, in the order they occurred:  *)
(* none that matches and is older than one on a full page is left out,     *)
(* although events are recorded out of order.                              *)
OldestFirst ==
    \A q \in Queries : LET page == Selected(q) IN
        /\ \A i, j \in DOMAIN page : i < j => page[i] < page[j]
        /\ \A e \in ToSet(Rows) \ ToSet(page) : Matches(e, q) => Len(page) = limit /\ e > page[limit]

-----------------------------------------------------------------------------
TypeOK == LogTypeOK /\ AuditTypeOK
=============================================================================
