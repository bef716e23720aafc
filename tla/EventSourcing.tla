----------------------------- MODULE EventSourcing -----------------------------
(***************************************************************************)
(* EventSourcedRepository (application/event_sourcing/repository.py) over  *)
(* one stream of an event store, with several writers that each hold an    *)
(* aggregate of their own.  backend is the store they use:                 *)
(*   "memory"  InMemoryEventStore, whose append has no await inside;       *)
(*   "sql"     SQLAlchemyEventStore, in a session that commits at the end; *)
(*   "mongo"   MongoEventStore, whose documents are inserted one by one.   *)
(***************************************************************************)
EXTENDS Integers, Sequences, FiniteSets, Functions

CONSTANTS
    Writers,
    MaxEvents,  \* bound: events one writer raises
    MaxBatch,   \* bound: events in one save
    None

ASSUME EventSourcingAssumption ==
    /\ {MaxEvents, MaxBatch} \subseteq Nat \ {0}
    /\ None \notin {"saved", "conflict", "integrity_error"}

VARIABLES
    backend,
    stream,    \* the stored events: a function from versions
    session,   \* sql: the rows each writer has inserted and not committed
    pc,        \* where each writer is: "new" has no aggregate
    version,   \* AggregateRoot._version
    pending,   \* AggregateRoot._events
    view,      \* history: the events that make up the aggregate's state
    raised,    \* how many events each writer has raised
    batch,     \* the events of the writer's last save() ...
    expected,  \* ... its expected_version ...
    outcome,   \* ... and how it ended
    unsynced   \* history: writers that went on after a failed save without load()

agg == <<version, pending, view, raised>>
call == <<batch, expected, outcome>>
vars == <<backend, stream, session, pc, agg, call, unsynced>>

Events == Writers \X (1..MaxEvents)

Versions == 0..(MaxEvents * Cardinality(Writers))

Stored(f) == {f[v] : v \in DOMAIN f}

TypeOK ==
    /\ backend \in {"memory", "sql", "mongo"}
    /\ DOMAIN stream \subseteq Versions \ {0}
    /\ Stored(stream) \subseteq Events
    /\ \A w \in Writers : Stored(session[w]) \subseteq Events
    /\ pc \in [Writers -> {"new", "ready", "append", "insert", "commit"}]
    /\ version \in [Writers -> Versions]
    /\ \A w \in Writers : {pending[w], batch[w]} \subseteq Seq(Events)
    /\ view \in [Writers -> SUBSET Events]
    /\ raised \in [Writers -> 0..MaxEvents]
    /\ expected \in [Writers -> Versions]
    /\ outcome \in [Writers -> {None, "saved", "conflict", "integrity_error"}]
    /\ unsynced \subseteq Writers

Init ==
    /\ backend \in {"memory", "sql", "mongo"}
    /\ stream = <<>>
    /\ session = [w \in Writers |-> <<>>]
    /\ pc = [w \in Writers |-> "new"]
    /\ version = [w \in Writers |-> 0]
    /\ pending = [w \in Writers |-> <<>>]
    /\ view = [w \in Writers |-> {}]
    /\ raised = [w \in Writers |-> 0]
    /\ batch = [w \in Writers |-> <<>>]
    /\ expected = [w \in Writers |-> 0]
    /\ outcome = [w \in Writers |-> None]
    /\ unsynced = {}

Goto(w, p) == pc' = [pc EXCEPT ![w] = p]

(* save() ends; the caller keeps its aggregate. *)
Return(w, o) ==
    /\ Goto(w, "ready")
    /\ outcome' = [outcome EXCEPT ![w] = o]
    /\ UNCHANGED <<batch, expected>>

(* The rows that follow version v: event i of s gets version v + i. *)
Extend(f, v, s) ==
    [u \in DOMAIN f \cup {v + i : i \in DOMAIN s} |->
        IF u \in DOMAIN f THEN f[u] ELSE s[u - v]]

Count == Cardinality(DOMAIN stream)

(* The caller uses its aggregate, although its last save failed. *)
GoOn(w) ==
    unsynced' = IF outcome[w] \in {"conflict", "integrity_error"}
                THEN unsynced \cup {w} ELSE unsynced

-----------------------------------------------------------------------------
(* Plausible slips in the definitions below, used to test the properties.  *)

append_misnumbered(w) ==
    /\ pc[w] = "append"
    /\ IF Count # expected[w]
       THEN Return(w, "conflict") /\ UNCHANGED stream
       ELSE stream' = Extend(stream, version[w], batch[w]) /\ Return(w, "saved")
    /\ UNCHANGED <<backend, session, agg, unsynced>>

append_swallowing_conflict(w) ==
    /\ pc[w] = "append"
    /\ Return(w, "saved")
    /\ stream' = IF Count = expected[w] THEN Extend(stream, expected[w], batch[w]) ELSE stream
    /\ UNCHANGED <<backend, session, agg, unsynced>>

save_off_by_one(w) ==
    /\ pc[w] = "ready"
    /\ pending[w] # <<>>
    /\ pending' = [pending EXCEPT ![w] = <<>>]
    /\ batch' = [batch EXCEPT ![w] = pending[w]]
    /\ expected' = [expected EXCEPT ![w] = version[w] - Len(pending[w]) - 1]
    /\ outcome' = [outcome EXCEPT ![w] = None]
    /\ Goto(w, "append")
    /\ GoOn(w)
    /\ UNCHANGED <<backend, stream, session, version, view, raised>>

append_at_end(w) ==
    /\ pc[w] = "append"
    /\ stream' = Extend(stream, Count, batch[w])
    /\ Return(w, "saved")
    /\ UNCHANGED <<backend, session, agg, unsynced>>

insert_row_autocommitted(w) ==
    LET k == expected[w] + Cardinality({v \in DOMAIN stream : stream[v] \in Range(batch[w])}) + 1
    IN  /\ backend = "sql"
        /\ pc[w] = "insert"
        /\ IF k \in DOMAIN stream
           THEN Return(w, "integrity_error") /\ UNCHANGED stream
           ELSE /\ stream' = Extend(stream, k - 1, <<batch[w][k - expected[w]]>>)
                /\ IF k = expected[w] + Len(batch[w])
                   THEN Return(w, "saved")
                   ELSE UNCHANGED <<pc, call>>
        /\ UNCHANGED <<backend, session, agg, unsynced>>

-----------------------------------------------------------------------------
(* load(), or _create_empty() when the stream is empty: a fresh aggregate. *)
load(w) ==
    /\ pc[w] \in {"new", "ready"}
    /\ version' = [version EXCEPT ![w] = Count]
    /\ pending' = [pending EXCEPT ![w] = <<>>]
    /\ view' = [view EXCEPT ![w] = Stored(stream)]
    /\ outcome' = [outcome EXCEPT ![w] = None]
    /\ Goto(w, "ready")
    /\ unsynced' = unsynced \ {w}
    /\ UNCHANGED <<backend, stream, session, raised, batch, expected>>

raise_event(w) ==
    /\ pc[w] = "ready"
    /\ raised[w] < MaxEvents
    /\ Len(pending[w]) < MaxBatch
    /\ raised' = [raised EXCEPT ![w] = @ + 1]
    /\ LET e == <<w, raised[w] + 1>>
       IN  /\ pending' = [pending EXCEPT ![w] = Append(@, e)]
           /\ view' = [view EXCEPT ![w] = @ \cup {e}]
    /\ version' = [version EXCEPT ![w] = @ + 1]
    /\ GoOn(w)
    /\ UNCHANGED <<backend, stream, session, pc, call>>

(* save() up to its await: the events are pulled before they are stored. *)
save(w) ==
    /\ pc[w] = "ready"
    /\ pending[w] # <<>>
    /\ pending' = [pending EXCEPT ![w] = <<>>]
    /\ batch' = [batch EXCEPT ![w] = pending[w]]
    /\ expected' = [expected EXCEPT ![w] = version[w] - Len(pending[w])]
    /\ outcome' = [outcome EXCEPT ![w] = None]
    /\ Goto(w, "append")
    /\ GoOn(w)
    /\ UNCHANGED <<backend, stream, session, version, view, raised>>

(* save() of an aggregate without pending events returns at once. *)
save_nothing(w) ==
    /\ pc[w] = "ready"
    /\ pending[w] = <<>>
    /\ Return(w, "saved")
    /\ GoOn(w)
    /\ UNCHANGED <<backend, stream, session, agg>>

(* append() up to its first write: the number of events is compared with   *)
(* the expected version.  The in-memory store goes on without an await.    *)
append(w) ==
    /\ pc[w] = "append"
    /\ IF Count # expected[w]
       THEN Return(w, "conflict") /\ UNCHANGED stream
       ELSE IF backend = "memory"
       THEN stream' = Extend(stream, expected[w], batch[w]) /\ Return(w, "saved")
       ELSE Goto(w, "insert") /\ UNCHANGED <<stream, call>>
    /\ UNCHANGED <<backend, session, agg, unsynced>>

(* The row or document that comes next. *)
NextRow(w, done) == expected[w] + Cardinality(done) + 1

(* sql: INSERT one row in the session.  On the key of an uncommitted row   *)
(* it waits; on the key of a committed one it raises IntegrityError, and   *)
(* the session rolls back.                                                 *)
insert_row(w) ==
    LET k == NextRow(w, DOMAIN session[w])
    IN  /\ backend = "sql"
        /\ pc[w] = "insert"
        /\ \A o \in Writers \ {w} : k \notin DOMAIN session[o]
        /\ IF k \in DOMAIN stream
           THEN /\ session' = [session EXCEPT ![w] = <<>>]
                /\ Return(w, "integrity_error")
           ELSE /\ session' = [session EXCEPT ![w] =
                      Extend(@, k - 1, <<batch[w][k - expected[w]]>>)]
                /\ Goto(w, IF k = expected[w] + Len(batch[w]) THEN "commit" ELSE "insert")
                /\ UNCHANGED call
        /\ UNCHANGED <<backend, stream, agg, unsynced>>

commit(w) ==
    /\ pc[w] = "commit"
    /\ stream' = Extend(stream, expected[w], batch[w])
    /\ session' = [session EXCEPT ![w] = <<>>]
    /\ Return(w, "saved")
    /\ UNCHANGED <<backend, agg, unsynced>>

(* mongo: the next document of insert_many(ordered=True).  A duplicate key *)
(* ends it, and append() raises OptimisticConcurrencyError.                *)
insert_document(w) ==
    LET mine == {v \in DOMAIN stream : stream[v] \in Range(batch[w])}
        k == NextRow(w, mine)
    IN  /\ backend = "mongo"
        /\ pc[w] = "insert"
        /\ IF k \in DOMAIN stream
           THEN Return(w, "conflict") /\ UNCHANGED stream
           ELSE /\ stream' = Extend(stream, k - 1, <<batch[w][k - expected[w]]>>)
                /\ IF k = expected[w] + Len(batch[w])
                   THEN Return(w, "saved")
                   ELSE UNCHANGED <<pc, call>>
        /\ UNCHANGED <<backend, session, agg, unsynced>>

(* The process dies, with its aggregate and its session. *)
crash(w) ==
    /\ pc[w] # "new"
    /\ Goto(w, "new")
    /\ session' = [session EXCEPT ![w] = <<>>]
    /\ version' = [version EXCEPT ![w] = 0]
    /\ pending' = [pending EXCEPT ![w] = <<>>]
    /\ view' = [view EXCEPT ![w] = {}]
    /\ batch' = [batch EXCEPT ![w] = <<>>]
    /\ expected' = [expected EXCEPT ![w] = 0]
    /\ outcome' = [outcome EXCEPT ![w] = None]
    /\ unsynced' = unsynced \ {w}
    /\ UNCHANGED <<backend, stream, raised>>

Next == \E w \in Writers :
    \/ load(w) \/ raise_event(w) \/ save(w) \/ save_nothing(w) \/ append(w)
    \/ insert_row(w) \/ commit(w) \/ insert_document(w) \/ crash(w)

Spec == Init /\ [][Next]_vars

-----------------------------------------------------------------------------
(* The versions of a stream have no gap, so that counting its events, as   *)
(* every append() does, gives its last version.                            *)
GapFree == DOMAIN stream = 1..Count

(* The point of optimistic concurrency control: events are only stored on  *)
(* top of the history their aggregate was built from.  When the k-th event *)
(* of a save is stored, the aggregate's state is exactly the stored events *)
(* below it and the rest of that save.  Callers must reload the aggregate  *)
(* after a failed save.                                                    *)
NoStaleAppend ==
    [][\A v \in DOMAIN stream' \ DOMAIN stream :
          LET w == stream'[v][1]
              k == v - expected[w]
          IN  w \notin unsynced =>
                 {stream'[u] : u \in 1..(v - 1)} \cup {batch[w][j] : j \in k..Len(batch[w])}
                    = view[w]]_vars

(* A save() that returned means that every event of the aggregate is       *)
(* stored, if the caller reloads the aggregate after a failed save.        *)
SavedMeansStored ==
    \A w \in Writers \ unsynced :
        outcome[w] = "saved" /\ pending[w] = <<>> => view[w] \subseteq Stored(stream)

(* A save that failed has stored nothing, so the caller may "re-apply the  *)
(* command" (the documents of MongoDB are stored one by one).              *)
FailureStoresNothing ==
    backend # "mongo" =>
        \A w \in Writers : outcome[w] \in {"conflict", "integrity_error"} =>
            Range(batch[w]) \cap Stored(stream) = {}

(* Versions have no gaps, a save that returned is in the log as a whole,    *)
(* one that raised is not in it at all, and events are only stored on top   *)
(* of the history their aggregate was built from.                           *)
StoredAsSaved == []GapFree /\ []SavedMeansStored /\ []FailureStoresNothing /\ NoStaleAppend

(* The in-memory and the SQL store implement an append-only log with       *)
(* atomic appends.                                                         *)
Atomic == backend # "mongo"

Log == INSTANCE EventLog WITH
    log <- IF Atomic THEN [v \in 1..Count |-> stream[v]] ELSE <<>>,
    proposed <- IF Atomic THEN batch ELSE [w \in Writers |-> <<>>]

ImplementsEventLog == Log!Spec
=============================================================================
