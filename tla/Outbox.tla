-------------------------------- MODULE Outbox --------------------------------
(***************************************************************************)
(* The transactional outbox: command handlers that save a record inside a  *)
(* unit of work, the outbox table, and the dispatchers that relay pending  *)
(* records to a broker.  One module covers both repositories and both      *)
(* dispatchers, which share their control flow; a deployment picks         *)
(*   "sql"    SqlAlchemyOutboxRepository, whose writes belong to the       *)
(*            session of a SqlAlchemyUnitOfWork, or                        *)
(*   "mongo"  MongoOutboxStore, whose writes each stand alone; and         *)
(*   "redis"  RedisStreamOutboxDispatcher, which awaits XADD, or           *)
(*   "kafka"  KafkaOutboxDispatcher, whose producer awaits send(), that is *)
(*            a place in the producer's buffer.                            *)
(***************************************************************************)
EXTENDS Integers, FiniteSets, FiniteSetsExt

CONSTANTS
    Records,
    Dispatchers,
    limit,   \* of get_pending
    None

ASSUME OutboxAssumption ==
    /\ limit \in Nat \ {0}
    /\ None \notin Records \cup {"PENDING", "DISPATCHED", "FAILED"}

VARIABLES
    store,      \* the deployment: "sql" or "mongo" ...
    broker,     \* ... and "redis" or "kafka"
    status,     \* the committed status of each record, None before it exists
    tx,         \* the unit of work that writes each record
    pc,         \* where each dispatcher is in dispatch_pending
    batch,      \* the records of its get_pending it has not handled yet
    current,    \* the record it is handling
    session,    \* its uncommitted updates: a record's new status, or None
    buffer,     \* the records in the buffer of some dispatcher's producer
    delivered   \* the records that have reached the broker

deployment == <<store, broker>>
vars == <<deployment, status, tx, pc, batch, current, session, buffer, delivered>>

OutboxStatus == {"PENDING", "DISPATCHED", "FAILED"}

TypeOK ==
    /\ store \in {"sql", "mongo"}
    /\ broker \in {"redis", "kafka"}
    /\ status \in [Records -> OutboxStatus \cup {None}]
    /\ tx \in [Records -> {"none", "open", "committed", "rolled_back"}]
    /\ pc \in [Dispatchers -> {"idle", "loop", "mark_dispatched", "mark_failed"}]
    /\ batch \in [Dispatchers -> SUBSET Records]
    /\ current \in [Dispatchers -> Records \cup {None}]
    /\ \A d \in Dispatchers :
          current[d] \in IF pc[d] \in {"idle", "loop"} THEN {None} ELSE Records
    /\ session \in [Dispatchers -> [Records -> {"DISPATCHED", "FAILED", None}]]
    /\ buffer \subseteq Records
    /\ delivered \subseteq Records

NoUpdates == [r \in Records |-> None]

Init ==
    /\ store \in {"sql", "mongo"}
    /\ broker \in {"redis", "kafka"}
    /\ status = [r \in Records |-> None]
    /\ tx = [r \in Records |-> "none"]
    /\ pc = [d \in Dispatchers |-> "idle"]
    /\ batch = [d \in Dispatchers |-> {}]
    /\ current = [d \in Dispatchers |-> None]
    /\ session = [d \in Dispatchers |-> NoUpdates]
    /\ buffer = {}
    /\ delivered = {}

Pending == {r \in Records : status[r] = "PENDING"}

Deliver(r) == delivered' = delivered \cup {r}

(* The dispatcher goes back to its loop, the current record handled. *)
Continue(d) ==
    /\ pc' = [pc EXCEPT ![d] = "loop"]
    /\ current' = [current EXCEPT ![d] = None]

(* dispatch_pending is left without a commit: by an exception, or a crash. *)
Abandon(d) ==
    /\ pc' = [pc EXCEPT ![d] = "idle"]
    /\ batch' = [batch EXCEPT ![d] = {}]
    /\ current' = [current EXCEPT ![d] = None]
    /\ session' = [session EXCEPT ![d] = NoUpdates]

(* UPDATE ... SET status = s WHERE id = r; the session keeps the row       *)
(* locked until it ends, so another session's update waits.                *)
Update(d, r, s) ==
    IF store = "mongo"
    THEN status' = [status EXCEPT ![r] = s] /\ UNCHANGED session
    ELSE /\ \A e \in Dispatchers \ {d} : session[e][r] = None
         /\ session' = [session EXCEPT ![d][r] = s]
         /\ UNCHANGED status

-----------------------------------------------------------------------------
(* Plausible slips in the definitions below, used to test the properties.  *)

publish_after_marking(d) ==
    /\ pc[d] = "loop"
    /\ \E r \in batch[d] :
          /\ batch' = [batch EXCEPT ![d] = @ \ {r}]
          /\ current' = [current EXCEPT ![d] = r]
          /\ pc' = [pc EXCEPT ![d] = "mark_dispatched"]
    /\ UNCHANGED <<deployment, status, tx, session, buffer, delivered>>

get_pending_uncommitted(d) ==
    /\ pc[d] = "idle"
    /\ \E b \in SUBSET {r \in Records : status[r] = "PENDING" \/ tx[r] = "open"} :
          /\ b # {}
          /\ batch' = [batch EXCEPT ![d] = b]
    /\ pc' = [pc EXCEPT ![d] = "loop"]
    /\ UNCHANGED <<deployment, status, tx, current, session, buffer, delivered>>

commit_dispatch_skipped(d) ==
    /\ pc[d] = "loop"
    /\ batch[d] = {}
    /\ session' = [session EXCEPT ![d] = NoUpdates]
    /\ pc' = [pc EXCEPT ![d] = "idle"]
    /\ UNCHANGED <<deployment, status, tx, batch, current, buffer, delivered>>

mark_dispatched_requeueing(d) ==
    /\ pc[d] = "mark_dispatched"
    /\ Update(d, current[d], "PENDING")
    /\ Continue(d)
    /\ UNCHANGED <<deployment, tx, batch, buffer, delivered>>

-----------------------------------------------------------------------------
(* A command handler, in a unit of work: the aggregate change and save()   *)
(* of its outbox record.  session.add only stages the row.                 *)
save(r) ==
    /\ tx[r] = "none"
    /\ tx' = [tx EXCEPT ![r] = "open"]
    /\ status' = IF store = "mongo" THEN [status EXCEPT ![r] = "PENDING"] ELSE status
    /\ UNCHANGED <<deployment, pc, batch, current, session, buffer, delivered>>

(* UnitOfWork.__aexit__ without an exception. *)
commit(r) ==
    /\ tx[r] = "open"
    /\ tx' = [tx EXCEPT ![r] = "committed"]
    /\ status' = IF store = "mongo" THEN status ELSE [status EXCEPT ![r] = "PENDING"]
    /\ UNCHANGED <<deployment, pc, batch, current, session, buffer, delivered>>

(* UnitOfWork.__aexit__ with one, or a crash before the commit. *)
rollback(r) ==
    /\ tx[r] = "open"
    /\ tx' = [tx EXCEPT ![r] = "rolled_back"]
    /\ UNCHANGED <<deployment, status, pc, batch, current, session, buffer, delivered>>

(* get_pending: up to limit pending records, in no particular order. *)
get_pending(d) ==
    /\ pc[d] = "idle"
    /\ Pending # {}
    /\ \E b \in kSubset(Min({limit, Cardinality(Pending)}), Pending) :
          batch' = [batch EXCEPT ![d] = b]
    /\ pc' = [pc EXCEPT ![d] = "loop"]
    /\ UNCHANGED <<deployment, status, tx, current, session, buffer, delivered>>

(* bus.publish for the next record.  It may raise; when the broker's       *)
(* answer is awaited, the record may have arrived all the same.            *)
publish(d) ==
    /\ pc[d] = "loop"
    /\ \E r \in batch[d] :
          /\ batch' = [batch EXCEPT ![d] = @ \ {r}]
          /\ current' = [current EXCEPT ![d] = r]
          /\ \/ /\ pc' = [pc EXCEPT ![d] = "mark_dispatched"]
                /\ IF broker = "redis"
                   THEN Deliver(r) /\ UNCHANGED buffer
                   ELSE buffer' = buffer \cup {r} /\ UNCHANGED delivered
             \/ /\ pc' = [pc EXCEPT ![d] = "mark_failed"]
                /\ UNCHANGED buffer
                /\ UNCHANGED delivered \/ (broker = "redis" /\ Deliver(r))
    /\ UNCHANGED <<deployment, status, tx, session>>

mark_dispatched(d) ==
    /\ pc[d] = "mark_dispatched"
    /\ Update(d, current[d], "DISPATCHED")
    /\ Continue(d)
    /\ UNCHANGED <<deployment, tx, batch, buffer, delivered>>

(* The update raises: the except clause calls mark_failed, which in a      *)
(* broken SQL transaction raises too and ends dispatch_pending.            *)
mark_dispatched_raises(d) ==
    /\ pc[d] = "mark_dispatched"
    /\ IF store = "mongo"
       THEN pc' = [pc EXCEPT ![d] = "mark_failed"] /\ UNCHANGED <<batch, current, session>>
       ELSE Abandon(d)
    /\ UNCHANGED <<deployment, status, tx, buffer, delivered>>

mark_failed(d) ==
    /\ pc[d] = "mark_failed"
    /\ Update(d, current[d], "FAILED")
    /\ Continue(d)
    /\ UNCHANGED <<deployment, tx, batch, buffer, delivered>>

mark_failed_raises(d) ==
    /\ pc[d] = "mark_failed"
    /\ Abandon(d)
    /\ UNCHANGED <<deployment, status, tx, buffer, delivered>>

(* dispatch_pending returns and the unit of work around it commits. *)
commit_dispatch(d) ==
    /\ pc[d] = "loop"
    /\ batch[d] = {}
    /\ status' = [r \in Records |-> IF session[d][r] = None THEN status[r] ELSE session[d][r]]
    /\ session' = [session EXCEPT ![d] = NoUpdates]
    /\ pc' = [pc EXCEPT ![d] = "idle"]
    /\ UNCHANGED <<deployment, tx, batch, current, buffer, delivered>>

(* The process of the dispatcher dies; what its producer had in the buffer *)
(* is then undelivered, too.                                               *)
crash(d) ==
    /\ pc[d] # "idle"
    /\ Abandon(d)
    /\ UNCHANGED <<deployment, status, tx, buffer, delivered>>

(* The producer's background task gets a buffered record to the broker. *)
flush ==
    \E r \in buffer :
        /\ buffer' = buffer \ {r}
        /\ Deliver(r)
        /\ UNCHANGED <<deployment, status, tx, pc, batch, current, session>>

(* The background task gives up, or its process dies; nobody awaits the    *)
(* future that send() returned.                                            *)
undelivered ==
    /\ \E r \in buffer : buffer' = buffer \ {r}
    /\ UNCHANGED <<deployment, status, tx, pc, batch, current, session, delivered>>

Handle(d) ==
    \/ get_pending(d)
    \/ publish(d)
    \/ mark_dispatched(d)
    \/ mark_dispatched_raises(d)
    \/ mark_failed(d)
    \/ mark_failed_raises(d)
    \/ commit_dispatch(d)

Next ==
    \/ \E r \in Records : save(r) \/ commit(r) \/ rollback(r)
    \/ \E d \in Dispatchers : Handle(d) \/ crash(d)
    \/ flush
    \/ undelivered

Spec == Init /\ [][Next]_vars

(* Somebody keeps calling dispatch_pending, and statements are answered. *)
FairSpec ==
    /\ Spec
    /\ \A d \in Dispatchers : WF_vars(Handle(d))
    /\ WF_vars(flush)

-----------------------------------------------------------------------------
(* "Guaranteed at-least-once delivery", over a broker whose answer is      *)
(* awaited: a record that no dispatcher will ever look at again because it *)
(* is DISPATCHED has reached the broker, whatever crashes and failures     *)
(* fell between publish and mark_dispatched.                               *)
AtLeastOnce ==
    broker = "redis" =>
        \A r \in Records : status[r] = "DISPATCHED" => r \in delivered

(* No event without its cause, over a store with transactions: the broker  *)
(* only ever sees records whose unit of work committed.                    *)
NoPhantomEvents ==
    store = "sql" => \A r \in delivered : tx[r] = "committed"

(* A step that is not a crash, a failing statement or a lost message. *)
Calm ==
    /\ undelivered => flush
    /\ \A d \in Dispatchers :
          /\ crash(d) => commit_dispatch(d)
          /\ ~mark_dispatched_raises(d) /\ ~mark_failed_raises(d)

(* Once crashes and failing statements stop, every committed record is     *)
(* handled, in spite of the limit on a batch and of dispatchers that race: *)
(* it ends up DISPATCHED or FAILED, and stays so.                          *)
EveryRecordSettles ==
    <>[][Calm]_vars =>
        \A r \in Records : tx[r] = "committed" ~> [](status[r] \in {"DISPATCHED", "FAILED"})

(* A record whose publish failed is published again: "records stay PENDING *)
(* and will retry".  So if publishing works from some point on, every      *)
(* committed record is dispatched.                                         *)
FailedIsRetried ==
    <>[][Calm /\ \A d \in Dispatchers : publish(d) => pc'[d] = "mark_dispatched"]_vars
        => \A r \in Records : tx[r] = "committed" ~> status[r] = "DISPATCHED"
=============================================================================
