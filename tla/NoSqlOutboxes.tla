--------------------------- MODULE NoSqlOutboxes ---------------------------
(* DynamoDBOutboxStore and CassandraOutboxStore under a dispatcher that      *)
(* fetches pending records, publishes each and marks it.  Cassandra keeps    *)
(* records in buckets of an hour and looks into two of them.                 *)
EXTENDS Naturals, Sequences, FiniteSets, FiniteSetsExt

CONSTANTS
    Records, None,
    limit,      \* of get_pending
    MaxHour     \* the clock stops there

VARIABLES
    outbox,     \* "dynamodb" or "cassandra"; never changes
    hour,       \* the clock, in hours
    created,    \* per record: the hour of created_at (its bucket), None if not saved
    mark,       \* per record: "PENDING", "DISPATCHED" or "FAILED"
    fetched,      \* what the dispatcher has fetched and not marked yet
    looked,     \* the buckets of its fetch still to be read (Cassandra)
    published,  \* those of the fetched that are published
    sent,       \* history: how often each record was published (2 is more than once)
    orphaned    \* history: records published by a dispatcher that died before the mark

outbox_vars == <<outbox, hour, created, mark, fetched, looked, published, sent, orphaned>>

Hours == 0..MaxHour
Pending == {r \in Records : created[r] # None /\ mark[r] = "PENDING"}

TypeOK ==
    /\ outbox \in {"dynamodb", "cassandra"} /\ hour \in Hours
    /\ created \in [Records -> Hours \cup {None}]
    /\ mark \in [Records -> {"PENDING", "DISPATCHED", "FAILED"}]
    /\ fetched \subseteq Records /\ looked \in Seq(Hours) /\ sent \in [Records -> 0..2]
    /\ published \subseteq fetched /\ orphaned \subseteq Records

Init ==
    /\ outbox \in {"dynamodb", "cassandra"} /\ hour = 0
    /\ created = [r \in Records |-> None] /\ mark = [r \in Records |-> "PENDING"]
    /\ fetched = {} /\ looked = <<>> /\ sent = [r \in Records |-> 0]
    /\ published = {} /\ orphaned = {}

tick == hour < MaxHour /\ hour' = hour + 1 /\ UNCHANGED <<outbox, created, mark, fetched, looked, published, sent, orphaned>>

(* save(): a put_item, or an INSERT into the bucket of created_at. *)
save(r) ==
    /\ created[r] = None /\ created' = [created EXCEPT ![r] = hour]
    /\ UNCHANGED <<outbox, hour, mark, fetched, looked, published, sent, orphaned>>

(* At most `limit` of them, which ones is up to the database. *)
Fetch(from) == kSubset(Min({limit, Cardinality(from)}), from)

(* Plausible slips in the definitions below, used to test the properties. *)
Buckets_now == <<hour>>
read_bucket_any ==
    /\ looked # <<>> /\ looked' = Tail(looked)
    /\ fetched' = fetched \cup {r \in Records : created[r] = Head(looked)}
    /\ UNCHANGED <<outbox, hour, created, mark, published, sent, orphaned>>

(* DynamoDB: one query of the status index. *)
get_pending_dynamodb ==
    /\ outbox = "dynamodb" /\ fetched = {}
    /\ fetched' \in Fetch(Pending) /\ fetched' # {}
    /\ UNCHANGED <<outbox, hour, created, mark, looked, published, sent, orphaned>>

(* Cassandra: this hour's bucket and the one before, one query each; the   *)
(* clock may go on in between.                                             *)
Buckets == IF hour = 0 THEN <<0>> ELSE <<hour, hour - 1>>
get_pending_cassandra ==
    /\ outbox = "cassandra" /\ fetched = {} /\ looked = <<>>
    /\ looked' = Buckets
    /\ UNCHANGED <<outbox, hour, created, mark, fetched, published, sent, orphaned>>
read_bucket ==
    /\ looked # <<>> /\ looked' = Tail(looked)
    /\ \E found \in Fetch({r \in Pending : created[r] = Head(looked)}) : fetched' = fetched \cup found
    /\ UNCHANGED <<outbox, hour, created, mark, published, sent, orphaned>>

publish(r) ==
    /\ r \in fetched \ published /\ looked = <<>>
    /\ published' = published \cup {r}
    /\ sent' = [sent EXCEPT ![r] = IF @ = 2 THEN 2 ELSE @ + 1]
    /\ UNCHANGED <<outbox, hour, created, mark, fetched, looked, orphaned>>
mark_dispatched(r) ==
    /\ r \in published
    /\ mark' = [mark EXCEPT ![r] = "DISPATCHED"]
    /\ fetched' = fetched \ {r} /\ published' = published \ {r}
    /\ UNCHANGED <<outbox, hour, created, looked, sent, orphaned>>

(* The publication failed: only the DynamoDB store has a mark for that,    *)
(* and it is final.                                                        *)
mark_failed(r) ==
    /\ r \in fetched \ published /\ outbox = "dynamodb"
    /\ mark' = [mark EXCEPT ![r] = "FAILED"] /\ fetched' = fetched \ {r}
    /\ UNCHANGED <<outbox, hour, created, looked, published, sent, orphaned>>

(* The dispatcher dies with what it has fetched; another one starts over.  *)
(* (A death during a fetch changes nothing that is stored.)                *)
crash ==
    /\ fetched # {} /\ looked = <<>> /\ fetched' = {} /\ published' = {}
    /\ orphaned' = orphaned \cup published
    /\ UNCHANGED <<outbox, hour, created, mark, looked, sent>>

Fetching == get_pending_dynamodb \/ get_pending_cassandra \/ read_bucket
Next ==
    \/ tick \/ Fetching \/ crash
    \/ \E r \in Records : save(r) \/ publish(r) \/ mark_dispatched(r) \/ mark_failed(r)

-----------------------------------------------------------------------------
(* A record is published again only after a dispatcher that died between   *)
(* its publication and its mark; what has its mark is not fetched again.   *)
SentAgainOnlyAfterCrash == \A r \in Records \ orphaned : sent[r] <= 1

(* Every record is dispatched or marked as failed, or is left behind in a  *)
(* bucket more than an hour old, where Cassandra's dispatcher never looks  *)
(* again (a dispatcher that dies now and then still gets there).           *)
DispatchedOrStranded ==
    \A r \in Records : created[r] # None ~>
        (mark[r] # "PENDING" \/ (outbox = "cassandra" /\ created[r] # None /\ hour > created[r] + 1))
=============================================================================
