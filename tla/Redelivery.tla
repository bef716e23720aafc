----------------------------- MODULE Redelivery -----------------------------
(* Trying again: webhook deliveries, and the replay of dead letters.        *)
EXTENDS Naturals, Sequences, SequencesExt, FiniteSets

(* WebhookDispatcher.dispatch, application/webhooks/dispatcher.py: each     *)
(* matching endpoint in turn, up to max_retries POSTs each, one delivery     *)
(* record per endpoint.                                                      *)

CONSTANTS Endpoints, max_retries

VARIABLES
    endpoint,   \* the store: per endpoint "on", "off" (not enabled) or "gone"
    targets,    \* what find_by_event returned, in order
    delivery,   \* the record of the endpoint being served
    records,    \* delivery_log: the finished ones, [ok, attempts]
    received    \* per endpoint: the POSTs that reached it

webhook_vars == <<endpoint, targets, delivery, records, received>>

New == [attempts |-> 0, last_error |-> "none"]
Target == targets[Len(records) + 1]

WebhookTypeOK ==
    /\ endpoint \in [Endpoints -> {"on", "off", "gone"}]
    /\ targets \in Seq(Endpoints) /\ Len(records) <= Len(targets)
    /\ delivery \in [attempts : 0..max_retries, last_error : {"none", "HTTP", "exception"}]
    /\ records \in Seq([ok : BOOLEAN, attempts : 1..max_retries])
    /\ received \in [Endpoints -> 0..max_retries]

matches(e) == endpoint[e] = "on"

(* dispatch has asked the store for the endpoints of the event. *)
WebhookInit ==
    /\ endpoint \in [Endpoints -> {"on", "off"}]
    /\ targets = SetToSeq({e \in Endpoints : matches(e)})
    /\ delivery = New /\ records = <<>> /\ received = [e \in Endpoints |-> 0]

(* Somebody saves or deletes an endpoint while the dispatch runs. *)
save(e) ==
    /\ \E s \in {"on", "off", "gone"} \ {endpoint[e]} : endpoint' = [endpoint EXCEPT ![e] = s]
    /\ UNCHANGED <<targets, delivery, records, received>>

(* Plausible slips in the definitions below, used to test the properties. *)
Outcome_of_raise(d) ==
    IF d.last_error = "exception"
    THEN delivery' = d /\ UNCHANGED records
    ELSE IF d.last_error = "none" \/ d.attempts = max_retries
    THEN records' = Append(records, [ok |-> d.last_error = "none", attempts |-> d.attempts]) /\ delivery' = New
    ELSE delivery' = d /\ UNCHANGED records
raised_silently(d) == [d EXCEPT !.attempts = @ + 1, !.last_error = "none"]

(* After an attempt: retry at once, or append the record and go on. *)
Outcome(d) ==
    IF d.last_error = "none" \/ d.attempts = max_retries
    THEN records' = Append(records, [ok |-> d.last_error = "none", attempts |-> d.attempts]) /\ delivery' = New
    ELSE delivery' = d /\ UNCHANGED records

(* Any status outside retry_on, 4xx included, ends the delivery. *)
answered(d) == {[attempts |-> d.attempts + 1, last_error |-> x] : x \in {"none", "HTTP"}}

(* A timeout or a connection error. *)
raised(d) == [d EXCEPT !.attempts = @ + 1, !.last_error = "exception"]

(* One POST of _deliver; one that raises may or may not have arrived. *)
post ==
    /\ Len(records) < Len(targets) /\ delivery.attempts < max_retries
    /\ \E arrived \in BOOLEAN :
          /\ received' = IF arrived THEN [received EXCEPT ![Target] = @ + 1] ELSE received
          /\ \/ arrived /\ \E d \in answered(delivery) : Outcome(d)
             \/ Outcome(raised(delivery))
    /\ UNCHANGED <<endpoint, targets>>

WebhookNext == post \/ \E e \in Endpoints : save(e)

-----------------------------------------------------------------------------
(* A record without an error means that the endpoint has the event.  It    *)
(* may have it up to `attempts` times, since a POST that timed out is      *)
(* repeated; an endpoint given up on was tried max_retries times.          *)
RecordsTruthful ==
    \A i \in DOMAIN records :
        /\ records[i].ok => received[targets[i]] > 0
        /\ received[targets[i]] <= records[i].attempts
        /\ ~records[i].ok => records[i].attempts = max_retries

(* Every endpoint found gets its record, whatever happens to the others    *)
(* and to the store meanwhile.                                             *)
DispatchEnds == <>(Len(records) = Len(targets))

-----------------------------------------------------------------------------
(* DeadLetterReplayScheduler, resilience/dead_letter_scheduler.py, over the *)
(* DeadLetterStore of kernel/messaging/dead_letter.py (a port: the store     *)
(* keeps the entries oldest first and counts the failed replays).            *)

CONSTANTS
    max_replays, batch_size,
    MaxEntries, MaxLoops      \* bounds: entries pushed, loops ever started

VARIABLES
    scheduler,  \* _running, _task (0 for None), the number of loops started,
                \* and as history whether a start() fell into a stop()
    loop,       \* per loop: "new", "list", "replay", "sleep" or "ended",
                \* whether cancelled, and the entries of its batch still to do
    stopping,   \* the loop that each stop() under way awaits
    entries     \* the store: [retry_count, replayed] by age

dead_letter_vars == <<scheduler, loop, stopping, entries>>

Loops == 1..MaxLoops
Alive(l) == loop[l].at \notin {"new", "ended"}

ReplayTypeOK ==
    /\ scheduler \in [running : BOOLEAN, task : 0..MaxLoops, started : 0..MaxLoops,
                      overlapped : BOOLEAN]
    /\ loop \in [Loops -> [at : {"new", "list", "replay", "sleep", "ended"},
                           cancelled : BOOLEAN, batch : Seq(1..MaxEntries)]]
    /\ stopping \subseteq Loops
    /\ entries \in Seq([retry_count : 0..max_retries, replayed : BOOLEAN])

ReplayInit ==
    /\ scheduler = [running |-> FALSE, task |-> 0, started |-> 0, overlapped |-> FALSE]
    /\ loop = [l \in Loops |-> [at |-> "new", cancelled |-> FALSE, batch |-> <<>>]]
    /\ stopping = {}
    /\ entries = <<>>

push ==
    /\ Len(entries) < MaxEntries
    /\ entries' = Append(entries, [retry_count |-> 0, replayed |-> FALSE])
    /\ UNCHANGED <<scheduler, loop, stopping>>

(* Plausible slips in the definitions below, used to test the properties. *)
start_unguarded ==
    /\ scheduler.started < MaxLoops
    /\ LET l == scheduler.started + 1
       IN  /\ scheduler' = [running |-> TRUE, task |-> l, started |-> l,
                            overlapped |-> scheduler.overlapped \/ stopping # {}]
           /\ loop' = [loop EXCEPT ![l].at = "list"]
    /\ UNCHANGED <<stopping, entries>>
replay_ends_loop(l) ==
    /\ loop[l].at = "replay" /\ loop[l].batch # <<>>
    /\ entries[Head(loop[l].batch)].retry_count < max_replays
    /\ entries' = [entries EXCEPT ![Head(loop[l].batch)].retry_count = @ + 1]
    /\ loop' = [loop EXCEPT ![l].at = "ended"]
    /\ UNCHANGED <<scheduler, stopping>>

start ==
    /\ ~scheduler.running /\ scheduler.started < MaxLoops
    /\ LET l == scheduler.started + 1
       IN  /\ scheduler' = [running |-> TRUE, task |-> l, started |-> l,
                            overlapped |-> scheduler.overlapped \/ stopping # {}]
           /\ loop' = [loop EXCEPT ![l].at = "list"]
    /\ UNCHANGED <<stopping, entries>>

(* stop() up to its await of the cancelled task, and its end. *)
stop ==
    /\ scheduler.running \/ scheduler.task # 0
    /\ scheduler' = [scheduler EXCEPT !.running = FALSE]
    /\ IF scheduler.task = 0 THEN UNCHANGED <<loop, stopping>>
       ELSE /\ loop' = [loop EXCEPT ![scheduler.task].cancelled = TRUE]
            /\ stopping' = stopping \cup {scheduler.task}
    /\ UNCHANGED entries

stopped(l) ==
    /\ l \in stopping /\ loop[l].at = "ended"
    /\ stopping' = stopping \ {l}
    /\ scheduler' = [scheduler EXCEPT !.task = 0]
    /\ UNCHANGED <<loop, entries>>

Due(e) == ~e.replayed /\ e.retry_count < max_replays

(* The loop reads a batch, and leaves out what is replayed or given up. *)
list(l) ==
    /\ loop[l].at = "list"
    /\ LET oldest == SelectSeq([i \in 1..Len(entries) |-> i], LAMBDA i : i <= batch_size)
       IN  loop' = [loop EXCEPT ![l].at = "replay",
                                ![l].batch = SelectSeq(oldest, LAMBDA i : Due(entries[i]))]
    /\ UNCHANGED <<scheduler, stopping, entries>>

(* After its back-off, the next entry is replayed, or the replay raises. *)
replay(l) ==
    /\ loop[l].at = "replay" /\ loop[l].batch # <<>>
    /\ \/ entries' = [entries EXCEPT ![Head(loop[l].batch)].replayed = TRUE]
       \/ entries' = [entries EXCEPT ![Head(loop[l].batch)].retry_count =
                                        IF @ < max_replays THEN @ + 1 ELSE @]
    /\ loop' = [loop EXCEPT ![l].batch = Tail(@)]
    /\ UNCHANGED <<scheduler, stopping>>

(* The batch is done; or listing raised, which the loop logs. *)
batch_done(l) ==
    /\ loop[l].at = "list" \/ (loop[l].at = "replay" /\ loop[l].batch = <<>>)
    /\ loop' = [loop EXCEPT ![l].at = "sleep"]
    /\ UNCHANGED <<scheduler, stopping, entries>>

wake(l) ==
    /\ loop[l].at = "sleep"
    /\ loop' = [loop EXCEPT ![l].at = IF scheduler.running THEN "list" ELSE "ended"]
    /\ UNCHANGED <<scheduler, stopping, entries>>

(* CancelledError arrives at any of the loop's awaits. *)
cancelled(l) ==
    /\ Alive(l) /\ loop[l].cancelled
    /\ loop' = [loop EXCEPT ![l].at = "ended"]
    /\ UNCHANGED <<scheduler, stopping, entries>>

LoopStep(l) == list(l) \/ replay(l) \/ batch_done(l) \/ wake(l) \/ cancelled(l)
ReplayNext == push \/ start \/ stop \/ \E l \in Loops : LoopStep(l) \/ stopped(l)

-----------------------------------------------------------------------------
(* At most one loop replays entries, and when stop() has returned none     *)
(* does; unless a start() came while a stop() awaited the old loop: that   *)
(* stop() then forgets the new loop, and a later one cannot cancel it.     *)
OneLoopUnlessOverlapped ==
    scheduler.overlapped \/
        /\ Cardinality({l \in Loops : Alive(l)}) <= 1
        /\ ~scheduler.running /\ stopping = {} => \A l \in Loops : ~Alive(l)

(* A loop that nobody stops deals with every entry the batch can hold: it  *)
(* is replayed or given up after max_retries, and none blocks the others.  *)
(* (An entry behind batch_size older ones that stay listed is never read.) *)
BatchIsWorkedOff ==
    \A i \in 1..batch_size :
        i \in DOMAIN entries ~> (i \in DOMAIN entries /\ ~Due(entries[i])) \/ ~scheduler.running

-----------------------------------------------------------------------------
TypeOK == WebhookTypeOK /\ ReplayTypeOK
=============================================================================
