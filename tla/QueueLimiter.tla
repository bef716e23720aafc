----------------------------- MODULE QueueLimiter -----------------------------
(***************************************************************************)
(* QueueLimiter of resilience/bulkhead/limiters.py, which Bulkhead wraps.  *)
(* Nobody ever waits on the _queue semaphore (__aenter__ looks at its      *)
(* value first and there is no await in between), so a counter models it.  *)
(***************************************************************************)
EXTENDS AsyncSemaphore

CONSTANTS
    max_concurrent,
    max_queue

ASSUME LimitsAssumption ==
    /\ max_concurrent \in Nat \ {0}
    /\ max_queue \in Nat

VARIABLES
    queue_value,  \* _queue._value
    pc,           \* "idle", "waiting" in __aenter__, "inside" the block
    rejected,     \* history: the last step raised BulkheadFullError
    lost          \* history: cancellations that kept a permit of _queue

vars == <<semaphore, queue_value, pc, rejected, lost>>

Inside == {t \in Tasks : pc[t] = "inside"}
Waiting == {t \in Tasks : pc[t] = "waiting"}

TypeOK ==
    /\ value \in 0..max_concurrent
    /\ waiters \in Seq(Tasks)
    /\ done \subseteq Waiting
    /\ queue_value \in 0..(max_concurrent + max_queue)
    /\ pc \in [Tasks -> {"idle", "waiting", "inside"}]
    /\ rejected \in BOOLEAN
    /\ lost \in Nat

Init ==
    /\ value = max_concurrent
    /\ waiters = <<>>
    /\ done = {}
    /\ queue_value = max_concurrent + max_queue
    /\ pc = [t \in Tasks |-> "idle"]
    /\ rejected = FALSE
    /\ lost = 0

Goto(t, p) == pc' = [pc EXCEPT ![t] = p]

-----------------------------------------------------------------------------
(* Plausible slips in the definitions below, used to test the properties.  *)

aexit_twice(t) ==
    /\ pc[t] = "inside"
    /\ WakeUpNext(value + 2, waiters, done)
    /\ queue_value' = queue_value + 1
    /\ Goto(t, "idle")
    /\ rejected' = FALSE
    /\ UNCHANGED lost

aexit_without_wake_up(t) ==
    /\ pc[t] = "inside"
    /\ value' = value + 1
    /\ UNCHANGED <<waiters, done>>
    /\ queue_value' = queue_value + 1
    /\ Goto(t, "idle")
    /\ rejected' = FALSE
    /\ UNCHANGED lost

aexit_keeping_queue_permit(t) ==
    /\ pc[t] = "inside"
    /\ release
    /\ UNCHANGED queue_value
    /\ Goto(t, "idle")
    /\ rejected' = FALSE
    /\ UNCHANGED lost

aenter_barging(t) ==
    /\ pc[t] = "idle"
    /\ queue_value > 0
    /\ queue_value' = queue_value - 1
    /\ IF Cardinality(Inside) < max_concurrent
       THEN value' = value - 1 /\ UNCHANGED <<waiters, done>> /\ Goto(t, "inside")
       ELSE acquire_wait(t) /\ Goto(t, "waiting")
    /\ rejected' = FALSE
    /\ UNCHANGED lost

-----------------------------------------------------------------------------
aenter(t) ==
    /\ pc[t] = "idle"
    /\ queue_value > 0
    /\ queue_value' = queue_value - 1
    /\ \/ acquire_now /\ Goto(t, "inside")
       \/ acquire_wait(t) /\ Goto(t, "waiting")
    /\ rejected' = FALSE
    /\ UNCHANGED lost

(* __aenter__ raises BulkheadFullError("Queue is full"). *)
aenter_full(t) ==
    /\ pc[t] = "idle"
    /\ queue_value = 0
    /\ rejected' = TRUE
    /\ UNCHANGED <<semaphore, queue_value, pc, lost>>

aenter_resumed(t) ==
    /\ pc[t] = "waiting"
    /\ acquire_resume(t)
    /\ Goto(t, "inside")
    /\ rejected' = FALSE
    /\ UNCHANGED <<queue_value, lost>>

(* CancelledError leaves __aenter__; nothing gives the _queue permit back. *)
aenter_cancelled(t) ==
    /\ pc[t] = "waiting"
    /\ acquire_cancelled(t)
    /\ Goto(t, "idle")
    /\ rejected' = FALSE
    /\ lost' = lost + 1
    /\ UNCHANGED queue_value

(* The block ends, by whatever exception or return. *)
aexit(t) ==
    /\ pc[t] = "inside"
    /\ release
    /\ queue_value' = queue_value + 1
    /\ Goto(t, "idle")
    /\ rejected' = FALSE
    /\ UNCHANGED lost

Next == \E t \in Tasks :
    aenter(t) \/ aenter_full(t) \/ aenter_resumed(t) \/ aenter_cancelled(t) \/ aexit(t)

Spec == Init /\ [][Next]_vars

(* The event loop resumes every woken task, and every block ends. *)
FairSpec == Spec /\ \A t \in Tasks : WF_vars(aenter_resumed(t)) /\ WF_vars(aexit(t))

-----------------------------------------------------------------------------
(* The permits of _semaphore are conserved, across wake-ups that are       *)
(* cancelled before the waiter resumes: each is free, travelling to a      *)
(* woken waiter, or held by a task inside; so at most max_concurrent tasks *)
(* are inside.                                                             *)
PermitsConserved ==
    value + Cardinality(done) + Cardinality(Inside) = max_concurrent

(* No wake-up is lost: while a permit is free and a task waits, some woken *)
(* waiter is still to resume, and will pass the permit on.                 *)
NoLostWakeUp ==
    value > 0 /\ Waiting # {} => done # {}

(* A permit of _queue is free, or held by a task that waits or is inside,  *)
(* or was lost with a task cancelled in __aenter__: nothing else makes the *)
(* bulkhead refuse, and it never takes more tasks than it has permits.     *)
QueuePermitsAccounted ==
    queue_value + Cardinality(Waiting) + Cardinality(Inside) + lost
        = max_concurrent + max_queue

(* Tasks get in in the order they queued up: a task never goes in while    *)
(* one that queued before it still waits to be woken.                      *)
NoOvertaking ==
    [][\A t, u \in Tasks :
          /\ t \notin Inside /\ t \in Inside'
          /\ u # t /\ u \in Waiting /\ u \in Waiting'
          /\ u \notin done
          => \E i, j \in DOMAIN waiters : i < j /\ waiters[i] = t /\ waiters[j] = u]_vars

(* Every permit of the bulkhead is free, on its way to a woken waiter or    *)
(* with a running task, whatever is cancelled or times out, and no free     *)
(* permit is left while a task waits.                                       *)
PermitsAccounted == PermitsConserved /\ QueuePermitsAccounted /\ NoLostWakeUp

(* Every task that waits is let in, or is cancelled. *)
WaitersServed == \A t \in Tasks : pc[t] = "waiting" ~> pc[t] # "waiting"

(* BulkheadFullError is "raised when the bulkhead is at capacity": only    *)
(* while max_concurrent + max_queue tasks are waiting or inside.           *)
FullOnlyAtCapacity ==
    rejected => Cardinality(Waiting) + Cardinality(Inside) = max_concurrent + max_queue
=============================================================================
