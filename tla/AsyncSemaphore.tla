---------------------------- MODULE AsyncSemaphore ----------------------------
(***************************************************************************)
(* asyncio.Semaphore, as the limiters of resilience/ use it (external: the *)
(* standard library of CPython 3.12).  Each operator runs without an await *)
(* inside; a waiter's wake-up and its resumption are two steps, and a      *)
(* cancellation may fall between them.                                     *)
(***************************************************************************)
EXTENDS Integers, Sequences, FiniteSets

CONSTANT Tasks

VARIABLES
    value,    \* _value
    waiters,  \* _waiters, the tasks in the order they queued up
    done      \* the waiters whose future has a result: woken, not yet resumed

semaphore == <<value, waiters, done>>

locked == value = 0 \/ waiters # <<>>

(* _waiters.remove(fut): a task is in the queue at most once. *)
Without(t) ==
    LET i == CHOOSE i \in DOMAIN waiters : waiters[i] = t
    IN  SubSeq(waiters, 1, i - 1) \o SubSeq(waiters, i + 1, Len(waiters))

(* _wake_up_next(), with v permits and waiters w of which d are done: the  *)
(* first one that is not is given a permit.                                *)
WakeUpNext(v, w, d) ==
    LET pending == {i \in DOMAIN w : w[i] \notin d}
        first == CHOOSE i \in pending : \A j \in pending : i <= j
    IN  /\ waiters' = w
        /\ value' = IF pending = {} THEN v ELSE v - 1
        /\ done' = IF pending = {} THEN d ELSE d \cup {w[first]}

(* acquire() up to its await: the permit is taken, or the task waits. *)
acquire_now ==
    /\ ~locked
    /\ value' = value - 1
    /\ UNCHANGED <<waiters, done>>

acquire_wait(t) ==
    /\ locked
    /\ waiters' = Append(waiters, t)
    /\ UNCHANGED <<value, done>>

(* acquire() after its await, when the future has a result. *)
acquire_resume(t) ==
    /\ t \in done
    /\ IF value > 0 THEN WakeUpNext(value, Without(t), done \ {t})
       ELSE /\ waiters' = Without(t)
            /\ done' = done \ {t}
            /\ UNCHANGED value

(* CancelledError at the await of acquire(), before or after the wake-up. *)
acquire_cancelled(t) ==
    IF t \in done THEN WakeUpNext(value + 1, Without(t), done \ {t})
    ELSE /\ waiters' = Without(t)
         /\ UNCHANGED <<value, done>>

release == WakeUpNext(value + 1, waiters, done)
=============================================================================
