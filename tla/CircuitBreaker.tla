--------------------------- MODULE CircuitBreaker ---------------------------
(***************************************************************************)
(* The in-process circuit breaker, resilience/circuit_breaker/breaker.py.  *)
(*                                                                         *)
(* No await happens inside an `async with self._lock` block, so the lock   *)
(* is never found taken: each block, together with the code that runs up   *)
(* to the next await, is one action.  The await of func() separates the    *)
(* admission of a call from the recording of its outcome; in between any   *)
(* number of other calls may move the breaker to another state.            *)
(***************************************************************************)
EXTENDS Integers

CONSTANTS
    Calls,             \* the calls that can be in flight at the same time
    failure_threshold,
    success_threshold,
    timeout_seconds,   \* in ticks of the monotonic clock
    None

ASSUME PolicyAssumption ==
    /\ failure_threshold \in Nat \ {0}
    /\ success_threshold \in Nat \ {0}
    /\ timeout_seconds \in Nat
    /\ None \notin Int

VARIABLES
    state,          \* _state
    failure_count,  \* _failure_count
    success_count,  \* _success_count
    open_age,       \* time.monotonic() - _opened_at, None as _opened_at is.
                    \* Only compared with timeout_seconds, so it stops there.
    running,        \* the calls whose func() is being awaited
    streak          \* history: failures recorded since the last recorded
                    \* success, counted up to failure_threshold

vars == <<state, failure_count, success_count, open_age, running, streak>>

CircuitBreakerState == {"CLOSED", "OPEN", "HALF_OPEN"}

TypeOK ==
    /\ state \in CircuitBreakerState
    /\ failure_count \in Nat
    /\ success_count \in 0..success_threshold
    /\ open_age \in 0..timeout_seconds \cup {None}
    /\ running \subseteq Calls
    /\ streak \in 0..failure_threshold

Init ==
    /\ state = "CLOSED"
    /\ failure_count = 0
    /\ success_count = 0
    /\ open_age = None
    /\ running = {}
    /\ streak = 0

-----------------------------------------------------------------------------
(* Plausible slips in the definitions below, used to test the properties.  *)

maybe_transition_half_open_ignoring_timeout ==
    IF state = "OPEN" /\ open_age # None
    THEN state' = "HALF_OPEN" /\ success_count' = 0
    ELSE UNCHANGED <<state, success_count>>

on_success_keeping_failures ==
    \/ /\ state = "HALF_OPEN"
       /\ success_count' = success_count + 1
       /\ IF success_count' >= success_threshold
          THEN state' = "CLOSED"
          ELSE UNCHANGED state
       /\ UNCHANGED <<failure_count, open_age>>
    \/ /\ state = "CLOSED"
       /\ failure_count' = 0
       /\ UNCHANGED <<state, success_count, open_age>>
    \/ /\ state = "OPEN"
       /\ UNCHANGED <<state, failure_count, success_count, open_age>>

on_success_closing_late ==
    \/ /\ state = "HALF_OPEN"
       /\ success_count' = success_count + 1
       /\ IF success_count' > success_threshold
          THEN state' = "CLOSED" /\ failure_count' = 0
          ELSE UNCHANGED <<state, failure_count>>
       /\ UNCHANGED open_age
    \/ /\ state # "HALF_OPEN"
       /\ failure_count' = IF state = "CLOSED" THEN 0 ELSE failure_count
       /\ UNCHANGED <<state, success_count, open_age>>

on_failure_without_timestamp ==
    IF failure_count + 1 >= failure_threshold
    THEN /\ state' = "OPEN"
         /\ failure_count' = 0
         /\ UNCHANGED <<success_count, open_age>>
    ELSE /\ failure_count' = failure_count + 1
         /\ UNCHANGED <<state, success_count, open_age>>

-----------------------------------------------------------------------------
maybe_transition_half_open ==
    IF /\ state = "OPEN"
       /\ open_age # None
       /\ open_age >= timeout_seconds
    THEN state' = "HALF_OPEN" /\ success_count' = 0
    ELSE UNCHANGED <<state, success_count>>

on_success ==
    \/ /\ state = "HALF_OPEN"
       /\ success_count' = success_count + 1
       /\ IF success_count' >= success_threshold
          THEN state' = "CLOSED" /\ failure_count' = 0
          ELSE UNCHANGED <<state, failure_count>>
       /\ UNCHANGED open_age
    \/ /\ state = "CLOSED"
       /\ failure_count' = 0
       /\ UNCHANGED <<state, success_count, open_age>>
    \/ /\ state = "OPEN"
       /\ UNCHANGED <<state, failure_count, success_count, open_age>>

on_failure ==
    IF failure_count + 1 >= failure_threshold
    THEN /\ state' = "OPEN"
         /\ open_age' = 0
         /\ failure_count' = 0
         /\ UNCHANGED success_count
    ELSE /\ failure_count' = failure_count + 1
         /\ UNCHANGED <<state, success_count, open_age>>

(* call() up to the await of func(); CircuitOpenError leaves no trace. *)
call(c) ==
    /\ c \notin running
    /\ maybe_transition_half_open
    /\ running' = IF state' = "OPEN" THEN running ELSE running \cup {c}
    /\ UNCHANGED <<failure_count, open_age, streak>>

(* func() returned. *)
call_succeeded(c) ==
    /\ c \in running
    /\ on_success
    /\ running' = running \ {c}
    /\ streak' = 0

(* func() raised an exception that counts. *)
call_failed(c) ==
    /\ c \in running
    /\ on_failure
    /\ running' = running \ {c}
    /\ streak' = IF streak < failure_threshold THEN streak + 1 ELSE streak

(* func() raised an excluded exception, or the caller's task was cancelled *)
(* (CancelledError is no Exception): nothing is recorded.                  *)
call_unrecorded(c) ==
    /\ c \in running
    /\ running' = running \ {c}
    /\ UNCHANGED <<state, failure_count, success_count, open_age, streak>>

(* time.monotonic() advances. *)
Tick ==
    /\ open_age # None
    /\ open_age < timeout_seconds
    /\ open_age' = open_age + 1
    /\ UNCHANGED <<state, failure_count, success_count, running, streak>>

Next ==
    \/ \E c \in Calls : \/ call(c)
                        \/ call_succeeded(c)
                        \/ call_failed(c)
                        \/ call_unrecorded(c)
    \/ Tick

Spec == Init /\ [][Next]_vars

(* Time passes, callers keep calling, and every awaited func() ends. *)
Fairness ==
    /\ WF_vars(Tick)
    /\ WF_vars(\E c \in Calls : call(c))
    /\ \A c \in Calls :
          WF_vars(call_succeeded(c) \/ call_failed(c) \/ call_unrecorded(c))

FairSpec == Spec /\ Fairness

-----------------------------------------------------------------------------
(* The counters never reach their thresholds in a state the lock lets      *)
(* anybody see, whatever calls of earlier states report late: _on_failure  *)
(* trips, and _on_success closes, in the very step that meets the          *)
(* threshold, and an open breaker always has the time it was opened at,    *)
(* without which _maybe_transition_half_open would leave it open for good. *)
CountersBelowThresholds ==
    /\ failure_count < failure_threshold
    /\ state = "HALF_OPEN" => success_count < success_threshold
    /\ state # "CLOSED" => open_age # None

(* A closed breaker opens only on failure_threshold failures in a row:     *)
(* failures left over from the open or half-open period, reported by calls *)
(* admitted before, never add up with those of the new closed period.      *)
TripsOnlyOnConsecutiveFailures ==
    [][state = "CLOSED" /\ state' = "OPEN" => streak' = failure_threshold]_vars

(* An open breaker is left only for HALF_OPEN and only once the timeout    *)
(* has passed since the last trip, even when calls admitted earlier        *)
(* succeed, and a trip reported late restarts the clock.                   *)
OpenLastsForTheTimeout ==
    [][state = "OPEN" /\ state' # "OPEN" =>
          state' = "HALF_OPEN" /\ open_age >= timeout_seconds]_vars

(* The breaker opens for a streak of failures and for nothing else, then   *)
(* stays open for its timeout, and counts no further than its thresholds.  *)
OpensRightly ==
    TripsOnlyOnConsecutiveFailures /\ OpenLastsForTheTimeout /\ [](TypeOK /\ CountersBelowThresholds)

(* If from some point on every func() that ends returns normally, the      *)
(* breaker closes in the end and stays closed.                             *)
Recovers ==
    <>[][\A c \in Calls : ~call_failed(c) /\ ~call_unrecorded(c)]_vars
        => <>[](state = "CLOSED")
=============================================================================
