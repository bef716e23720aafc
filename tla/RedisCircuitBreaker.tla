------------------------- MODULE RedisCircuitBreaker -------------------------
(***************************************************************************)
(* The distributed circuit breaker,                                        *)
(* resilience/circuit_breaker/redis_breaker.py.                            *)
(*                                                                         *)
(* Redis runs each command, and each Lua script, atomically; every command *)
(* is awaited, so the commands of different calls, of one process or of    *)
(* several, interleave freely.  A command is one action, together with the *)
(* Python code that runs on its reply.                                     *)
(***************************************************************************)
EXTENDS Integers, FiniteSets

CONSTANTS
    Calls,              \* calls in progress, of any instance of the service
    failure_threshold,
    success_threshold,
    Absent

ASSUME PolicyAssumption ==
    /\ failure_threshold \in Nat \ {0}
    /\ success_threshold \in Nat \ {0}
    /\ Absent \notin {"CLOSED", "OPEN", "HALF_OPEN", "recent", "elapsed"}

VARIABLES
    state_key,       \* {prefix}:state, Absent when absent
    failures_key,    \* {prefix}:failures, 0 when absent; see Incr
    opened_at_key,   \* {prefix}:opened_at: Absent, "recent", or "elapsed" once
                     \* timeout_seconds have passed since it was written
    probe_lock_key,  \* {prefix}:probe_lock: Absent or the call that set it
                     \* (the code writes "1"; the owner is history)
    command,              \* the command each call issues next, "idle" outside call();
                     \* "func" while it awaits func(), "probe" while it does so
                     \* with the probe lock it took
    outage,          \* while TRUE, commands and their replies may be lost
    half_successes   \* history: successes recorded since the state became
                     \* HALF_OPEN, counted up to success_threshold

redis == <<state_key, failures_key, opened_at_key, probe_lock_key>>
redis_vars == <<state_key, failures_key, opened_at_key, probe_lock_key, command, outage, half_successes>>

PC == {"idle", "opened_at", "set_half_open", "probe_lock", "func", "probe",
       "on_success", "unlock", "on_failure"}

(* The counter is only compared with the two thresholds, so it may stop    *)
(* at the larger one.                                                      *)
Cap == IF failure_threshold >= success_threshold
       THEN failure_threshold ELSE success_threshold

Incr(n) == IF n < Cap THEN n + 1 ELSE n

RedisTypeOK ==
    /\ state_key \in {Absent, "CLOSED", "OPEN", "HALF_OPEN"}
    /\ failures_key \in 0..Cap
    /\ opened_at_key \in {Absent, "recent", "elapsed"}
    /\ probe_lock_key \in Calls \cup {Absent}
    /\ command \in [Calls -> PC]
    /\ outage \in BOOLEAN
    /\ half_successes \in 0..success_threshold

RedisInit ==
    /\ state_key = Absent
    /\ failures_key = 0
    /\ opened_at_key = Absent
    /\ probe_lock_key = Absent
    /\ command = [c \in Calls |-> "idle"]
    /\ outage = FALSE
    /\ half_successes = 0

Goto(c, p) == command' = [command EXCEPT ![c] = p]

(* Where an exception of the Redis client takes the call: inside the try   *)
(* block of call() to _on_failure, everywhere else out of call().          *)
OnRedisError(c) ==
    IF command[c] \in {"on_success", "unlock"} THEN "on_failure" ELSE "idle"

(* The command ran; the reply takes the call to p, or is lost. *)
Reply(c, p) == Goto(c, p) \/ (outage /\ Goto(c, OnRedisError(c)))

-----------------------------------------------------------------------------
(* Plausible slips in the definitions below, used to test the properties.  *)

reset_keeping_state ==
    /\ failures_key' = 0
    /\ opened_at_key' = Absent
    /\ probe_lock_key' = Absent
    /\ UNCHANGED <<state_key, command, outage, half_successes>>

lua_record_failure_off_by_one ==
    /\ failures_key' = Incr(failures_key)
    /\ IF failures_key + 1 > failure_threshold
       THEN state_key' = "OPEN" /\ opened_at_key' = "recent"
       ELSE UNCHANGED <<state_key, opened_at_key>>

lua_record_success_never_closing ==
    /\ IF state_key = "HALF_OPEN"
       THEN /\ failures_key' = Incr(failures_key)
            /\ half_successes' = IF half_successes < success_threshold
                                 THEN half_successes + 1 ELSE half_successes
       ELSE /\ failures_key' = IF state_key = "OPEN" THEN failures_key ELSE 0
            /\ UNCHANGED half_successes
    /\ UNCHANGED <<state_key, opened_at_key>>

lua_record_failure_misspelt ==
    /\ failures_key' = Incr(failures_key)
    /\ IF failures_key + 1 >= failure_threshold
       THEN state_key' = "open" /\ opened_at_key' = "recent"
       ELSE UNCHANGED <<state_key, opened_at_key>>

-----------------------------------------------------------------------------
lua_record_failure ==
    /\ failures_key' = Incr(failures_key)
    /\ IF failures_key + 1 >= failure_threshold
       THEN state_key' = "OPEN" /\ opened_at_key' = "recent"
       ELSE UNCHANGED <<state_key, opened_at_key>>

lua_record_success ==
    IF state_key = "HALF_OPEN"
    THEN /\ half_successes' = IF half_successes < success_threshold
                              THEN half_successes + 1 ELSE half_successes
         /\ IF failures_key + 1 >= success_threshold
            THEN /\ state_key' = "CLOSED"
                 /\ failures_key' = 0
                 /\ opened_at_key' = Absent
            ELSE /\ failures_key' = Incr(failures_key)
                 /\ UNCHANGED <<state_key, opened_at_key>>
    ELSE /\ failures_key' = IF state_key = "OPEN" THEN failures_key ELSE 0
         /\ UNCHANGED <<state_key, opened_at_key, half_successes>>

(* call(): GET state. *)
get_state(c) ==
    /\ command[c] = "idle"
    /\ Reply(c, CASE state_key = "OPEN"      -> "opened_at"
                  [] state_key = "HALF_OPEN" -> "probe_lock"
                  [] OTHER                   -> "func")
    /\ UNCHANGED <<redis, outage, half_successes>>

(* _maybe_transition_half_open(): GET opened_at.  Without a timestamp, or  *)
(* before the timeout, call() raises CircuitOpenError.                     *)
get_opened_at(c) ==
    /\ command[c] = "opened_at"
    /\ Reply(c, IF opened_at_key = "elapsed" THEN "set_half_open" ELSE "idle")
    /\ UNCHANGED <<redis, outage, half_successes>>

(* _maybe_transition_half_open(): SET state HALF_OPEN XX.  The call goes   *)
(* on as if HALF_OPEN whether or not the key existed.                      *)
set_half_open(c) ==
    /\ command[c] = "set_half_open"
    /\ Reply(c, "probe_lock")
    /\ state_key' = IF state_key = Absent THEN Absent ELSE "HALF_OPEN"
    /\ half_successes' = IF state_key = "HALF_OPEN" THEN half_successes ELSE 0
    /\ UNCHANGED <<failures_key, opened_at_key, probe_lock_key, outage>>

(* call(): SET probe_lock 1 NX PX ttl. *)
acquire_probe_lock(c) ==
    /\ command[c] = "probe_lock"
    /\ Reply(c, IF probe_lock_key = Absent THEN "probe" ELSE "idle")
    /\ probe_lock_key' = IF probe_lock_key = Absent THEN c ELSE probe_lock_key
    /\ UNCHANGED <<state_key, failures_key, opened_at_key, outage, half_successes>>

(* func() ends: it returns, raises an exception that counts, or raises an  *)
(* excluded exception or CancelledError.                                   *)
func(c) ==
    /\ command[c] \in {"func", "probe"}
    /\ Goto(c, "on_success") \/ Goto(c, "on_failure") \/ Goto(c, "idle")
    /\ UNCHANGED <<redis, outage, half_successes>>

(* _on_success(): EVAL _LUA_RECORD_SUCCESS ... *)
on_success(c) ==
    /\ command[c] = "on_success"
    /\ Reply(c, "unlock")
    /\ lua_record_success
    /\ UNCHANGED <<probe_lock_key, outage>>

(* ... then DEL probe_lock, whoever set it. *)
release_probe_lock(c) ==
    /\ command[c] = "unlock"
    /\ Reply(c, "idle")
    /\ probe_lock_key' = Absent
    /\ UNCHANGED <<state_key, failures_key, opened_at_key, outage, half_successes>>

on_failure(c) ==
    /\ command[c] = "on_failure"
    /\ Reply(c, "idle")
    /\ lua_record_failure
    /\ UNCHANGED <<probe_lock_key, outage, half_successes>>

reset ==
    /\ state_key' = Absent
    /\ failures_key' = 0
    /\ opened_at_key' = Absent
    /\ probe_lock_key' = Absent
    /\ UNCHANGED <<command, outage, half_successes>>

(* A command never reaches the server. *)
CommandLost(c) ==
    /\ outage
    /\ command[c] \notin {"idle", "func", "probe"}
    /\ Goto(c, OnRedisError(c))
    /\ UNCHANGED <<redis, outage, half_successes>>

(* timeout_seconds have passed since opened_at was written. *)
TimeoutElapses ==
    /\ opened_at_key = "recent"
    /\ opened_at_key' = "elapsed"
    /\ UNCHANGED <<state_key, failures_key, probe_lock_key, command, outage, half_successes>>

(* The TTL of the probe lock runs out; nothing ties it to func(). *)
ProbeLockExpires ==
    /\ probe_lock_key # Absent
    /\ probe_lock_key' = Absent
    /\ UNCHANGED <<state_key, failures_key, opened_at_key, command, outage, half_successes>>

(* The connection to Redis becomes unreliable, or reliable again. *)
Outage ==
    /\ outage' = ~outage
    /\ UNCHANGED <<redis, command, half_successes>>

Step(c) ==
    \/ get_state(c)
    \/ get_opened_at(c)
    \/ set_half_open(c)
    \/ acquire_probe_lock(c)
    \/ func(c)
    \/ on_success(c)
    \/ release_probe_lock(c)
    \/ on_failure(c)

RedisNext ==
    \/ \E c \in Calls : Step(c) \/ CommandLost(c)
    \/ reset
    \/ TimeoutElapses
    \/ ProbeLockExpires
    \/ Outage

RedisSpec == RedisInit /\ [][RedisNext]_redis_vars

(* Callers keep calling, every func() ends, time passes. *)
RedisFairSpec ==
    /\ RedisSpec
    /\ \A c \in Calls : WF_redis_vars(Step(c))
    /\ WF_redis_vars(TimeoutElapses)
    /\ WF_redis_vars(ProbeLockExpires)

-----------------------------------------------------------------------------
(* "The threshold is never breached by race conditions": whatever the      *)
(* interleaving, a breaker that lets every call through has fewer than     *)
(* failure_threshold failures on record (the INCR and the trip are one     *)
(* script, and so are the close and the reset of the counter).             *)
ThresholdNeverBreached ==
    state_key \in {Absent, "CLOSED"} => failures_key < failure_threshold

(* An open breaker has the timestamp without which                         *)
(* _maybe_transition_half_open() would reject calls for ever, although     *)
(* closing and reset() delete it while slow calls still act on an OPEN     *)
(* they read before.                                                       *)
OpenHasTimestamp == state_key = "OPEN" => opened_at_key # Absent

(* If from some point on Redis answers, every func() returns and nobody    *)
(* interferes, the breaker ends up closed, in spite of the probe locks and *)
(* half-made transitions that lost commands left behind.                   *)
Recovers ==
    <>[]~outage /\ <>[][~reset /\ \A c \in Calls : func(c) => command'[c] = "on_success"]_redis_vars
        => <>[](state_key \in {Absent, "CLOSED"})

(* A breaker leaves HALF_OPEN for CLOSED only after success_threshold      *)
(* successes: "if state is HALF_OPEN, count towards closing".              *)
ClosesOnSuccessThreshold ==
    [][state_key = "HALF_OPEN" /\ state_key' = "CLOSED" =>
          half_successes' = success_threshold]_redis_vars
=============================================================================
