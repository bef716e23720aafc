------------------------------ MODULE Limiters ------------------------------
(* How many calls run at a time, and how many in a period.                  *)
EXTENDS AsyncSemaphore

(* ConcurrencyLimiter (resilience/bulkhead/limiters.py) and both ways into   *)
(* BackpressurePolicy (resilience/backpressure.py) over an asyncio.Semaphore. *)

CONSTANT max_in_flight

VARIABLES
    entry,  \* "limiter", "policy" (`async with policy`) or "acquire"
            \* (`async with policy.acquire()`); never changes
    place   \* per task: "out", "waiting" or "in"

limiters_vars == <<semaphore, entry, place>>

In == {t \in Tasks : place[t] = "in"}
Move(t, p) == place' = [place EXCEPT ![t] = p]

SlotTypeOK ==
    /\ value \in 0..max_in_flight
    /\ waiters \in Seq(Tasks) /\ done \subseteq Tasks
    /\ entry \in {"limiter", "policy", "acquire"}
    /\ place \in [Tasks -> {"out", "waiting", "in"}]

SlotInit ==
    /\ value = max_in_flight /\ waiters = <<>> /\ done = {}
    /\ entry \in {"limiter", "policy", "acquire"}
    /\ place = [t \in Tasks |-> "out"]

(* Plausible slips in the definitions below, used to test the properties. *)
enter_policy_unchecked(t) ==
    /\ entry = "policy" /\ place[t] = "out"
    /\ \/ acquire_now /\ Move(t, "in")
       \/ acquire_wait(t) /\ Move(t, "waiting")
    /\ UNCHANGED entry
exit_cancelled_too(t) ==
    /\ place[t] \in {"in", "waiting"} /\ release /\ Move(t, "out") /\ UNCHANGED entry

(* ConcurrencyLimiter.__aenter__: wait_for(acquire(), 0.01). *)
enter_limiter(t) ==
    /\ entry = "limiter" /\ place[t] = "out"
    /\ \/ acquire_now /\ Move(t, "in")
       \/ acquire_wait(t) /\ Move(t, "waiting")
    /\ UNCHANGED entry

resumed(t) == place[t] = "waiting" /\ acquire_resume(t) /\ Move(t, "in") /\ UNCHANGED entry

(* The 10 ms are over: TimeoutError leaves __aenter__, and no __aexit__ follows. *)
times_out(t) == place[t] = "waiting" /\ acquire_cancelled(t) /\ Move(t, "out") /\ UNCHANGED entry

(* BackpressurePolicy.__aenter__: no permit raises BackpressureError. *)
enter_policy(t) ==
    /\ entry = "policy" /\ place[t] = "out" /\ value # 0
    /\ \/ acquire_now /\ Move(t, "in")
       \/ acquire_wait(t) /\ Move(t, "waiting")
    /\ UNCHANGED entry

(* BackpressurePolicy.acquire(): wait_for with a timeout of 0 cancels the   *)
(* acquisition before its first step, so that TimeoutError is all it yields. *)
enter_acquire(t) ==
    /\ entry = "acquire" /\ place[t] = "out" /\ ~locked
    /\ UNCHANGED <<semaphore, entry, place>>

exit(t) == place[t] = "in" /\ release /\ Move(t, "out") /\ UNCHANGED entry

Step(t) == resumed(t) \/ times_out(t) \/ exit(t)
SlotNext == \E t \in Tasks : enter_limiter(t) \/ enter_policy(t) \/ enter_acquire(t) \/ Step(t)
SlotSpec == SlotInit /\ [][SlotNext]_limiters_vars

-----------------------------------------------------------------------------
(* A permit is free, on its way to a woken waiter or held inside, also     *)
(* after a wake-up that met the time-out of the 10 ms; so no more than     *)
(* max_in_flight tasks are ever inside, and no slot is lost for good.      *)
SlotsConserved == value + Cardinality(done) + Cardinality(In) = max_in_flight

(* BackpressurePolicy never makes anybody wait: the test of _value and the *)
(* acquisition that follows it are one step of the event loop.             *)
PolicyNeverWaits == entry = "policy" => waiters = <<>>

-----------------------------------------------------------------------------
(* The three limiters: TokenBucket (resilience/throttle), the in-process    *)
(* LocalTokenBucketRateLimiter (application/rate_limit) and RedisRateLimiter *)
(* (adapters/redis), for one key, with time in ticks.                        *)

CONSTANTS
    limit, window_seconds,   \* Quota
    capacity, refill_rate    \* TokenBucket, tokens per tick

VARIABLES
    limiter,  \* "bucket", "local" or "redis"; never changes
    bucket,   \* count: tokens left, or requests counted; age: ticks since the
              \* last refill, the window's start or the last EXPIRE, capped
    allowed,  \* history: the ages of the grants of the last window_seconds
    denied    \* history: the last check was denied

RateAssumption ==
    /\ limit \in Nat /\ window_seconds \in Nat \ {0}
    /\ capacity \in Nat /\ refill_rate \in Nat \ {0}

ASSUME LimitersAssumption == max_in_flight \in Nat /\ RateAssumption

limiter_vars == <<limiter, bucket, allowed, denied>>

MaxAge == IF window_seconds > capacity THEN window_seconds ELSE capacity

RateTypeOK ==
    /\ limiter \in {"bucket", "local", "redis"}
    /\ bucket \in [count : 0..(IF limiter = "bucket" THEN capacity ELSE limit + 1), age : 0..MaxAge]
    /\ allowed \in Seq(0..(window_seconds - 1))
    /\ denied \in BOOLEAN

RateInit ==
    /\ limiter \in {"bucket", "local", "redis"}
    /\ bucket = [count |-> IF limiter = "bucket" THEN capacity ELSE 0, age |-> 0]
    /\ allowed = <<>>
    /\ denied = FALSE

Decide(ok) ==
    /\ allowed' = IF ok THEN Append(allowed, 0) ELSE allowed
    /\ denied' = ~ok
    /\ UNCHANGED limiter

(* Plausible slips in the definitions below, used to test the properties. *)
refill_uncapped == bucket.count + bucket.age * refill_rate
retry_after_rounded_down(tokens) ==
    IF bucket.count >= tokens THEN 0 ELSE (tokens - bucket.count) \div (refill_rate + 1)
redis_check_expiring_once ==
    LET n == bucket.count + 1
    IN  /\ limiter = "redis" /\ n <= limit + 2
        /\ bucket' = [count |-> n, age |-> IF n = 1 THEN 0 ELSE bucket.age]
        /\ Decide(n <= limit)
local_check_moving_window ==
    LET over == bucket.age >= window_seconds
        n == IF over THEN 0 ELSE bucket.count
    IN  /\ limiter = "local"
        /\ bucket' = [count |-> IF n < limit THEN n + 1 ELSE n, age |-> 0]
        /\ Decide(n < limit)

refill ==
    LET tokens == bucket.count + bucket.age * refill_rate
    IN  IF tokens > capacity THEN capacity ELSE tokens

(* ThrottlePolicy.execute: the lock of acquire() is held over no await. *)
acquire(tokens) ==
    /\ limiter = "bucket"
    /\ bucket' = [count |-> IF refill >= tokens THEN refill - tokens ELSE refill, age |-> 0]
    /\ Decide(refill >= tokens)

(* A window that starts with its first request; a denial leaves it as it was. *)
local_check ==
    LET over == bucket.count = 0 \/ bucket.age >= window_seconds
        n == IF over THEN 0 ELSE bucket.count
    IN  /\ limiter = "local"
        /\ bucket' = IF n < limit
                     THEN [count |-> n + 1, age |-> IF over THEN 0 ELSE bucket.age]
                     ELSE bucket
        /\ Decide(n < limit)

(* INCR and EXPIRE in one transaction, for a denied request too; the count *)
(* is bounded where it no longer matters.                                  *)
redis_check ==
    LET n == bucket.count + 1
    IN  /\ limiter = "redis"
        /\ bucket' = [count |-> IF n > limit + 1 THEN limit + 1 ELSE n, age |-> 0]
        /\ Decide(n <= limit)

(* reset(): the key is deleted, and the quota starts anew. *)
reset ==
    /\ limiter # "bucket"
    /\ bucket' = [count |-> 0, age |-> 0]
    /\ allowed' = <<>>
    /\ UNCHANGED <<limiter, denied>>

(* A tick: the oldest grants leave the window, and Redis drops the key when *)
(* its time is over.                                                        *)
RateTick ==
    LET gone == CHOOSE n \in 0..Len(allowed) :
                   \A i \in DOMAIN allowed : i <= n <=> allowed[i] + 1 >= window_seconds
    IN  /\ allowed' = [i \in 1..(Len(allowed) - gone) |-> allowed[i + gone] + 1]
        /\ bucket' = IF limiter = "redis" /\ bucket.age + 1 >= window_seconds
                     THEN [count |-> 0, age |-> 0]
                     ELSE [bucket EXCEPT !.age = IF @ < MaxAge THEN @ + 1 ELSE @]
        /\ UNCHANGED <<limiter, denied>>

check == acquire(1) \/ local_check \/ redis_check
RateNext == check \/ reset \/ RateTick
RateSpec == RateInit /\ [][RateNext]_limiter_vars

(* retry_after_ms in ticks, rounded up. *)
retry_after(tokens) ==
    IF bucket.count >= tokens THEN 0
    ELSE (tokens - bucket.count + refill_rate - 1) \div refill_rate

-----------------------------------------------------------------------------
(* What each limiter lets through in any stretch of window_seconds: the    *)
(* bucket its capacity and what is refilled meanwhile, the local window    *)
(* the limit twice (the end of one window and the start of the next), the  *)
(* Redis counter the limit itself.                                         *)
QuotaKept ==
    Len(allowed) <= CASE limiter = "bucket" -> capacity + (window_seconds - 1) * refill_rate
                      [] limiter = "local" -> 2 * limit
                      [] limiter = "redis" -> limit

(* The wait a ThrottledError names is enough for any request the bucket    *)
(* can hold at all.                                                        *)
RetryAfterIsEnough ==
    limiter = "bucket" /\ bucket.age = 0 =>
        \A tokens \in 1..capacity :
            bucket.count + retry_after(tokens) * refill_rate >= tokens

(* A client that never stops asking is let in again and again by the       *)
(* bucket and by the local window.  Not by Redis, where each denied        *)
(* request starts the window anew: there only a quiet client recovers.     *)
AskingAgainHelps == limiter = "redis" \/ []<>(~denied)

(* The limits are kept: no window sees more than its quota, who waits as    *)
(* long as told is not denied again, and of the slots none is lost or given *)
(* twice.                                                                   *)
LimitsKept == QuotaKept /\ RetryAfterIsEnough /\ SlotsConserved /\ PolicyNeverWaits

-----------------------------------------------------------------------------
LimiterTypeOK == SlotTypeOK /\ RateTypeOK
=============================================================================
