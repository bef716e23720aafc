---------------------------- MODULE CallPolicies ----------------------------
(* How one call is made: hedged, or under the nested policies of            *)
(* resilience/.                                                             *)
EXTENDS Integers, Sequences, FiniteSetsExt

(* HedgePolicy.execute, resilience/hedge/policy.py: 1 + max_hedges tasks    *)
(* run fn(), the hedges after index * delay_ms, and put their results on a  *)
(* queue that execute() reads until the first success.                      *)

CONSTANT max_hedges

ASSUME HedgesAssumption == max_hedges \in Nat

VARIABLES
    attempt,   \* by index: "asleep", "running", "put" or "cancelled"
    hedge      \* execute(): where it is (at), its queue of <<index, result>>
               \* pairs (results) and those it has taken from it (got)

hedge_vars == <<attempt, hedge>>

Index == 0..max_hedges
Live(i) == attempt[i] \in {"asleep", "running"}
Result == Index \X {"value", "error"}
Won(got) == got # <<>> /\ got[Len(got)][2] = "value"

HedgeTypeOK ==
    /\ attempt \in [Index -> {"asleep", "running", "put", "cancelled"}]
    /\ hedge \in [at : {"reading", "gathering", "returned", "raised", "abandoned"},
                  results : Seq(Result), got : Seq(Result)]

HedgeInit ==
    /\ attempt = [i \in Index |-> IF i = 0 THEN "running" ELSE "asleep"]
    /\ hedge = [at |-> "reading", results |-> <<>>, got |-> <<>>]

(* The sleeps end in the order of their lengths; nothing ends them early. *)
wake(i) ==
    /\ attempt[i] = "asleep"
    /\ hedge.at \in {"reading", "abandoned"}
    /\ \A j \in Index : j < i => attempt[j] # "asleep"
    /\ attempt' = [attempt EXCEPT ![i] = "running"]
    /\ UNCHANGED hedge

(* fn() ends; also after the cancellation, if it ended before noticing. *)
run(i) ==
    /\ attempt[i] = "running"
    /\ attempt' = [attempt EXCEPT ![i] = "put"]
    /\ \E r \in {"value", "error"} : hedge' = [hedge EXCEPT !.results = Append(@, <<i, r>>)]

(* Plausible slips in the definitions below, used to test the properties. *)
GiveUp_on_first_error(got) == TRUE
gathered_without_waiting ==
    /\ hedge.at = "gathering"
    /\ hedge' = [hedge EXCEPT !.at = IF Won(hedge.got) THEN "returned" ELSE "raised"]
    /\ UNCHANGED attempt
GiveUp_off_by_one(got) == Won(got) \/ Len(got) > 1 + max_hedges

GiveUp(got) == Won(got) \/ Len(got) = 1 + max_hedges

(* One turn of the loop over queue.get(). *)
get ==
    /\ hedge.at = "reading" /\ hedge.results # <<>>
    /\ LET got == Append(hedge.got, Head(hedge.results))
       IN  hedge' = [at |-> IF GiveUp(got) THEN "gathering" ELSE "reading",
                     results |-> Tail(hedge.results), got |-> got]
    /\ UNCHANGED attempt

(* A task that t.cancel() reached ends with CancelledError. *)
cancelled(i) ==
    /\ hedge.at = "gathering" /\ Live(i)
    /\ attempt' = [attempt EXCEPT ![i] = "cancelled"]
    /\ UNCHANGED hedge

(* asyncio.gather() of the tasks is over: return the winner or raise errors[0]. *)
gathered ==
    /\ hedge.at = "gathering" /\ \A i \in Index : ~Live(i)
    /\ hedge' = [hedge EXCEPT !.at = IF Won(hedge.got) THEN "returned" ELSE "raised"]
    /\ UNCHANGED attempt

(* The caller's own task is cancelled at queue.get(); the attempts go on. *)
abandon ==
    /\ hedge.at = "reading"
    /\ hedge' = [hedge EXCEPT !.at = "abandoned"]
    /\ UNCHANGED attempt

HedgeProgress == get \/ gathered \/ \E i \in Index : wake(i) \/ run(i) \/ cancelled(i)
HedgeNext == HedgeProgress \/ abandon
HedgeSpec == HedgeInit /\ [][HedgeNext]_hedge_vars

-----------------------------------------------------------------------------
(* execute() returns the first success that was put, and raises only when  *)
(* every attempt has failed: a failed original does not end the call while *)
(* a hedge may still answer.                                               *)
FirstSuccessWins ==
    /\ hedge.at = "returned" => \A k \in 1..(Len(hedge.got) - 1) : hedge.got[k][2] = "error"
    /\ hedge.at = "raised" => {hedge.got[k] : k \in DOMAIN hedge.got} = Index \X {"error"}

(* "Returns the first successful result and cancels the others": no        *)
(* attempt outlives execute(), unless the caller abandoned it.             *)
LosersCancelled == hedge.at \in {"returned", "raised"} => \A i \in Index : ~Live(i)

(* execute() ends, however many attempts fail or have to be cancelled. *)
ExecuteEnds == <>(hedge.at \in {"returned", "raised", "abandoned"})

-----------------------------------------------------------------------------
(* One call under the policies of resilience/, nested as an application     *)
(* nests them: deadline_aware around FallbackPolicy (or CachedFallbackPolicy) *)
(* around RetryPolicy around TimeoutPolicy around func().  Timers are due    *)
(* before time moves on.                                                     *)

CONSTANTS
    max_attempts, attempt_timeout,  \* RetryPolicy, TimeoutPolicy.timeout_seconds
    base_delay, max_delay,          \* of the BackoffStrategy
    MaxDeadline                     \* bound on the deadline the caller brings

(* With max_attempts = 0 RetryPolicy would call nothing and have nothing to *)
(* raise; the policies modelled attempt at least once.                      *)
ASSUME CallsAssumption ==
    /\ max_attempts \in Nat \ {0} /\ attempt_timeout \in Nat /\ MaxDeadline \in Nat
    /\ base_delay \in Nat /\ max_delay \in Nat /\ \A n \in 1..max_attempts : base_delay * 2^n \in Nat

VARIABLES
    policy,  \* the strategies in use, and whether a success is cached
    job      \* the call: at, attempt, timer (of the attempt or the delay),
             \* left and elapsed (history) time, how it ended and, as history,
             \* whether its last exception was retryable

call_vars == <<policy, job>>

NoDeadline == MaxDeadline + 1  \* neither passed in nor set in the context
Ended == {"value", "cached", "fallback", "raised", "deadline"}

Policies ==
    [backoff : {"constant", "linear", "exponential", "tenacity"}, jitter : {"none", "full", "equal"},
     cached : BOOLEAN]

PolicyTypeOK ==
    /\ policy \in Policies
    /\ job \in [at : {"idle", "running", "delay"} \cup Ended, attempt : 0..max_attempts,
                timer : Nat, left : 0..NoDeadline, elapsed : Nat,
                retryable : BOOLEAN]

(* last_success is _MISSING, or set by an earlier call. *)
PolicyInit ==
    /\ policy \in Policies
    /\ \E d \in 0..NoDeadline :
          job = [at |-> "idle", attempt |-> 0, timer |-> 0, left |-> d, elapsed |-> 0,
                 retryable |-> TRUE]

AtMost(d) == IF d < max_delay THEN d ELSE max_delay

compute(n) ==
    CASE policy.backoff \in {"constant", "tenacity"} -> base_delay
      [] policy.backoff = "linear" -> AtMost(base_delay * n)
      [] policy.backoff = "exponential" -> AtMost(base_delay * 2^n)

(* Plausible slips in the definitions below, used to test the properties. *)
apply_added(d) == d..(2 * d)
deadline_caught ==
    /\ job.at \in {"running", "delay"} /\ job.left = 0
    /\ job' = [job EXCEPT !.at = IF policy.cached THEN "cached" ELSE "fallback"]
    /\ UNCHANGED policy
delay_over_to_start ==
    /\ job.at = "delay" /\ job.timer = 0
    /\ job' = [job EXCEPT !.at = "running", !.timer = attempt_timeout]
    /\ UNCHANGED policy

apply(d) ==
    CASE policy.jitter = "none" -> {d}
      [] policy.jitter = "full" -> 0..d
      [] policy.jitter = "equal" -> (d \div 2)..d

(* TenacityRetryPolicy stops and retries alike; its default wait is fixed. *)
build_retrying == {base_delay}

Delays(n) == IF policy.backoff = "tenacity" THEN build_retrying ELSE apply(compute(n))

should_stop(retryable) == ~retryable \/ job.attempt = max_attempts

(* deadline_aware: a deadline already over keeps the coroutine from starting. *)
start ==
    /\ job.at = "idle"
    /\ job' = IF job.left = 0 THEN [job EXCEPT !.at = "deadline"]
              ELSE [job EXCEPT !.at = "running", !.attempt = 1, !.timer = attempt_timeout]
    /\ UNCHANGED policy

func_returns ==
    /\ job.at = "running"
    /\ job' = [job EXCEPT !.at = "value"]
    /\ policy' = [policy EXCEPT !.cached = TRUE]

(* An exception reaches RetryPolicy, which waits or lets it through to the *)
(* fallback; a callable fallback may raise in turn.                        *)
Except(retryable) ==
    /\ IF should_stop(retryable)
       THEN \E e \in IF policy.cached THEN {"cached"} ELSE {"fallback", "raised"} :
               job' = [job EXCEPT !.at = e, !.retryable = retryable]
       ELSE \E d \in Delays(job.attempt) :
               job' = [job EXCEPT !.at = "delay", !.timer = d]
    /\ UNCHANGED policy

func_raises == job.at = "running" /\ \E retryable \in BOOLEAN : Except(retryable)

(* TimeoutPolicy turns asyncio's TimeoutError into the kernel's, retryable. *)
attempt_times_out == job.at = "running" /\ job.timer = 0 /\ Except(TRUE)

delay_over ==
    /\ job.at = "delay" /\ job.timer = 0
    /\ job' = [job EXCEPT !.at = "running", !.attempt = @ + 1, !.timer = attempt_timeout]
    /\ UNCHANGED policy

(* wait_for cancels the coroutine: CancelledError is no Exception, so both *)
(* RetryPolicy and the fallback let it through.                            *)
deadline_passes ==
    /\ job.at \in {"running", "delay"} /\ job.left = 0
    /\ job' = [job EXCEPT !.at = "deadline"]
    /\ UNCHANGED policy

CallTick ==
    /\ job.at \in {"running", "delay"} /\ job.timer > 0 /\ job.left > 0
    /\ job' = [job EXCEPT !.timer = @ - 1, !.elapsed = @ + 1,
                          !.left = IF @ = NoDeadline THEN @ ELSE @ - 1]
    /\ UNCHANGED policy

PolicyProgress == start \/ attempt_times_out \/ delay_over \/ deadline_passes \/ CallTick
PolicyNext == PolicyProgress \/ func_returns \/ func_raises
PolicySpec == PolicyInit /\ [][PolicyNext]_call_vars

-----------------------------------------------------------------------------
(* The caller is given a substitute or the exception only after            *)
(* max_attempts attempts or an exception that must not be retried; running *)
(* out of time is neither, and no policy inside turns it into an answer.   *)
SubstituteOnlyAfterAllAttempts ==
    job.at \in {"cached", "fallback", "raised"} =>
        job.attempt = max_attempts \/ ~job.retryable

(* However the attempts end, the call takes at most attempt_timeout per    *)
(* attempt and the unjittered delays in between: jitter only shortens.     *)
WorstCase ==
    LET delays == IF job.attempt = max_attempts THEN job.attempt - 1 ELSE job.attempt
    IN  job.elapsed <= job.attempt * attempt_timeout + MapThenSumSet(compute, 1..delays)

(* The call ends even when func() never does. *)
CallEnds == <>(job.at \in Ended)

-----------------------------------------------------------------------------
(* What a caller is told is what its attempts have earned: the first        *)
(* success of a hedged call, with the losers cancelled; a substitute only   *)
(* after all attempts.                                                      *)
AnswersEarned ==
    /\ HedgeTypeOK /\ PolicyTypeOK
    /\ FirstSuccessWins /\ LosersCancelled /\ SubstituteOnlyAfterAllAttempts
=============================================================================
