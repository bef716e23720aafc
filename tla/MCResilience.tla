---------------------------- MODULE MCResilience ----------------------------
(* The policies of resilience/ and the Redis lock, one part at a time:      *)
(* `part` is the one that runs, the others stay where they start. No        *)
(* symmetry: the run checks liveness.                                       *)
EXTENDS CircuitBreaker, CallPolicies, Limiters, RedisLock

VARIABLE part

MCvars == <<part, vars, hedge_vars, call_vars, limiters_vars, limiter_vars, lock_vars>>

MCInit ==
    /\ part \in {"breaker", "hedge", "policies", "limiters", "rate", "lock"}
    /\ part # "limiters" => entry = "limiter"
    /\ part # "rate" => limiter = "bucket"
    /\ Init
    /\ HedgeInit /\ PolicyInit /\ SlotInit /\ RateInit /\ LockInit
    /\ part # "policies" => job.left = 0 /\ ~policy.cached /\ policy.backoff = "linear"
                                         /\ policy.jitter = "none"

MCNext ==
    /\ UNCHANGED part
    /\ IF part = "breaker" THEN Next ELSE UNCHANGED vars
    /\ IF part = "hedge" THEN HedgeNext ELSE UNCHANGED hedge_vars
    /\ IF part = "policies" THEN PolicyNext ELSE UNCHANGED call_vars
    /\ IF part = "limiters" THEN SlotNext ELSE UNCHANGED limiters_vars
    /\ IF part = "rate" THEN RateNext ELSE UNCHANGED limiter_vars
    /\ IF part = "lock" THEN LockNext ELSE UNCHANGED lock_vars

(* What the event loop, the clock and the awaited operations bring about.   *)
(* Nothing makes a caller call or a client acquire.                         *)
MCFairness ==
    /\ part = "breaker" => Fairness
    /\ WF_hedge_vars(part = "hedge" /\ HedgeProgress)
    /\ WF_call_vars(part = "policies" /\ PolicyProgress)
    /\ WF_limiter_vars(part = "rate" /\ check)
    /\ WF_limiter_vars(part = "rate" /\ RateTick)
    /\ WF_lock_vars(part = "lock" /\ LockTick)

MCSpec == MCInit /\ [][MCNext]_MCvars /\ MCFairness

-----------------------------------------------------------------------------
(* The properties below join those of the parts, whose modules state their  *)
(* exceptions.                                                              *)

(* The state of the limiters and the lock has its type. *)
TypesOK == LimiterTypeOK /\ LockTypeOK

(* What is started ends: an open breaker probes again, calls end however    *)
(* their attempts do and in the time their policy allows, a denied caller   *)
(* that asks again is let in, and a lock whose holder has died comes free.  *)
EverythingEnds ==
    /\ []TypesOK /\ []WorstCase
    /\ (part = "breaker" => Recovers) /\ (part = "hedge" => ExecuteEnds)
    /\ (part = "policies" => CallEnds)
    /\ (part = "rate" => AskingAgainHelps) /\ LockComesFree
=============================================================================
