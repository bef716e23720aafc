-------------------------- MODULE ResilienceProofs --------------------------
(* Theorems about the in-process circuit breaker, hedged calls and calls    *)
(* under the nested policies, for any number of calls and attempts and any  *)
(* policy.                                                                  *)
EXTENDS CircuitBreaker, CallPolicies, FiniteSetTheorems, TLAPS

-----------------------------------------------------------------------------
(* The circuit breaker.                                                     *)

(* CountersBelowThresholds is not inductive: that a trip of a closed       *)
(* breaker needs failures in a row rests on _failure_count being, while    *)
(* CLOSED, a lower bound of the failures recorded since the last success.  *)
BreakerInv ==
    /\ TypeOK
    /\ CountersBelowThresholds
    /\ state = "CLOSED" => failure_count <= streak

(* The breaker starts closed with all counters at zero. *)
LEMMA BreakerStarts == Init => BreakerInv
BY PolicyAssumption
   DEF Init, BreakerInv, TypeOK, CountersBelowThresholds, CircuitBreakerState

(* Every step of the breaker, late reports included, keeps the invariant. *)
LEMMA BreakerStep == BreakerInv /\ [Next]_vars => BreakerInv'
<1> SUFFICES ASSUME BreakerInv, [Next]_vars PROVE BreakerInv'
    BY Zenon
<1> USE PolicyAssumption DEF BreakerInv, TypeOK, CountersBelowThresholds, CircuitBreakerState
<1>1. ASSUME NEW c \in Calls, call(c) PROVE BreakerInv'
    BY <1>1 DEF call, maybe_transition_half_open
<1>2. ASSUME NEW c \in Calls, call_succeeded(c) PROVE BreakerInv'
    <2>1. CASE state = "HALF_OPEN"
        BY <1>2, <2>1 DEF call_succeeded, on_success
    <2>2. CASE state = "CLOSED"
        BY <1>2, <2>2 DEF call_succeeded, on_success
    <2>3. CASE state = "OPEN"
        BY <1>2, <2>3 DEF call_succeeded, on_success
    <2> QED BY <2>1, <2>2, <2>3, Zenon
<1>3. ASSUME NEW c \in Calls, call_failed(c) PROVE BreakerInv'
    <2>1. CASE failure_count + 1 >= failure_threshold
        BY <1>3, <2>1 DEF call_failed, on_failure
    <2>2. CASE failure_count + 1 < failure_threshold
        BY <1>3, <2>2 DEF call_failed, on_failure
    <2> QED BY <2>1, <2>2
<1>4. ASSUME NEW c \in Calls, call_unrecorded(c) PROVE BreakerInv'
    BY <1>4, Zenon DEF call_unrecorded
<1>5. CASE Tick
    BY <1>5 DEF Tick
<1>6. CASE UNCHANGED vars
    BY <1>6, Zenon DEF vars
<1> QED BY <1>1, <1>2, <1>3, <1>4, <1>5, <1>6, Zenon DEF Next

(* The inductive invariant holds in every reachable state. *)
LEMMA BreakerInvHolds == Spec => []BreakerInv
BY BreakerStarts, BreakerStep, PTL DEF Spec

(* The variables of the breaker keep their types; in particular the        *)
(* success counter never passes success_threshold.                         *)
THEOREM TypeCorrect == Spec => []TypeOK
<1>1. BreakerInv => TypeOK
    BY Zenon DEF BreakerInv
<1> QED BY <1>1, BreakerInvHolds, PTL

(* For any policy and any number of overlapping calls the counters stay    *)
(* below their thresholds and an open breaker knows when it was opened.    *)
THEOREM CountersCorrect == Spec => []CountersBelowThresholds
<1>1. BreakerInv => CountersBelowThresholds
    BY Zenon DEF BreakerInv
<1> QED BY <1>1, BreakerInvHolds, PTL

(* A closed breaker opens only after failure_threshold consecutive         *)
(* failures.                                                               *)
THEOREM TripsCorrect == Spec => TripsOnlyOnConsecutiveFailures
<1>1. BreakerInv /\ [Next]_vars =>
         [state = "CLOSED" /\ state' = "OPEN" => streak' = failure_threshold]_vars
    <2> SUFFICES ASSUME BreakerInv, Next, state = "CLOSED", state' = "OPEN"
                 PROVE  streak' = failure_threshold
        BY Zenon
    <2> USE PolicyAssumption DEF BreakerInv, TypeOK, CountersBelowThresholds
    <2>1. PICK c \in Calls : call_failed(c)
        BY Zenon DEF Next, call, maybe_transition_half_open, call_succeeded, on_success,
               call_unrecorded, Tick
    <2>2. failure_count + 1 >= failure_threshold
        BY <2>1, Zenon DEF call_failed, on_failure
    <2> QED BY <2>1, <2>2 DEF call_failed
<1> QED BY <1>1, BreakerInvHolds, PTL DEF Spec, TripsOnlyOnConsecutiveFailures

(* The open period lasts for timeout_seconds and ends in HALF_OPEN only. *)
THEOREM OpenPeriodCorrect == Spec => OpenLastsForTheTimeout
<1>1. BreakerInv /\ [Next]_vars =>
         [state = "OPEN" /\ state' # "OPEN" =>
             state' = "HALF_OPEN" /\ open_age >= timeout_seconds]_vars
    <2> SUFFICES ASSUME BreakerInv, Next, state = "OPEN", state' # "OPEN"
                 PROVE  state' = "HALF_OPEN" /\ open_age >= timeout_seconds
        BY Zenon
    <2>1. PICK c \in Calls : call(c)
        BY Zenon DEF Next, call_succeeded, on_success, call_failed, on_failure,
               call_unrecorded, Tick
    <2> QED BY <2>1, Zenon DEF call, maybe_transition_half_open
<1> QED BY <1>1, BreakerInvHolds, PTL DEF Spec, OpenLastsForTheTimeout

(* The breaker opens only when it should, and for as long as it should. *)
THEOREM OpensRightlyCorrect == Spec => OpensRightly
BY TripsCorrect, OpenPeriodCorrect, TypeCorrect, CountersCorrect, PTL DEF OpensRightly

-----------------------------------------------------------------------------
(* The hedged call.                                                         *)

(* Every attempt puts one result on the queue; those that execute() has     *)
(* taken before the last are errors, and it goes on reading until it has a  *)
(* success or all of them.                                                  *)
OnePutEach(got, results) ==
    /\ \A k \in DOMAIN got : attempt[got[k][1]] = "put"
    /\ \A k \in DOMAIN results : attempt[results[k][1]] = "put"
    /\ \A k, l \in DOMAIN got : got[k][1] = got[l][1] => k = l
    /\ \A k, l \in DOMAIN results : results[k][1] = results[l][1] => k = l
    /\ \A k \in DOMAIN got : \A l \in DOMAIN results : got[k][1] # results[l][1]

HedgeInv ==
    /\ HedgeTypeOK
    /\ OnePutEach(hedge.got, hedge.results)
    /\ \A k \in 1..(Len(hedge.got) - 1) : hedge.got[k][2] = "error"
    /\ hedge.at = "reading" => ~Won(hedge.got)
    /\ hedge.at \in {"gathering", "returned", "raised"} => GiveUp(hedge.got)
    /\ hedge.at = "raised" => ~Won(hedge.got)
    /\ LosersCancelled

(* The elements of a sequence that has grown by one. *)
LEMMA AppendedTo ==
    ASSUME NEW S, NEW s \in Seq(S), NEW x \in S
    PROVE  /\ Append(s, x) \in Seq(S) /\ Len(Append(s, x)) = Len(s) + 1 /\ Len(s) \in Nat
           /\ DOMAIN Append(s, x) = 1..(Len(s) + 1) /\ DOMAIN s = 1..Len(s)
           /\ \A k \in 1..Len(s) : Append(s, x)[k] = s[k] /\ s[k] \in S
           /\ Append(s, x)[Len(s) + 1] = x /\ Append(s, x) # <<>>
  OBVIOUS

(* The rest of a sequence, one place further on. *)
LEMMA TakenFrom ==
    ASSUME NEW S, NEW s \in Seq(S), s # <<>>
    PROVE  /\ Tail(s) \in Seq(S) /\ Len(s) \in Nat \ {0} /\ Head(s) = s[1] /\ s[1] \in S
           /\ DOMAIN s = 1..Len(s) /\ DOMAIN Tail(s) = 1..(Len(s) - 1)
           /\ \A k \in 1..(Len(s) - 1) : Tail(s)[k] = s[k + 1]
  OBVIOUS

(* Who puts one result each, of n, has put those of all. *)
LEMMA AllAccountedFor ==
    ASSUME NEW n \in Nat, NEW f \in [1..(n + 1) -> 0..n],
           \A k, l \in 1..(n + 1) : f[k] = f[l] => k = l
    PROVE  \A i \in 0..n : \E k \in 1..(n + 1) : f[k] = i
<1> SUFFICES ASSUME NEW i \in 0..n, \A k \in 1..(n + 1) : f[k] # i
             PROVE  FALSE
  BY Zenon
<1>1. IsFiniteSet(1..(n + 1)) /\ Cardinality(1..(n + 1)) = n + 1
  BY FS_Interval
<1>2. IsFiniteSet(0..n) /\ Cardinality(0..n) = n + 1
  BY FS_Interval
<1>3. IsFiniteSet((0..n) \ {i}) /\ Cardinality((0..n) \ {i}) = n
  <2>1. Cardinality((0..n) \ {i}) = IF i \in 0..n THEN Cardinality(0..n) - 1 ELSE Cardinality(0..n)
    BY <1>2, FS_RemoveElement, Zenon
  <2>2. IsFiniteSet((0..n) \ {i})
    BY <1>2, FS_RemoveElement, Zenon
  <2>3. QED
    BY <1>2, <2>1, <2>2
<1>4. f \in [1..(n + 1) -> (0..n) \ {i}]
  BY Zenon
<1>5. Cardinality((0..n) \ {i}) < Cardinality(1..(n + 1))
  BY <1>1, <1>3
<1>6. \E k, l \in 1..(n + 1) : k # l /\ f[k] = f[l]
  <2> DEFINE S == 1..(n + 1)
             T == (0..n) \ {i}
  <2>1. IsFiniteSet(S) /\ IsFiniteSet(T) /\ Cardinality(T) < Cardinality(S) /\ f \in [S -> T]
    BY <1>1, <1>3, <1>4, <1>5, Zenon
  <2> HIDE DEF S, T
  <2>2. \E k, l \in S : k # l /\ f[k] = f[l]
    BY <2>1, FS_PigeonHole
  <2>3. QED
    BY <2>2, Zenon DEF S
<1>7. QED
  BY <1>6, Zenon

(* The queue and what was taken from it have their types. *)
LEMMA HedgeTypes ==
    ASSUME HedgeTypeOK
    PROVE  /\ attempt \in [Index -> {"asleep", "running", "put", "cancelled"}]
           /\ hedge.at \in {"reading", "gathering", "returned", "raised", "abandoned"}
           /\ hedge.results \in Seq(Result) /\ hedge.got \in Seq(Result)
           /\ hedge = [at |-> hedge.at, results |-> hedge.results, got |-> hedge.got]
  BY Zenon DEF HedgeTypeOK

(* An attempt that changes and has put nothing leaves the queue's results   *)
(* those of others.                                                         *)
LEMMA AttemptMoves ==
    ASSUME HedgeInv, NEW i \in Index, attempt[i] \in {"asleep", "running"},
           NEW p \in {"running", "cancelled"}, attempt' = [attempt EXCEPT ![i] = p], hedge' = hedge,
           hedge.at \in {"returned", "raised"} => FALSE
    PROVE  HedgeInv'
<1>1. /\ attempt \in [Index -> {"asleep", "running", "put", "cancelled"}]
      /\ hedge.results \in Seq(Result) /\ hedge.got \in Seq(Result)
  BY HedgeTypes, Zenon DEF HedgeInv
<1>2. /\ attempt' \in [Index -> {"asleep", "running", "put", "cancelled"}]
      /\ \A j \in Index : attempt[j] = "put" => attempt'[j] = "put"
  BY <1>1, Zenon
<1>3. HedgeTypeOK'
  BY <1>2, Zenon DEF HedgeInv, HedgeTypeOK
<1>4. /\ \A k \in DOMAIN hedge.got : hedge.got[k][1] \in Index
      /\ \A k \in DOMAIN hedge.results : hedge.results[k][1] \in Index
  BY <1>1 DEF Result
<1>5. OnePutEach(hedge.got, hedge.results)'
  BY <1>2, <1>4 DEF HedgeInv, OnePutEach
<1>6. QED
  BY <1>3, <1>5, Zenon DEF HedgeInv, LosersCancelled

(* An attempt that ends puts the first result of its own. *)
LEMMA RunStep ==
    ASSUME HedgeInv, NEW i \in Index, run(i)
    PROVE  HedgeInv'
<1>1. /\ attempt \in [Index -> {"asleep", "running", "put", "cancelled"}]
      /\ hedge.at \in {"reading", "gathering", "returned", "raised", "abandoned"}
      /\ hedge.results \in Seq(Result) /\ hedge.got \in Seq(Result)
      /\ hedge = [at |-> hedge.at, results |-> hedge.results, got |-> hedge.got]
  BY HedgeTypes, Zenon DEF HedgeInv
<1>2. PICK r \in {"value", "error"} : hedge' = [hedge EXCEPT !.results = Append(@, <<i, r>>)]
  BY Zenon DEF run
<1>3. attempt[i] = "running" /\ attempt' = [attempt EXCEPT ![i] = "put"]
  BY Zenon DEF run
<1>4. /\ hedge'.at = hedge.at /\ hedge'.got = hedge.got
      /\ hedge'.results = Append(hedge.results, <<i, r>>)
      /\ hedge' = [at |-> hedge.at, results |-> Append(hedge.results, <<i, r>>), got |-> hedge.got]
  BY <1>1, <1>2, Zenon
<1>5. <<i, r>> \in Result /\ <<i, r>>[1] = i
  BY Zenon DEF Result
<1>6. /\ attempt' \in [Index -> {"asleep", "running", "put", "cancelled"}] /\ attempt'[i] = "put"
      /\ \A j \in Index : attempt[j] = "put" => attempt'[j] = "put"
  BY <1>1, <1>3, Zenon
<1>7. Append(hedge.results, <<i, r>>) \in Seq(Result)
  BY <1>1, <1>5, AppendedTo, Zenon
<1>8. HedgeTypeOK'
  BY <1>1, <1>4, <1>6, <1>7, Zenon DEF HedgeTypeOK
<1>9. /\ \A k \in DOMAIN hedge.got : hedge.got[k][1] \in Index /\ hedge.got[k][1] # i
      /\ \A k \in DOMAIN hedge.results : hedge.results[k][1] \in Index /\ hedge.results[k][1] # i
  BY <1>1, <1>3 DEF HedgeInv, OnePutEach, Result
<1>10. OnePutEach(hedge.got, hedge.results)'
  <2> DEFINE s == hedge.results
             t == Append(s, <<i, r>>)
  <2>1. /\ DOMAIN t = 1..(Len(s) + 1) /\ DOMAIN s = 1..Len(s) /\ Len(s) \in Nat
        /\ \A k \in 1..Len(s) : t[k] = s[k]
        /\ t[Len(s) + 1] = <<i, r>>
    BY <1>1, <1>5, AppendedTo
  <2> HIDE DEF t
  <2>2. \A k \in DOMAIN t : k \in DOMAIN s \/ k = Len(s) + 1
    BY <2>1
  <2>3. \A k \in DOMAIN t : \/ k \in DOMAIN s /\ t[k][1] = s[k][1] /\ s[k][1] # i /\ s[k][1] \in Index
                            \/ k = Len(s) + 1 /\ t[k][1] = i
    BY <1>5, <1>9, <2>1, <2>2, Zenon
  <2>4. \A k \in DOMAIN t : attempt'[t[k][1]] = "put"
    BY <1>6, <2>3, Zenon DEF HedgeInv, OnePutEach
  <2>5. \A k \in DOMAIN hedge.got : attempt'[hedge.got[k][1]] = "put"
    BY <1>6, <1>9, Zenon DEF HedgeInv, OnePutEach
  <2>6. \A k, l \in DOMAIN t : t[k][1] = t[l][1] => k = l
    BY <2>3, Zenon DEF HedgeInv, OnePutEach
  <2>7. \A k \in DOMAIN hedge.got : \A l \in DOMAIN t : hedge.got[k][1] # t[l][1]
    BY <1>9, <2>3 DEF HedgeInv, OnePutEach
  <2>8. \A k, l \in DOMAIN hedge.got : hedge.got[k][1] = hedge.got[l][1] => k = l
    BY Zenon DEF HedgeInv, OnePutEach
  <2>9. hedge'.got = hedge.got /\ hedge'.results = t
    BY <1>4, Zenon DEF t
  <2>10. QED
    BY <2>4, <2>5, <2>6, <2>7, <2>8, <2>9 DEF OnePutEach
<1>11. hedge.at \notin {"returned", "raised"}
  BY <1>3, Zenon DEF HedgeInv, LosersCancelled, Live
<1>12. QED
  BY <1>4, <1>8, <1>10, <1>11, Zenon DEF HedgeInv, LosersCancelled

(* What execute() takes from the queue it has not had yet, and it goes on   *)
(* only with an error.                                                      *)
LEMMA GetStep ==
    ASSUME HedgeInv, get
    PROVE  HedgeInv'
<1> DEFINE s == hedge.results
           g == hedge.got
           h == Append(g, Head(s))
<1>1. /\ attempt \in [Index -> {"asleep", "running", "put", "cancelled"}]
      /\ s \in Seq(Result) /\ g \in Seq(Result)
  BY HedgeTypes, Zenon DEF HedgeInv
<1>2. /\ hedge.at = "reading" /\ s # <<>> /\ attempt' = attempt
      /\ hedge' = [at |-> IF GiveUp(h) THEN "gathering" ELSE "reading", results |-> Tail(s), got |-> h]
  BY Zenon DEF get
<1>3. /\ hedge'.at = (IF GiveUp(h) THEN "gathering" ELSE "reading") /\ hedge'.results = Tail(s) /\ hedge'.got = h
  BY <1>2, Zenon
<1>4. /\ Tail(s) \in Seq(Result) /\ Len(s) \in Nat \ {0} /\ Head(s) = s[1] /\ s[1] \in Result
      /\ DOMAIN s = 1..Len(s) /\ DOMAIN Tail(s) = 1..(Len(s) - 1)
      /\ \A k \in 1..(Len(s) - 1) : Tail(s)[k] = s[k + 1]
  BY <1>1, <1>2, TakenFrom, Zenon
<1>5. /\ h \in Seq(Result) /\ Len(h) = Len(g) + 1 /\ Len(g) \in Nat
      /\ DOMAIN h = 1..(Len(g) + 1) /\ DOMAIN g = 1..Len(g)
      /\ \A k \in 1..Len(g) : h[k] = g[k] /\ g[k] \in Result
      /\ h[Len(g) + 1] = s[1]
  BY <1>1, <1>4, AppendedTo
<1> HIDE DEF h
<1>6. HedgeTypeOK'
  <2>1. hedge' \in [at : {"reading", "gathering", "returned", "raised", "abandoned"},
                    results : Seq(Result), got : Seq(Result)]
    BY <1>2, <1>4, <1>5, Zenon
  <2>2. QED
    BY <1>1, <1>2, <2>1, Zenon DEF HedgeTypeOK
<1>7. OnePutEach(g, s)
  BY Zenon DEF HedgeInv
<1>8. \A k \in DOMAIN Tail(s) : Tail(s)[k] = s[k + 1] /\ k + 1 \in DOMAIN s /\ k + 1 # 1
  BY <1>4
<1>9. \A k \in DOMAIN h : (k \in DOMAIN g /\ h[k] = g[k]) \/ (k = Len(g) + 1 /\ h[k] = s[1])
  BY <1>5
<1>10. 1 \in DOMAIN s
  BY <1>4
<1>11. OnePutEach(h, Tail(s))
  <2>1. \A k, l \in DOMAIN Tail(s) : Tail(s)[k][1] = Tail(s)[l][1] => k = l
    <3> SUFFICES ASSUME NEW k \in DOMAIN Tail(s), NEW l \in DOMAIN Tail(s), Tail(s)[k][1] = Tail(s)[l][1]
                 PROVE  k = l
      BY Zenon
    <3>1. k + 1 = l + 1
      BY <1>7, <1>8 DEF OnePutEach
    <3>2. QED
      BY <1>4, <3>1
  <2>2. \A k \in DOMAIN h : attempt[h[k][1]] = "put"
    BY <1>7, <1>9, <1>10 DEF OnePutEach
  <2>3. \A k \in DOMAIN Tail(s) : attempt[Tail(s)[k][1]] = "put"
    BY <1>7, <1>8 DEF OnePutEach
  <2>4. \A k, l \in DOMAIN h : h[k][1] = h[l][1] => k = l
    BY <1>7, <1>9, <1>10 DEF OnePutEach
  <2>5. \A k \in DOMAIN h : \A l \in DOMAIN Tail(s) : h[k][1] # Tail(s)[l][1]
    BY <1>7, <1>8, <1>9, <1>10 DEF OnePutEach
  <2>6. QED
    BY <2>1, <2>2, <2>3, <2>4, <2>5, Zenon DEF OnePutEach
<1>12. OnePutEach(hedge.got, hedge.results)'
  BY <1>2, <1>3, <1>11, Zenon DEF OnePutEach
<1>13. \A k \in 1..(Len(h) - 1) : h[k][2] = "error"
  <2> SUFFICES ASSUME NEW k \in 1..(Len(h) - 1)
               PROVE  h[k][2] = "error"
    BY Zenon
  <2>1. k \in 1..Len(g) /\ h[k] = g[k] /\ g # <<>>
    BY <1>1, <1>5
  <2>2. CASE k = Len(g)
    <3>1. ~Won(g)
      BY <1>2, Zenon DEF HedgeInv
    <3>2. g[k][2] # "value" /\ g[k] \in Result
      BY <1>5, <2>1, <2>2, <3>1, Zenon DEF Won
    <3>3. QED
      BY <2>1, <3>2, Zenon DEF Result
  <2>3. CASE k # Len(g)
    <3>1. k \in 1..(Len(g) - 1)
      BY <1>5, <2>1, <2>3
    <3>2. QED
      BY <2>1, <3>1, Zenon DEF HedgeInv
  <2>4. QED
    BY <2>2, <2>3, Zenon
<1>14. hedge'.at = "reading" => ~Won(h)
  BY <1>3, Zenon DEF GiveUp
<1>15. hedge'.at \in {"gathering", "returned", "raised"} => GiveUp(h)
  BY <1>3, Zenon
<1>16. hedge'.at \notin {"returned", "raised"}
  BY <1>3, Zenon
<1>17. (\A k \in 1..(Len(hedge.got) - 1) : hedge.got[k][2] = "error")'
  BY <1>3, <1>13, Zenon
<1>18. QED
  BY <1>3, <1>6, <1>12, <1>14, <1>15, <1>16, <1>17, Zenon DEF HedgeInv, LosersCancelled, GiveUp, Won

(* Every step of a hedged call keeps the invariant. *)
LEMMA HedgeStep == HedgeInv /\ [HedgeNext]_hedge_vars => HedgeInv'
<1> SUFFICES ASSUME HedgeInv, [HedgeNext]_hedge_vars
             PROVE  HedgeInv'
  BY Zenon
<1>0. /\ attempt \in [Index -> {"asleep", "running", "put", "cancelled"}]
      /\ hedge.at \in {"reading", "gathering", "returned", "raised", "abandoned"}
      /\ hedge.results \in Seq(Result) /\ hedge.got \in Seq(Result)
      /\ hedge = [at |-> hedge.at, results |-> hedge.results, got |-> hedge.got]
  BY HedgeTypes, Zenon DEF HedgeInv
<1>1. ASSUME NEW i \in Index, wake(i)
      PROVE  HedgeInv'
  <2>1. /\ attempt[i] \in {"asleep", "running"} /\ hedge' = hedge /\ hedge.at \notin {"returned", "raised"}
        /\ attempt' = [attempt EXCEPT ![i] = "running"]
    BY <1>1, Zenon DEF wake
  <2>2. QED
    BY <2>1, AttemptMoves, Zenon
<1>2. ASSUME NEW i \in Index, cancelled(i)
      PROVE  HedgeInv'
  <2>1. /\ attempt[i] \in {"asleep", "running"} /\ hedge' = hedge /\ hedge.at \notin {"returned", "raised"}
        /\ attempt' = [attempt EXCEPT ![i] = "cancelled"]
    BY <1>2, Zenon DEF cancelled, Live
  <2>2. QED
    BY <2>1, AttemptMoves, Zenon
<1>3. ASSUME NEW i \in Index, run(i)
      PROVE  HedgeInv'
  BY <1>3, RunStep, Zenon
<1>4. CASE get
  BY <1>4, GetStep, Zenon
<1>5. CASE gathered \/ abandon
  <2>1. /\ attempt' = attempt /\ hedge'.results = hedge.results /\ hedge'.got = hedge.got
        /\ hedge' \in [at : {"reading", "gathering", "returned", "raised", "abandoned"},
                       results : Seq(Result), got : Seq(Result)]
    BY <1>0, <1>5, Zenon DEF gathered, abandon
  <2>2. \/ hedge'.at = "abandoned"
        \/ /\ hedge.at = "gathering" /\ hedge'.at = (IF Won(hedge.got) THEN "returned" ELSE "raised")
           /\ \A i \in Index : ~Live(i)
    BY <1>0, <1>5, Zenon DEF gathered, abandon
  <2>3. HedgeTypeOK'
    BY <1>0, <2>1, Zenon DEF HedgeTypeOK
  <2>4. OnePutEach(hedge.got, hedge.results)' /\ (\A k \in 1..(Len(hedge.got) - 1) : hedge.got[k][2] = "error")'
    BY <2>1 DEF HedgeInv, OnePutEach
  <2>5. CASE hedge'.at = "abandoned"
    BY <2>3, <2>4, <2>5, Zenon DEF HedgeInv, LosersCancelled
  <2>6. CASE /\ hedge.at = "gathering" /\ hedge'.at = (IF Won(hedge.got) THEN "returned" ELSE "raised")
             /\ \A i \in Index : ~Live(i)
    <3>1. GiveUp(hedge.got) /\ GiveUp(hedge.got)' /\ LosersCancelled'
      BY <2>1, <2>6, Zenon DEF HedgeInv, LosersCancelled, Live, GiveUp, Won
    <3>2. hedge'.at # "reading" /\ (hedge'.at = "raised" => ~Won(hedge.got)')
      BY <2>1, <2>6, Zenon DEF Won
    <3>3. QED
      BY <2>3, <2>4, <3>1, <3>2, Zenon DEF HedgeInv
  <2>7. QED
    BY <2>2, <2>5, <2>6, Zenon
<1>6. CASE UNCHANGED hedge_vars
  BY <1>6, Zenon DEF hedge_vars, HedgeInv, HedgeTypeOK, OnePutEach, LosersCancelled, Live, GiveUp, Won
<1>7. QED
  BY <1>1, <1>2, <1>3, <1>4, <1>5, <1>6, Zenon DEF HedgeNext, HedgeProgress

(* The invariant gives what the caller of a hedged call is promised. *)
LEMMA HedgeInvGives == HedgeInv => FirstSuccessWins
<1> SUFFICES ASSUME HedgeInv
             PROVE  FirstSuccessWins
  BY Zenon
<1> DEFINE g == hedge.got
<1>1. hedge.at = "returned" => \A k \in 1..(Len(g) - 1) : g[k][2] = "error"
  BY Zenon DEF HedgeInv
<1>2. ASSUME hedge.at = "raised"
      PROVE  {g[k] : k \in DOMAIN g} = Index \X {"error"}
  <2>1. g \in Seq(Result) /\ DOMAIN g = 1..Len(g) /\ Len(g) \in Nat
    BY HedgeTypes DEF HedgeInv
  <2>2. Len(g) = 1 + max_hedges /\ ~Won(g)
    BY <1>2, Zenon DEF HedgeInv, GiveUp
  <2>3. \A k \in DOMAIN g : g[k] \in Result /\ g[k] = <<g[k][1], g[k][2]>> /\ g[k][1] \in Index
    BY <2>1 DEF Result
  <2>4. \A k \in DOMAIN g : g[k][2] = "error"
    <3> SUFFICES ASSUME NEW k \in DOMAIN g
                 PROVE  g[k][2] = "error"
      BY Zenon
    <3>1. CASE k = Len(g)
      <4>1. g # <<>>
        BY <2>1, <2>2, HedgesAssumption
      <4>2. g[k][2] # "value"
        BY <2>2, <3>1, <4>1, Zenon DEF Won
      <4>3. QED
        BY <2>3, <4>2, Zenon DEF Result
    <3>2. CASE k # Len(g)
      <4>1. k \in 1..(Len(g) - 1)
        BY <2>1, <3>2
      <4>2. QED
        BY <4>1, Zenon DEF HedgeInv
    <3>3. QED
      BY <3>1, <3>2, Zenon
  <2>5. \A i \in Index : \E k \in DOMAIN g : g[k][1] = i
    <3> DEFINE f == [k \in 1..(max_hedges + 1) |-> g[k][1]]
    <3>1. DOMAIN g = 1..(max_hedges + 1)
      BY <2>1, <2>2, HedgesAssumption
    <3>2. f \in [1..(max_hedges + 1) -> 0..max_hedges]
      BY <2>3, <3>1, Zenon DEF Index
    <3>3. \A k, l \in 1..(max_hedges + 1) : f[k] = f[l] => k = l
      BY <3>1, Zenon DEF HedgeInv, OnePutEach
    <3>4. \A i \in 0..max_hedges : \E k \in 1..(max_hedges + 1) : f[k] = i
      <4> HIDE DEF f
      <4>1. QED
        BY <3>2, <3>3, AllAccountedFor, HedgesAssumption, Zenon
    <3>5. QED
      BY <3>1, <3>4, Zenon DEF Index
  <2>6. QED
    BY <2>3, <2>4, <2>5
<1>3. QED
  BY <1>1, <1>2, Zenon DEF FirstSuccessWins

-----------------------------------------------------------------------------
(* The nested policies.                                                     *)

(* A call that has started counts its attempts from 1, and one that waits   *)
(* has an attempt left.                                                     *)
PolicyInv ==
    /\ PolicyTypeOK
    /\ job.at \in {"running", "delay"} => job.attempt >= 1
    /\ job.at = "delay" => job.attempt < max_attempts
    /\ SubstituteOnlyAfterAllAttempts

(* Where a call can be. *)
Places == {"idle", "running", "delay"} \cup Ended

(* The fields of a call that has its type. *)
LEMMA CallTypes ==
    ASSUME PolicyTypeOK
    PROVE  /\ job.at \in Places /\ job.attempt \in 0..max_attempts /\ job.timer \in Nat
           /\ job.left \in 0..NoDeadline /\ job.elapsed \in Nat /\ job.retryable \in BOOLEAN
           /\ job = [at |-> job.at, attempt |-> job.attempt, timer |-> job.timer, left |-> job.left,
                     elapsed |-> job.elapsed, retryable |-> job.retryable]
  BY Zenon DEF PolicyTypeOK, Places

(* A record of such fields has its type. *)
LEMMA TypedCall ==
    ASSUME NEW a \in Places, NEW n \in 0..max_attempts, NEW t \in Nat, NEW d \in 0..NoDeadline,
           NEW e \in Nat, NEW r \in BOOLEAN,
           job' = [at |-> a, attempt |-> n, timer |-> t, left |-> d, elapsed |-> e, retryable |-> r],
           policy' \in Policies,
           a \in {"running", "delay"} => n >= 1,
           a = "delay" => n < max_attempts,
           a \in {"cached", "fallback", "raised"} => n = max_attempts \/ ~r
    PROVE  PolicyInv'
<1>1. PolicyTypeOK'
  BY Zenon DEF PolicyTypeOK, Places
<1>2. job'.at = a /\ job'.attempt = n /\ job'.retryable = r
  BY Zenon
<1>3. QED
  BY <1>1, <1>2, Zenon DEF PolicyInv, SubstituteOnlyAfterAllAttempts

(* The delays are natural numbers. *)
LEMMA DelaysAreNatural ==
    ASSUME PolicyTypeOK, NEW n \in 1..max_attempts, NEW d \in Delays(n)
    PROVE  d \in Nat
<1>1. compute(n) \in Nat
  <2>1. base_delay * n \in Nat /\ base_delay * 2^n \in Nat
    BY CallsAssumption
  <2>2. AtMost(base_delay * n) \in Nat /\ AtMost(base_delay * 2^n) \in Nat
    BY <2>1, CallsAssumption, Zenon DEF AtMost
  <2>3. policy.backoff \in {"constant", "linear", "exponential", "tenacity"}
    BY Zenon DEF PolicyTypeOK, Policies
  <2>4. QED
    BY <2>2, <2>3, CallsAssumption, Zenon DEF compute
<1>2. policy.jitter \in {"none", "full", "equal"}
  BY Zenon DEF PolicyTypeOK, Policies
<1>3. apply(compute(n)) \subseteq Nat
  <2> DEFINE c == compute(n)
  <2>1. c \in Nat
    BY <1>1, Zenon
  <2> HIDE DEF c
  <2>2. {c} \subseteq Nat /\ 0..c \subseteq Nat /\ (c \div 2)..c \subseteq Nat
    BY <2>1
  <2>3. apply(c) \subseteq Nat
    BY <1>2, <2>2, Zenon DEF apply
  <2>4. QED
    BY <2>3, Zenon DEF c
<1>4. QED
  BY <1>3, CallsAssumption, Zenon DEF Delays, build_retrying

(* A call that has not started satisfies the invariant. *)
LEMMA PolicyStarts == PolicyInit => PolicyInv
<1> SUFFICES ASSUME PolicyInit
             PROVE  PolicyInv
  BY Zenon
<1>1. PICK d \in 0..NoDeadline :
         job = [at |-> "idle", attempt |-> 0, timer |-> 0, left |-> d, elapsed |-> 0, retryable |-> TRUE]
  BY Zenon DEF PolicyInit
<1>2. PolicyTypeOK
  BY <1>1, CallsAssumption DEF PolicyInit, PolicyTypeOK
<1>3. QED
  BY <1>1, <1>2, Zenon DEF PolicyInv, SubstituteOnlyAfterAllAttempts

(* An exception is retried while attempts are left, and gets through        *)
(* otherwise.                                                               *)
LEMMA ExceptStep ==
    ASSUME PolicyInv, NEW retryable \in BOOLEAN, job.at = "running", Except(retryable)
    PROVE  PolicyInv'
<1>1. /\ job.at \in Places /\ job.attempt \in 0..max_attempts /\ job.timer \in Nat
      /\ job.left \in 0..NoDeadline /\ job.elapsed \in Nat /\ job.retryable \in BOOLEAN
      /\ job = [at |-> job.at, attempt |-> job.attempt, timer |-> job.timer, left |-> job.left,
                elapsed |-> job.elapsed, retryable |-> job.retryable]
  BY CallTypes, Zenon DEF PolicyInv
<1>2. policy' \in Policies
  BY Zenon DEF Except, PolicyInv, PolicyTypeOK
<1>3. CASE should_stop(retryable)
  <2>1. PICK e \in {"cached", "fallback", "raised"} : job' = [job EXCEPT !.at = e, !.retryable = retryable]
    <3>1. (IF policy.cached THEN {"cached"} ELSE {"fallback", "raised"}) \subseteq {"cached", "fallback", "raised"}
      BY Zenon
    <3>2. QED
      BY <1>3, <3>1, Zenon DEF Except
  <2>2. job' = [at |-> e, attempt |-> job.attempt, timer |-> job.timer, left |-> job.left,
                elapsed |-> job.elapsed, retryable |-> retryable]
    BY <1>1, <2>1, Zenon
  <2>3. e \in Places /\ e \notin {"running", "delay"} /\ (job.attempt = max_attempts \/ ~retryable)
    BY <1>3, Zenon DEF should_stop, Places, Ended
  <2>4. QED
    BY <1>1, <1>2, <2>2, <2>3, TypedCall, Zenon
<1>4. CASE ~should_stop(retryable)
  <2>1. PICK d \in Delays(job.attempt) : job' = [job EXCEPT !.at = "delay", !.timer = d]
    BY <1>4, Zenon DEF Except
  <2>2. job' = [at |-> "delay", attempt |-> job.attempt, timer |-> d, left |-> job.left,
                elapsed |-> job.elapsed, retryable |-> job.retryable]
    BY <1>1, <2>1, Zenon
  <2>3. job.attempt \in 1..max_attempts /\ job.attempt < max_attempts /\ job.attempt >= 1
    <3>1. job.attempt # max_attempts /\ job.attempt >= 1
      BY <1>4, Zenon DEF should_stop, PolicyInv
    <3>2. QED
      BY <1>1, <3>1, CallsAssumption
  <2>4. d \in Nat
    BY <2>3, DelaysAreNatural, Zenon DEF PolicyInv
  <2>5. "delay" \in Places /\ "delay" \notin {"cached", "fallback", "raised"}
    BY Zenon DEF Places
  <2>6. QED
    BY <1>1, <1>2, <2>2, <2>3, <2>4, <2>5, TypedCall, Zenon
<1>5. QED
  BY <1>3, <1>4, Zenon

(* Every step of a call keeps the invariant. *)
LEMMA PolicyStep == PolicyInv /\ [PolicyNext]_call_vars => PolicyInv'
<1> SUFFICES ASSUME PolicyInv, [PolicyNext]_call_vars
             PROVE  PolicyInv'
  BY Zenon
<1>1. /\ job.at \in Places /\ job.attempt \in 0..max_attempts /\ job.timer \in Nat
      /\ job.left \in 0..NoDeadline /\ job.elapsed \in Nat /\ job.retryable \in BOOLEAN
      /\ job = [at |-> job.at, attempt |-> job.attempt, timer |-> job.timer, left |-> job.left,
                elapsed |-> job.elapsed, retryable |-> job.retryable]
  BY CallTypes, Zenon DEF PolicyInv
<1>2. policy \in Policies
  BY Zenon DEF PolicyInv, PolicyTypeOK
<1>3. /\ "running" \in Places /\ "deadline" \in Places /\ "value" \in Places
      /\ "running" \notin {"cached", "fallback", "raised"} /\ "running" # "delay"
      /\ "deadline" \notin {"cached", "fallback", "raised"} /\ "deadline" \notin {"running", "delay"}
      /\ "value" \notin {"cached", "fallback", "raised"} /\ "value" \notin {"running", "delay"}
      /\ "deadline" # "delay" /\ "value" # "delay"
  BY Zenon DEF Places, Ended
<1>4. CASE start
  <2>1. policy' \in Policies
    BY <1>2, <1>4, Zenon DEF start
  <2>2. CASE job.left = 0
    <3>1. job' = [at |-> "deadline", attempt |-> job.attempt, timer |-> job.timer, left |-> job.left,
                  elapsed |-> job.elapsed, retryable |-> job.retryable]
      BY <1>1, <1>4, <2>2, Zenon DEF start
    <3>2. QED
      BY <1>1, <1>2, <1>3, <2>1, <3>1, TypedCall, Zenon
  <2>3. CASE job.left # 0
    <3>1. job' = [at |-> "running", attempt |-> 1, timer |-> attempt_timeout, left |-> job.left,
                  elapsed |-> job.elapsed, retryable |-> job.retryable]
      BY <1>1, <1>4, <2>3, Zenon DEF start
    <3>2. 1 \in 0..max_attempts /\ 1 >= 1 /\ attempt_timeout \in Nat
      BY CallsAssumption
    <3>3. QED
      BY <1>1, <1>2, <1>3, <2>1, <3>1, <3>2, TypedCall, Zenon
  <2>4. QED
    BY <2>2, <2>3, Zenon
<1>5. CASE func_returns
  <2>1. job' = [at |-> "value", attempt |-> job.attempt, timer |-> job.timer, left |-> job.left,
                elapsed |-> job.elapsed, retryable |-> job.retryable]
    BY <1>1, <1>5, Zenon DEF func_returns
  <2>2. policy' \in Policies
    BY <1>2, <1>5, Zenon DEF func_returns, Policies
  <2>3. QED
    BY <1>1, <1>3, <2>1, <2>2, TypedCall, Zenon
<1>6. CASE func_raises \/ attempt_times_out
  BY <1>6, ExceptStep, Zenon DEF func_raises, attempt_times_out
<1>7. CASE delay_over
  <2>1. /\ policy' \in Policies /\ job.at = "delay"
        /\ job' = [at |-> "running", attempt |-> job.attempt + 1, timer |-> attempt_timeout, left |-> job.left,
                   elapsed |-> job.elapsed, retryable |-> job.retryable]
    BY <1>1, <1>2, <1>7, Zenon DEF delay_over
  <2>2. job.attempt + 1 \in 0..max_attempts /\ job.attempt + 1 >= 1 /\ attempt_timeout \in Nat
    BY <1>1, <2>1, CallsAssumption DEF PolicyInv
  <2>3. QED
    BY <1>1, <1>2, <1>3, <2>1, <2>2, TypedCall, Zenon
<1>8. CASE deadline_passes
  <2>1. /\ policy' \in Policies
        /\ job' = [at |-> "deadline", attempt |-> job.attempt, timer |-> job.timer, left |-> job.left,
                   elapsed |-> job.elapsed, retryable |-> job.retryable]
    BY <1>1, <1>2, <1>8, Zenon DEF deadline_passes
  <2>2. QED
    BY <1>1, <1>2, <1>3, <2>1, TypedCall, Zenon
<1>9. CASE CallTick
  <2> DEFINE left == IF job.left = NoDeadline THEN job.left ELSE job.left - 1
  <2>1. /\ policy' \in Policies /\ job.at \in {"running", "delay"} /\ job.timer > 0 /\ job.left > 0
        /\ job' = [at |-> job.at, attempt |-> job.attempt, timer |-> job.timer - 1, left |-> left,
                   elapsed |-> job.elapsed + 1, retryable |-> job.retryable]
    BY <1>1, <1>2, <1>9, Zenon DEF CallTick
  <2>2. job.timer - 1 \in Nat /\ left \in 0..NoDeadline /\ job.elapsed + 1 \in Nat
    BY <1>1, <2>1, CallsAssumption DEF NoDeadline
  <2>3. /\ job.at \in {"running", "delay"} => job.attempt >= 1
        /\ job.at = "delay" => job.attempt < max_attempts
        /\ job.at \notin {"cached", "fallback", "raised"}
    BY <2>1, Zenon DEF PolicyInv
  <2> HIDE DEF left
  <2>4. QED
    BY <1>1, <1>2, <2>1, <2>2, <2>3, TypedCall, Zenon
<1>10. CASE UNCHANGED call_vars
  BY <1>10, Zenon DEF call_vars, PolicyInv, PolicyTypeOK, SubstituteOnlyAfterAllAttempts
<1>11. QED
  BY <1>4, <1>5, <1>6, <1>7, <1>8, <1>9, <1>10, Zenon DEF PolicyNext, PolicyProgress

(* For any number of hedges and attempts, and any delays: a hedged call     *)
(* returns the first success and raises only when every attempt has failed, *)
(* with no attempt left running; and a substitute is given only after all   *)
(* attempts, or for an exception that must not be retried.                  *)
THEOREM AnswersEarnedHolds == HedgeSpec /\ PolicySpec => []AnswersEarned
<1>1. HedgeInit => HedgeInv
  <2> SUFFICES ASSUME HedgeInit
               PROVE  HedgeInv
    BY Zenon
  <2>1. hedge.at = "reading" /\ hedge.results = <<>> /\ hedge.got = <<>>
    BY Zenon DEF HedgeInit
  <2>2. HedgeTypeOK
    BY HedgesAssumption DEF HedgeInit, HedgeTypeOK, Index
  <2>3. OnePutEach(hedge.got, hedge.results)
    BY <2>1 DEF OnePutEach
  <2>4. \A k \in 1..(Len(hedge.got) - 1) : hedge.got[k][2] = "error"
    BY <2>1
  <2>5. ~Won(hedge.got)
    BY <2>1, Zenon DEF Won
  <2>6. QED
    BY <2>1, <2>2, <2>3, <2>4, <2>5, Zenon DEF HedgeInv, LosersCancelled
<1>2. HedgeInv /\ PolicyInv => AnswersEarned
  BY HedgeInvGives, Zenon DEF HedgeInv, PolicyInv, AnswersEarned
<1>3. QED
  BY <1>1, <1>2, HedgeStep, PolicyStarts, PolicyStep, PTL DEF HedgeSpec, PolicySpec
=============================================================================
