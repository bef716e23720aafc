-------------------------- MODULE ApplicationProofs --------------------------
(****************************************************************************)
(* Safety of the saga orchestrator for any number of steps, of a command in *)
(* its pipeline for every chain of middlewares, and of the units of work;   *)
(* and of two adapters, the Redis-backed circuit breaker and the WebSocket  *)
(* hub, for any policy and any number of calls and connections.             *)
(****************************************************************************)
EXTENDS SagaOrchestrator, Pipeline, RedisCircuitBreaker, WebSocketHub, TLAPS

-----------------------------------------------------------------------------
(* The saga orchestrator.                                                   *)

(* The first k steps, and no others, have taken effect. *)
Forward(k) ==
    \A i \in Steps : effect[i] = IF i <= k THEN "done" ELSE "none"

(* The compensation has come down to step k: the steps up to k are still   *)
(* in effect, no later one is, and first_error remembers a failure.        *)
Backward(k) ==
    /\ \A i \in Steps : IF i <= k THEN effect[i] = "done" ELSE effect[i] # "done"
    /\ first_error => \E i \in Steps : effect[i] = "stuck"
    /\ ~first_error => \A i \in Steps : effect[i] # "stuck"

(* What run() knows at each of its awaits. *)
AtAwait ==
    /\ pc = "start" => step = 1 /\ Forward(0) /\ ~first_error /\ record_state = None
    /\ pc = "action" =>
          /\ step >= 1 /\ Forward(step - 1) /\ ~first_error
          /\ record_state = "RUNNING" /\ record_index = step - 1
    /\ pc = "save_progress" =>
          /\ step >= 1 /\ Forward(step) /\ ~first_error
          /\ record_state = "RUNNING" /\ record_index = step - 1
    /\ pc = "save_completed" =>
          /\ step = N /\ Forward(N) /\ record_state = "RUNNING" /\ record_index = N
    /\ pc = "save_compensating" =>
          /\ failed_step >= 1 /\ Forward(step) /\ ~first_error
          /\ record_state = "RUNNING" /\ record_index \in {step - 1, step}
    /\ pc = "compensate" =>
          step >= 1 /\ failed_step >= 1 /\ Backward(step) /\ record_state = "COMPENSATING"
    /\ pc = "save_failed" =>
          failed_step >= 1 /\ Backward(0) /\ record_state = "COMPENSATING"

SagaInv ==
    /\ TypeOK
    /\ AtAwait
    /\ RecordTracksProgress
    /\ AllOrNothing
    /\ CompensationGoesOn

(* The three claims of the record hold as long as it says none of them. *)
LEMMA NothingClaimed ==
    ASSUME record_state \in {None, "COMPENSATING"}
    PROVE  RecordTracksProgress /\ AllOrNothing /\ CompensationGoesOn
BY SagaAssumption, Zenon DEF RecordTracksProgress, AllOrNothing, CompensationGoesOn

(* run() starts with no effect and no record. *)
LEMMA SagaStarts == Init => SagaInv
<1> SUFFICES ASSUME Init PROVE SagaInv
    BY Zenon
<1>1. TypeOK
    <2>1. first_error \in BOOLEAN
        BY Zenon DEF Init
    <2>2. effect \in [Steps -> {"none", "done", "undone", "stuck"}]
        BY Zenon DEF Init
    <2>3. step \in 0..N /\ failed_step \in 0..N /\ record_index \in 0..N
        BY SagaAssumption DEF Init
    <2> QED BY <2>1, <2>2, <2>3, Zenon DEF Init, TypeOK
<1>2. AtAwait
    BY SagaAssumption DEF Init, AtAwait, Forward, Steps
<1>3. RecordTracksProgress /\ AllOrNothing /\ CompensationGoesOn
    BY NothingClaimed, Zenon DEF Init
<1> QED BY <1>1, <1>2, <1>3, Zenon DEF SagaInv

(* Every step of run(), failing saves and crashes included, keeps it. *)
LEMMA SagaStep == SagaInv /\ [Next]_vars => SagaInv'
<1> SUFFICES ASSUME SagaInv, [Next]_vars PROVE SagaInv'
    BY Zenon
<1> USE SagaAssumption
<1> USE DEF SagaInv, TypeOK, AtAwait, Steps, SagaState, Ended
<1>1. CASE start
    BY <1>1 DEF start, persist, Record, Forward, RecordTracksProgress, AllOrNothing,
                CompensationGoesOn
<1>2. CASE action
    <2>1. CASE pc' = "save_progress"
        BY <1>2, <2>1 DEF action, Forward, RecordTracksProgress, AllOrNothing,
                          CompensationGoesOn
    <2>2. CASE pc' = "save_compensating"
        BY <1>2, <2>2 DEF action, Forward, RecordTracksProgress, AllOrNothing,
                          CompensationGoesOn
    <2> QED BY <1>2, <2>1, <2>2, Zenon DEF action
<1>3. CASE save_progress
    BY <1>3 DEF save_progress, persist, Record, Forward, RecordTracksProgress,
                AllOrNothing, CompensationGoesOn
<1>4. CASE save_progress_fails
    BY <1>4 DEF save_progress_fails, maybe_persist, persist, Record, Forward,
                RecordTracksProgress, AllOrNothing, CompensationGoesOn
<1>5. CASE save_compensating
    BY <1>5 DEF save_compensating, persist, Record, Forward, Backward,
                RecordTracksProgress, AllOrNothing, CompensationGoesOn
<1>6. CASE compensate
    <2> PICK e \in {"undone", "stuck"} :
            /\ effect' = [effect EXCEPT ![step] = e]
            /\ first_error' = (first_error \/ e = "stuck")
        BY <1>6, Zenon DEF compensate
    <2>1. Backward(step)'
        <3>1. \A i \in Steps : IF i <= step' THEN effect'[i] = "done" ELSE effect'[i] # "done"
            BY <1>6 DEF compensate, Backward
        <3>2. CASE e = "stuck"
            <4>1. first_error'
                BY <3>2, Zenon
            <4>2. effect'[step] = "stuck" /\ step \in Steps
                BY <1>6, <3>2 DEF compensate
            <4> QED BY <3>1, <4>1, <4>2, Zenon DEF Backward
        <3>3. CASE e = "undone"
            <4>1. first_error' = first_error
                BY <3>3, Zenon DEF SagaInv, TypeOK
            <4>2. \A i \in Steps : effect'[i] = "stuck" <=> effect[i] = "stuck"
                BY <1>6, <3>3 DEF compensate, Backward
            <4> QED BY <1>6, <3>1, <4>1, <4>2 DEF Backward, compensate
        <3> QED BY <3>2, <3>3, Zenon
    <2>2. TypeOK'
        BY <1>6 DEF compensate
    <2>3. (RecordTracksProgress /\ AllOrNothing /\ CompensationGoesOn)'
        BY <1>6, Zenon DEF compensate, RecordTracksProgress, AllOrNothing, CompensationGoesOn
    <2>4. AtAwait'
        BY <1>6, <2>1 DEF compensate, Backward
    <2> QED BY <2>2, <2>3, <2>4, Zenon
<1>7. CASE save_failed
    BY <1>7 DEF save_failed, persist, Record, Backward, RecordTracksProgress,
                AllOrNothing, CompensationGoesOn
<1>8. CASE save_completed
    BY <1>8 DEF save_completed, persist, Record, Forward, RecordTracksProgress,
                AllOrNothing, CompensationGoesOn
<1>9. CASE save_fails
    BY <1>9 DEF save_fails, Saves, maybe_persist, persist, Record, Forward, Backward,
                RecordTracksProgress, AllOrNothing, CompensationGoesOn
<1>10. CASE crash
    BY <1>10 DEF crash, Saves, maybe_persist, persist, Record, Forward, Backward,
                RecordTracksProgress, AllOrNothing, CompensationGoesOn
<1>11. CASE UNCHANGED vars
    BY <1>11 DEF vars, Forward, Backward, RecordTracksProgress, AllOrNothing,
                 CompensationGoesOn
<1> QED BY <1>1, <1>2, <1>3, <1>4, <1>5, <1>6, <1>7, <1>8, <1>9, <1>10, <1>11, Zenon DEF Next

(* The inductive invariant holds in every reachable state. *)
LEMMA SagaInvHolds == Spec => []SagaInv
BY SagaStarts, SagaStep, PTL DEF Spec

(* The variables of run() and the saga record keep their types. *)
THEOREM TypeCorrect == Spec => []TypeOK
<1>1. SagaInv => TypeOK
    BY Zenon DEF SagaInv
<1> QED BY <1>1, SagaInvHolds, PTL

(* A RUNNING record found after a crash tells how far the saga got. *)
THEOREM RecordCorrect == Spec => []RecordTracksProgress
<1>1. SagaInv => RecordTracksProgress
    BY Zenon DEF SagaInv
<1> QED BY <1>1, SagaInvHolds, PTL

(* A COMPLETED record means all effects, a FAILED one means none. *)
THEOREM AllOrNothingCorrect == Spec => []AllOrNothing
<1>1. SagaInv => AllOrNothing
    BY Zenon DEF SagaInv
<1> QED BY <1>1, SagaInvHolds, PTL

(* A failing compensation does not keep the others from running. *)
THEOREM CompensationCorrect == Spec => []CompensationGoesOn
<1>1. SagaInv => CompensationGoesOn
    BY Zenon DEF SagaInv
<1> QED BY <1>1, SagaInvHolds, PTL

(* In every state the record tells what the steps have done. *)
THEOREM TruthCorrect == Spec => []RecordTellsTheTruth
<1>1. SagaInv => RecordTellsTheTruth
    BY Zenon DEF SagaInv, RecordTellsTheTruth
<1> QED BY <1>1, SagaInvHolds, PTL

(* Steps are compensated in reverse order, whatever happens on the way. *)
THEOREM OrderCorrect == Spec => ReverseOrder
<1>1. SagaInv /\ [Next]_vars =>
         [\A i \in Steps : effect[i] = "done" /\ effect'[i] # "done" =>
             \A j \in Steps : j > i => effect[j] # "done"]_vars
    <2> SUFFICES ASSUME SagaInv, Next,
                        NEW i \in Steps, effect[i] = "done", effect'[i] # "done",
                        NEW j \in Steps, j > i
                 PROVE  effect[j] # "done"
        BY Zenon
    <2> USE SagaAssumption DEF SagaInv, TypeOK, Steps
    <2>1. pc = "compensate" /\ i = step
        BY Zenon DEF Next, start, action, save_progress, save_progress_fails,
               save_compensating, compensate, save_failed, save_completed,
               save_fails, crash
    <2> QED BY <2>1 DEF AtAwait, Backward
<1> QED BY <1>1, SagaInvHolds, PTL DEF Spec, ReverseOrder

-----------------------------------------------------------------------------
(* The pipeline.                                                            *)

(* The call is inside the middleware at i: it has passed it on the way in   *)
(* and not yet on the way out.                                              *)
Within(i) == at > i \/ (at = i /\ outcome # "in")

(* No middleware of these kinds is outside the one of kind k. *)
Sheltered(kinds, k) == \A l \in kinds : ~Outside(l, k)

(* Passes are counted but for the one under way. *)
CountInv ==
    Sheltered({"timeout"}, "metrics") =>
        marks.passes = marks.counted + (IF \E i \in Pos("metrics") : Within(i) THEN 1 ELSE 0)

(* What comes out of the audit middleware is audited. *)
AuditInv ==
    Sheltered({"timeout", "authz", "validation"}, "audit") /\ ~upset =>
        \A i \in Pos("audit") : at < i /\ outcome # "in" => marks.audited >= 1

(* A success that comes out of the unit of work is committed, and after the *)
(* first commit the call is on its way out with a success.                  *)
CommitInv ==
    /\ \A i \in Pos("uow") : at < i /\ outcome = "ok" => marks.committed >= 1
    /\ ~upset /\ marks.committed > 0 =>
          marks.committed = 1 /\ outcome = "ok" /\ \A i \in Pos("uow") : at < i

(* A cancellation is seen only up to the timeout middleware that caused it. *)
PlaceInv ==
    /\ ChainTypeOK
    /\ \A i, j \in 1..Size : chain[i] = chain[j] => i = j
    /\ at = 0 => outcome # "in"
    /\ at = Size + 1 => outcome = "in"
    /\ outcome = "cancelled" => \E i \in Pos("timeout") : i <= at

ChainInv == PlaceInv /\ CountInv /\ AuditInv /\ CommitInv

(* The chain is built once: the places of its middlewares stay. *)
LEMMA ChainKept ==
    ASSUME chain' = chain
    PROVE  /\ Size' = Size /\ \A k : Pos(k)' = Pos(k)
           /\ \A l, k : Outside(l, k)' = Outside(l, k)
           /\ \A S, k : Sheltered(S, k)' = Sheltered(S, k)
  BY Zenon DEF Size, Pos, Outside, Sheltered

(* A command that is about to enter its chain satisfies the invariant. *)
LEMMA ChainStarts == ChainInit => ChainInv
<1> SUFFICES ASSUME ChainInit
             PROVE  ChainInv
  BY Zenon
<1>1. chain \in Seq(Kinds) /\ Size \in Nat /\ Size >= 1
  <2>1. PICK l \in 1..MaxLength : chain \in [1..l -> Kinds]
    BY Zenon DEF ChainInit
  <2>2. l \in Nat /\ l >= 1
    BY <2>1, PipelineAssumption
  <2>3. chain \in Seq(Kinds) /\ Len(chain) = l
    BY <2>1, <2>2
  <2>4. QED
    BY <2>2, <2>3, Zenon DEF Size
<1>2. PlaceInv
  <2>1. at \in 0..(Size + 1) /\ outcome \in {"in", "ok", "error", "cancelled"} /\ tries \in 1..max_attempts
    BY <1>1, PipelineAssumption DEF ChainInit
  <2>2. upset \in BOOLEAN
    BY Zenon DEF ChainInit
  <2>3. marks \in [committed : Nat, audited : Nat, counted : Nat, passes : Nat]
    BY Zenon DEF ChainInit
  <2>4. ChainTypeOK
    BY <1>1, <2>1, <2>2, <2>3, Zenon DEF ChainTypeOK
  <2>5. /\ \A i, j \in 1..Size : chain[i] = chain[j] => i = j
        /\ at = 1 /\ outcome = "in"
    BY Zenon DEF ChainInit
  <2>6. QED
    BY <1>1, <2>4, <2>5 DEF PlaceInv
<1>3. CountInv
  BY <1>1 DEF ChainInit, CountInv, Pos, Within
<1>4. AuditInv /\ CommitInv
  BY DEF ChainInit, AuditInv, CommitInv
<1>5. QED
  BY <1>2, <1>3, <1>4, Zenon DEF ChainInv

(* What the types say, for the provers. *)
LEMMA ChainTypes ==
    ASSUME PlaceInv
    PROVE  /\ Size \in Nat /\ at \in Nat /\ at <= Size + 1
           /\ marks.committed \in Nat /\ marks.audited \in Nat
           /\ marks.counted \in Nat /\ marks.passes \in Nat
           /\ outcome \in {"in", "ok", "error", "cancelled"}
           /\ \A k : Pos(k) \subseteq 1..Size
           /\ \A k : \A i \in Pos(k) : i \in Nat /\ i >= 1 /\ i <= Size /\ chain[i] = k
           /\ \A k : \A i, j \in Pos(k) : i = j
<1>1. Size \in Nat
  BY DEF PlaceInv, ChainTypeOK, Size
<1>2. \A k : Pos(k) \subseteq 1..Size
  BY Zenon DEF Pos
<1>3. \A k : \A i \in Pos(k) : i \in Nat /\ i >= 1 /\ i <= Size /\ chain[i] = k
  BY <1>1 DEF Pos
<1>4. \A k : \A i, j \in Pos(k) : i = j
  BY Zenon DEF Pos, PlaceInv
<1>5. at \in Nat /\ at <= Size + 1 /\ outcome \in {"in", "ok", "error", "cancelled"}
  BY <1>1 DEF PlaceInv, ChainTypeOK
<1>6. /\ marks.committed \in Nat /\ marks.audited \in Nat
      /\ marks.counted \in Nat /\ marks.passes \in Nat
  BY Zenon DEF PlaceInv, ChainTypeOK
<1>7. QED
  BY <1>1, <1>2, <1>3, <1>4, <1>5, <1>6, Zenon

(* A step moves the call one place in, one place out, or cancels it where   *)
(* it is.                                                                   *)
Moves ==
    \/ /\ at' = at + 1 /\ outcome' = "in" /\ at \in 1..Size
       /\ outcome = "in" \/ (outcome = "error" /\ at \in Pos("retry"))
    \/ /\ at' = at - 1 /\ outcome' # "in" /\ at \in 1..(Size + 1)
       /\ outcome' = "cancelled" =>
             \/ \E i \in Pos("timeout") : i < at
             \/ outcome = "cancelled" /\ at \notin Pos("timeout")
    \/ /\ at' = at /\ outcome' = "cancelled" /\ outcome # "in"
       /\ \E i \in Pos("timeout") : i < at

(* Every action of the chain is such a move. *)
LEMMA EveryStepMoves ==
    ASSUME PlaceInv, ChainNext
    PROVE  Moves /\ chain' = chain
<1>0. /\ Size \in Nat /\ at \in Nat /\ \A k : Pos(k) \subseteq 1..Size
      /\ \A k : \A i \in Pos(k) : i \in Nat /\ chain[i] = k
  BY ChainTypes, Zenon
<1>1. CASE handle
  BY <1>0, <1>1 DEF handle, Outward, Moves
<1>2. CASE enter
  BY <1>0, <1>2 DEF enter, Inward, Outward, Moves
<1>3. CASE leave_plain
  BY <1>0, <1>3 DEF leave_plain, Outward, Moves
<1>4. CASE leave_metrics
  BY <1>0, <1>4 DEF leave_metrics, Out, Outward, Moves
<1>5. CASE leave_audit
  BY <1>0, <1>5 DEF leave_audit, Out, Outward, Moves
<1>6. CASE leave_uow
  BY <1>0, <1>6 DEF leave_uow, Out, Outward, Moves
<1>7. CASE leave_retry
  BY <1>0, <1>7 DEF leave_retry, Out, Outward, Moves
<1>8. CASE timeout
  BY <1>0, <1>8, ChainTypes DEF timeout, Moves
<1>9. CASE leave_timeout
  BY <1>0, <1>9 DEF leave_timeout, Out, Outward, Moves
<1>10. QED
  BY <1>1, <1>2, <1>3, <1>4, <1>5, <1>6, <1>7, <1>8, <1>9, Zenon DEF ChainNext

(* The places and the types are kept. *)
LEMMA PlaceKept ==
    ASSUME PlaceInv, ChainNext
    PROVE  PlaceInv'
<1>0. /\ Size \in Nat /\ at \in Nat /\ at <= Size + 1 /\ \A k : Pos(k) \subseteq 1..Size
      /\ outcome \in {"in", "ok", "error", "cancelled"}
  BY ChainTypes, Zenon
<1>1. Moves /\ chain' = chain
  BY EveryStepMoves, Zenon
<1>2. Size' = Size /\ \A k : Pos(k)' = Pos(k)
  BY <1>1, ChainKept, Zenon
<1>3. at' \in 0..(Size + 1) /\ (at' = 0 => outcome' # "in") /\ (at' = Size + 1 => outcome' = "in")
  BY <1>0, <1>1 DEF Moves, PlaceInv
<1>4. outcome' = "cancelled" => \E i \in Pos("timeout") : i <= at'
  <2>1. SUFFICES ASSUME outcome' = "cancelled" PROVE \E i \in Pos("timeout") : i <= at'
    BY Zenon
  <2>2. CASE \E i \in Pos("timeout") : i < at
    BY <1>0, <1>1, <2>1, <2>2 DEF Moves
  <2>3. CASE at' = at - 1 /\ outcome = "cancelled" /\ at \notin Pos("timeout")
    <3>1. PICK i \in Pos("timeout") : i <= at
      BY <2>3, Zenon DEF PlaceInv
    <3>2. i # at /\ i \in Nat
      BY <1>0, <2>3, <3>1
    <3>3. QED
      BY <1>0, <2>3, <3>1, <3>2
  <2>4. QED
    BY <1>1, <2>1, <2>2, <2>3, Zenon DEF Moves
<1>5. outcome' \in {"in", "ok", "error", "cancelled"}
  BY <1>0, Zenon DEF ChainNext, handle, enter, leave_plain, leave_metrics, leave_audit, leave_uow,
              leave_retry, timeout, leave_timeout, Inward, Outward
<1>6. tries' \in 1..max_attempts
  BY PipelineAssumption DEF PlaceInv, ChainTypeOK, ChainNext, handle, enter, leave_plain,
         leave_metrics, leave_audit, leave_uow, leave_retry, timeout, leave_timeout
<1>7. upset' \in BOOLEAN
  BY Zenon DEF PlaceInv, ChainTypeOK, ChainNext, handle, enter, leave_plain,
         leave_metrics, leave_audit, leave_uow, leave_retry, timeout, leave_timeout
<1>8. marks' \in [committed : Nat, audited : Nat, counted : Nat, passes : Nat]
  <2>1. \/ marks' = marks
        \/ marks' = [marks EXCEPT !.passes = marks.passes + 1]
        \/ marks' = [marks EXCEPT !.counted = marks.counted + 1]
        \/ marks' = [marks EXCEPT !.audited = marks.audited + 1]
        \/ marks' = [marks EXCEPT !.committed = marks.committed + 1]
    BY Zenon DEF ChainNext, handle, enter, leave_plain, leave_metrics, leave_audit, leave_uow,
                 leave_retry, timeout, leave_timeout
  <2>2. marks \in [committed : Nat, audited : Nat, counted : Nat, passes : Nat]
    BY Zenon DEF PlaceInv, ChainTypeOK
  <2>3. QED
    BY <2>1, <2>2
<1>9. chain' \in Seq(Kinds) /\ \A i, j \in 1..Size' : chain'[i] = chain'[j] => i = j
  BY <1>1, <1>2, Zenon DEF PlaceInv, ChainTypeOK
<1>10. ChainTypeOK'
  BY <1>2, <1>3, <1>5, <1>6, <1>7, <1>8, <1>9, Zenon DEF ChainTypeOK
<1>11. QED
  BY <1>2, <1>3, <1>4, <1>9, <1>10, Zenon DEF PlaceInv

(* A step that neither enters nor leaves the metrics middleware leaves the  *)
(* call on the side of it where it was.                                     *)
LEMMA OtherStepsKeepSides ==
    ASSUME PlaceInv, ChainNext, NEW i \in Pos("metrics"),
           ~leave_metrics, ~(enter /\ at = i)
    PROVE  Within(i)' = Within(i)
<1>0. /\ Size \in Nat /\ at \in Nat /\ at <= Size + 1 /\ i \in 1..Size /\ chain[i] = "metrics"
      /\ \A k : \A j \in Pos(k) : j \in 1..Size /\ chain[j] = k
  BY ChainTypes, Zenon
<1>1. Moves
  BY EveryStepMoves, Zenon
<1>2. at = i => timeout
  BY <1>0 DEF ChainNext, handle, leave_plain, leave_audit, leave_uow, leave_retry, leave_timeout, Out
<1>3. timeout => at' = (IF outcome = "in" THEN at - 1 ELSE at) /\ outcome' = "cancelled"
  BY Zenon DEF timeout
<1>4. (at' > i \/ (at' = i /\ outcome' # "in")) <=> (at > i \/ (at = i /\ outcome # "in"))
  BY <1>0, <1>1, <1>2, <1>3 DEF Moves, PlaceInv
<1>5. QED
  BY <1>4, Zenon DEF Within

(* Passes and counts move together. *)
LEMMA CountKept ==
    ASSUME PlaceInv, CountInv, ChainNext
    PROVE  CountInv'
<1>0. /\ Size \in Nat /\ at \in Nat /\ marks.counted \in Nat /\ marks.passes \in Nat
      /\ \A k : \A j \in Pos(k) : j \in 1..Size /\ chain[j] = k
      /\ \A k : \A j, l \in Pos(k) : j = l
      /\ marks \in [committed : Nat, audited : Nat, counted : Nat, passes : Nat]
  BY ChainTypes, Zenon DEF PlaceInv, ChainTypeOK
<1>1. chain' = chain
  BY EveryStepMoves, Zenon
<1>2. Pos("metrics")' = Pos("metrics") /\ Sheltered({"timeout"}, "metrics")' = Sheltered({"timeout"}, "metrics")
  BY <1>1, ChainKept, Zenon
<1>3. SUFFICES ASSUME Sheltered({"timeout"}, "metrics")
               PROVE  marks'.passes = marks'.counted
                          + (IF \E i \in Pos("metrics") : Within(i)' THEN 1 ELSE 0)
  BY <1>2, Zenon DEF CountInv
<1>4. marks.passes = marks.counted + (IF \E i \in Pos("metrics") : Within(i) THEN 1 ELSE 0)
  BY <1>3, Zenon DEF CountInv
<1>5. CASE leave_metrics
  <2>1. at \in Pos("metrics") /\ outcome # "in" /\ at' = at - 1
    BY <1>5, Zenon DEF leave_metrics, Out, Outward
  <2>2. outcome # "cancelled"
    <3>1. SUFFICES ASSUME outcome = "cancelled" PROVE FALSE
      BY Zenon
    <3>2. PICK i \in Pos("timeout") : i <= at
      BY <3>1, Zenon DEF PlaceInv
    <3>3. i # at /\ i \in Nat
      BY <1>0, <2>1, <3>2
    <3>4. QED
      BY <1>0, <1>3, <2>1, <3>2, <3>3 DEF Sheltered, Outside
  <2>3. marks'.passes = marks.passes /\ marks'.counted = marks.counted + 1
    BY <1>0, <1>5, <2>2, Zenon DEF leave_metrics
  <2>4. \E i \in Pos("metrics") : Within(i)
    BY <2>1, Zenon DEF Within
  <2>5. \A i \in Pos("metrics") : ~Within(i)'
    BY <1>0, <2>1 DEF Within
  <2>6. QED
    BY <1>0, <1>4, <2>3, <2>4, <2>5
<1>6. CASE enter /\ at \in Pos("metrics")
  <2>1. chain[at] = "metrics" /\ at' = at + 1 /\ outcome = "in"
    BY <1>0, <1>6, Zenon DEF enter, Inward
  <2>2. marks'.passes = marks.passes + 1 /\ marks'.counted = marks.counted
    BY <1>0, <1>6, <2>1, Zenon DEF enter
  <2>3. \A i \in Pos("metrics") : ~Within(i)
    BY <1>0, <1>6, <2>1 DEF Within
  <2>4. \E i \in Pos("metrics") : Within(i)'
    BY <1>0, <1>6, <2>1 DEF Within
  <2>5. QED
    BY <1>0, <1>4, <2>2, <2>3, <2>4
<1>7. CASE ~leave_metrics /\ ~(enter /\ at \in Pos("metrics"))
  <2>1. marks'.passes = marks.passes /\ marks'.counted = marks.counted
    <3>1. enter => chain[at] # "metrics"
      BY <1>7, Zenon DEF enter, Pos
    <3>2. QED
      BY <1>0, <1>7, <3>1, Zenon DEF ChainNext, handle, enter, leave_plain, leave_audit, leave_uow,
                              leave_retry, timeout, leave_timeout
  <2>2. \A i \in Pos("metrics") : Within(i)' = Within(i)
    BY <1>7, OtherStepsKeepSides, Zenon
  <2>3. QED
    BY <1>4, <2>1, <2>2, Zenon
<1>8. QED
  BY <1>5, <1>6, <1>7, Zenon

(* What comes out of the audit middleware is audited. *)
LEMMA AuditKept ==
    ASSUME PlaceInv, AuditInv, ChainNext
    PROVE  AuditInv'
<1> DEFINE outer == {"timeout", "authz", "validation"}
<1>0. /\ Size \in Nat /\ at \in Nat /\ marks.audited \in Nat
      /\ \A k : \A j \in Pos(k) : j \in 1..Size /\ chain[j] = k
      /\ \A k : \A j, l \in Pos(k) : j = l
      /\ marks \in [committed : Nat, audited : Nat, counted : Nat, passes : Nat]
  BY ChainTypes, Zenon DEF PlaceInv, ChainTypeOK
<1>1. chain' = chain
  BY EveryStepMoves, Zenon
<1>2. Pos("audit")' = Pos("audit") /\ Sheltered(outer, "audit")' = Sheltered(outer, "audit")
  BY <1>1, ChainKept, Zenon
<1>3. SUFFICES ASSUME Sheltered(outer, "audit"), ~upset', NEW i \in Pos("audit"),
                      at' < i, outcome' # "in"
               PROVE  marks'.audited >= 1
  BY <1>2, Zenon DEF AuditInv
<1>4. \A k \in outer : \A j \in Pos(k) : ~(j < i)
  BY <1>3, Zenon DEF Sheltered, Outside
<1>5. i \in 1..Size /\ chain[i] = "audit"
  BY <1>0, Zenon
<1>6. CASE leave_audit
  <2>1. at \in Pos("audit") /\ outcome # "in" /\ at = i
    BY <1>0, <1>6, Zenon DEF leave_audit, Out
  <2>2. outcome # "cancelled"
    <3>1. SUFFICES ASSUME outcome = "cancelled" PROVE FALSE
      BY Zenon
    <3>2. PICK j \in Pos("timeout") : j <= at
      BY <3>1, Zenon DEF PlaceInv
    <3>3. j # at /\ j \in Nat
      BY <1>0, <1>5, <2>1, <3>2
    <3>4. QED
      BY <1>0, <1>4, <2>1, <3>2, <3>3
  <2>3. marks'.audited = marks.audited + 1
    BY <1>0, <1>3, <1>6, <2>2, Zenon DEF leave_audit
  <2>4. QED
    BY <1>0, <2>3
<1>7. CASE ~leave_audit
  <2>1. ~upset
    BY <1>3, <1>7, Zenon DEF ChainNext, handle, enter, leave_plain, leave_metrics, leave_uow,
                      leave_retry, timeout, leave_timeout
  <2>2. marks'.audited = marks.audited
    BY <1>0, <1>7 DEF ChainNext, handle, enter, leave_plain, leave_metrics, leave_uow,
                      leave_retry, timeout, leave_timeout
  <2>3. at < i /\ outcome # "in"
    <3>1. CASE handle
      BY <1>0, <1>3, <1>5, <3>1 DEF handle, Outward
    <3>2. CASE enter
      <4>1. chain[at] \in {"authz", "validation"} /\ at' = at - 1 /\ at \in 1..Size
        BY <1>3, <3>2, Zenon DEF enter, Inward, Outward
      <4>2. at # i /\ at \in Pos(chain[at])
        BY <1>5, <4>1, Zenon DEF Pos
      <4>3. QED
        BY <1>0, <1>3, <1>4, <1>5, <4>1, <4>2
    <3>3. CASE timeout
      <4>1. PICK j \in Pos("timeout") : at > j
        BY <3>3, Zenon DEF timeout
      <4>2. at' >= j /\ j \in Nat
        BY <1>0, <3>3, <4>1 DEF timeout
      <4>3. QED
        BY <1>0, <1>3, <1>4, <1>5, <4>1, <4>2, <3>3 DEF timeout
    <3>4. CASE leave_plain \/ leave_metrics \/ leave_uow \/ leave_retry \/ leave_timeout
      <4>1. at # i /\ outcome # "in" /\ at' = at - 1
        BY <1>0, <1>3, <1>5, <3>4 DEF leave_plain, leave_metrics, leave_uow, leave_retry,
                                      leave_timeout, Out, Outward
      <4>2. QED
        BY <1>0, <1>3, <1>5, <4>1
    <3>5. QED
      BY <1>7, <3>1, <3>2, <3>3, <3>4, Zenon DEF ChainNext
  <2>4. QED
    BY <1>0, <1>3, <2>1, <2>2, <2>3, Zenon DEF AuditInv
<1>8. QED
  BY <1>6, <1>7, Zenon

(* A success is committed, and committed once. *)
LEMMA CommitKept ==
    ASSUME PlaceInv, CommitInv, ChainNext
    PROVE  CommitInv'
<1>0. /\ Size \in Nat /\ at \in Nat /\ marks.committed \in Nat
      /\ \A k : \A j \in Pos(k) : j \in 1..Size /\ chain[j] = k
      /\ \A k : \A j, l \in Pos(k) : j = l
      /\ marks \in [committed : Nat, audited : Nat, counted : Nat, passes : Nat]
  BY ChainTypes, Zenon DEF PlaceInv, ChainTypeOK
<1>1. Pos("uow")' = Pos("uow")
  BY EveryStepMoves, ChainKept, Zenon
<1>2. CASE leave_uow
  <2>1. at \in Pos("uow") /\ at' = at - 1 /\ upset' = upset
    BY <1>2, Zenon DEF leave_uow, Out, Outward
  <2>2. \A i \in Pos("uow") : i = at /\ at' < i
    BY <1>0, <2>1
  <2>3. \/ outcome' = "ok" /\ marks'.committed = marks.committed + 1
        \/ outcome' # "ok" /\ marks'.committed = marks.committed
    BY <1>0, <1>2, Zenon DEF leave_uow, Commits, Outward
  <2>4. ~upset => marks.committed = 0
    BY <1>0, <2>1 DEF CommitInv
  <2>5. \A i \in Pos("uow") : at' < i /\ outcome' = "ok" => marks'.committed >= 1
    BY <1>0, <2>3
  <2>6. ASSUME ~upset', marks'.committed > 0
        PROVE  marks'.committed = 1 /\ outcome' = "ok"
    <3>1. marks.committed = 0
      BY <2>1, <2>4, <2>6, Zenon
    <3>2. QED
      BY <2>3, <2>6, <3>1
  <2>7. QED
    BY <1>1, <2>2, <2>5, <2>6, Zenon DEF CommitInv
<1>3. CASE ~leave_uow
  <2>1. marks'.committed = marks.committed
    BY <1>0, <1>3, Zenon DEF ChainNext, handle, enter, leave_plain, leave_metrics, leave_audit,
                      leave_retry, timeout, leave_timeout
  <2>2. \A i \in Pos("uow") : at' < i /\ outcome' = "ok" => at < i /\ outcome = "ok"
    <3>1. CASE handle
      BY <1>0, <3>1 DEF handle, Outward
    <3>2. CASE enter \/ timeout
      BY <3>2, Zenon DEF enter, timeout, Inward, Outward
    <3>3. CASE leave_plain \/ leave_metrics \/ leave_audit \/ leave_retry \/ leave_timeout
      <4>1. /\ \A i \in Pos("uow") : at # i
            /\ outcome' = "ok" => outcome = "ok" /\ at' = at - 1
        BY <1>0, <3>3 DEF leave_plain, leave_metrics, leave_audit, leave_retry,
                          leave_timeout, Out, Outward
      <4>2. QED
        BY <1>0, <4>1
    <3>4. QED
      BY <1>3, <3>1, <3>2, <3>3, Zenon DEF ChainNext
  <2>3. \A i \in Pos("uow") : at' < i /\ outcome' = "ok" => marks'.committed >= 1
    BY <2>1, <2>2, Zenon DEF CommitInv
  <2>4. ASSUME ~upset', marks'.committed > 0
        PROVE  marks'.committed = 1 /\ outcome' = "ok" /\ \A i \in Pos("uow") : at' < i
    <3>1. ~upset /\ ~timeout
      <4>1. marks.committed > 0
        BY <2>1, <2>4, Zenon
      <4>2. ~timeout
        BY <2>4, <4>1, Zenon DEF timeout
      <4>3. upset => upset'
        BY <1>3, <4>2, Zenon DEF ChainNext, handle, enter, leave_plain, leave_metrics,
                                 leave_audit, leave_retry, leave_timeout
      <4>4. QED
        BY <2>4, <4>2, <4>3, Zenon
    <3>2. marks.committed = 1 /\ outcome = "ok" /\ \A i \in Pos("uow") : at < i
      BY <2>1, <2>4, <3>1, Zenon DEF CommitInv
    <3>3. outcome' = "ok" /\ at' = at - 1
      BY <1>3, <2>4, <3>1, <3>2, Zenon DEF ChainNext, handle, enter, leave_plain, leave_metrics,
                        leave_audit, leave_retry, leave_timeout, Outward
    <3>4. QED
      BY <1>0, <2>1, <3>2, <3>3
  <2>5. QED
    BY <1>1, <2>3, <2>4, Zenon DEF CommitInv
<1>4. QED
  BY <1>2, <1>3, Zenon

(* Every step of a command keeps the invariant. *)
LEMMA ChainStep == ChainInv /\ [ChainNext]_pipeline_vars => ChainInv'
<1>1. CASE ChainNext
  BY <1>1, PlaceKept, CountKept, AuditKept, CommitKept, Zenon DEF ChainInv
<1>2. CASE UNCHANGED pipeline_vars
  BY <1>2 DEF pipeline_vars, ChainInv, PlaceInv, CountInv, AuditInv, CommitInv, ChainTypeOK,
              Sheltered, Outside, Within, Pos, Size
<1>3. QED
  BY <1>1, <1>2, Zenon

(* The invariant is what is promised of a command that is over. *)
LEMMA ChainPromise ==
    ASSUME ChainInv
    PROVE  ChainTypeOK /\ CountedUnlessCancelled /\ AuditedUnlessCancelled /\ CommittedOnce
<1>0. /\ at \in Nat /\ marks.committed \in Nat /\ marks.counted \in Nat
      /\ \A k : \A i \in Pos(k) : i \in Nat /\ i >= 1
  BY ChainTypes, Zenon DEF ChainInv
<1>1. CountedUnlessCancelled
  <2>1. SUFFICES ASSUME at = 0, ~Outside("timeout", "metrics") PROVE marks.counted = marks.passes
    BY Zenon DEF CountedUnlessCancelled, CommandOver
  <2>2. ~\E i \in Pos("metrics") : Within(i)
    BY <1>0, <2>1 DEF Within
  <2>3. QED
    BY <1>0, <2>1, <2>2 DEF ChainInv, CountInv, Sheltered
<1>2. AuditedUnlessCancelled
  <2>1. SUFFICES ASSUME at = 0, Has("audit"), ~Outside("timeout", "audit"), ~upset,
                        ~Outside("authz", "audit"), ~Outside("validation", "audit")
                 PROVE  marks.audited >= 1
    BY Zenon DEF AuditedUnlessCancelled, CommandOver
  <2>2. PICK i \in Pos("audit") : TRUE
    BY <2>1, Zenon DEF Has
  <2>3. at < i /\ outcome # "in"
    BY <1>0, <2>1, <2>2 DEF ChainInv, PlaceInv
  <2>4. Sheltered({"timeout", "authz", "validation"}, "audit")
    BY <2>1, Zenon DEF Sheltered
  <2>5. QED
    BY <2>1, <2>2, <2>3, <2>4, Zenon DEF ChainInv, AuditInv
<1>3. CommittedOnce
  <2>1. at = 0 /\ outcome = "ok" /\ Has("uow") => marks.committed >= 1
    BY <1>0 DEF ChainInv, CommitInv, Has
  <2>2. ~upset => marks.committed <= 1
    BY <1>0 DEF ChainInv, CommitInv
  <2>3. QED
    BY <2>1, <2>2, Zenon DEF CommittedOnce, CommandOver
<1>4. QED
  BY <1>1, <1>2, <1>3, Zenon DEF ChainInv, PlaceInv

-----------------------------------------------------------------------------
(* The units of work.                                                       *)

(* What becomes of a session whose block is left. *)
Settled(i) ==
    /\ sessions[i].work # "pending"
    /\ sessions[i].status = "closed" \/ (broke /\ kind = "sqlalchemy")

(* A block in progress has the session it uses; and as long as no block is  *)
(* entered inside another, every session but the one in use is settled.     *)
UowInv ==
    /\ UowTypeOK /\ Len(sessions) <= MaxSessions
    /\ depth # <<>> => session \in 1..Len(sessions)
    /\ ~nested => /\ Len(depth) <= 1
                  /\ \A i \in DOMAIN sessions : Settled(i) \/ (depth # <<>> /\ i = session)

Session == [status : {"open", "closed"}, work : {"none", "pending", "kept", "undone"}]

(* A unit of work begins with no session. *)
LEMMA UowStarts == UowInit => UowInv
<1> SUFFICES ASSUME UowInit
             PROVE  UowInv
  BY Zenon
<1>1. nested \in BOOLEAN /\ broke \in BOOLEAN
  BY Zenon DEF UowInit
<1>2. /\ kind \in {"sqlalchemy", "mongo"} /\ session \in 0..MaxSessions
      /\ sessions \in Seq(Session) /\ depth \in Seq(1..MaxSessions)
      /\ Len(sessions) = 0 /\ Len(depth) = 0 /\ depth = <<>> /\ DOMAIN sessions = {}
  BY SessionsAssumption DEF UowInit
<1>3. UowTypeOK
  BY <1>1, <1>2, Zenon DEF UowTypeOK, Session
<1>4. QED
  BY <1>2, <1>3, SessionsAssumption DEF UowInv

(* A sequence with one element replaced. *)
LEMMA Replaced ==
    ASSUME NEW S, NEW s \in Seq(S), NEW i \in 1..Len(s), NEW v \in S
    PROVE  LET t == [s EXCEPT ![i] = v] IN
           /\ t \in Seq(S) /\ Len(t) = Len(s) /\ DOMAIN t = DOMAIN s /\ t[i] = v
           /\ \A j \in DOMAIN s : j # i => t[j] = s[j]
  OBVIOUS

(* The beginning of a sequence. *)
LEMMA Beginning ==
    ASSUME NEW S, NEW s \in Seq(S), NEW n \in 0..Len(s)
    PROVE  SubSeq(s, 1, n) \in Seq(S) /\ Len(SubSeq(s, 1, n)) = n
  OBVIOUS

(* A sequence without its last element. *)
LEMMA WithoutLast ==
    ASSUME NEW S, NEW s \in Seq(S), s # <<>>
    PROVE  LET t == SubSeq(s, 1, Len(s) - 1) IN
           /\ t \in Seq(S) /\ Len(t) = Len(s) - 1 /\ (Len(s) <= 1 => t = <<>>)
<1>1. Len(s) - 1 \in 0..Len(s)
  OBVIOUS
<1>2. SubSeq(s, 1, Len(s) - 1) \in Seq(S) /\ Len(SubSeq(s, 1, Len(s) - 1)) = Len(s) - 1
  BY <1>1, Beginning, Zenon
<1>3. Len(s) <= 1 => SubSeq(s, 1, Len(s) - 1) = <<>>
  BY <1>1, <1>2
<1>4. QED
  BY <1>2, <1>3, Zenon

(* Each operation of a unit of work keeps the invariant. *)
LEMMA UowStep == UowInv /\ [UowNext]_uow_vars => UowInv'
<1> SUFFICES ASSUME UowInv, [UowNext]_uow_vars
             PROVE  UowInv'
  BY Zenon
<1>0. /\ kind \in {"sqlalchemy", "mongo"} /\ session \in 0..MaxSessions
      /\ sessions \in Seq(Session) /\ depth \in Seq(1..MaxSessions)
      /\ Len(sessions) \in Nat /\ Len(depth) \in Nat /\ DOMAIN sessions = 1..Len(sessions)
      /\ Len(sessions) <= MaxSessions
  BY DEF UowInv, UowTypeOK, Session
<1>1. nested \in BOOLEAN /\ broke \in BOOLEAN
  BY Zenon DEF UowInv, UowTypeOK
<1>2. CASE aenter
  <2>1. /\ sessions' \in Seq(Session) /\ Len(sessions') = Len(sessions) + 1
        /\ DOMAIN sessions' = 1..(Len(sessions) + 1)
        /\ \A i \in 1..Len(sessions) : sessions'[i] = sessions[i]
    BY <1>0, <1>2 DEF aenter, Session
  <2>2. /\ session' = Len(sessions) + 1 /\ session' \in 1..MaxSessions
        /\ Len(sessions) + 1 <= MaxSessions /\ kind' = kind
    BY <1>0, <1>2, SessionsAssumption DEF aenter
  <2>3. depth' \in Seq(1..MaxSessions) /\ Len(depth') = Len(depth) + 1 /\ depth' # <<>>
    BY <1>0, <1>2, <2>2 DEF aenter
  <2>4. nested' \in BOOLEAN /\ broke' \in BOOLEAN /\ broke' = broke
    BY <1>1, <1>2, Zenon DEF aenter
  <2>5. ~nested' => ~nested /\ depth = <<>>
    BY <1>2, Zenon DEF aenter
  <2>6. ASSUME ~nested'
        PROVE  /\ Len(depth') <= 1
               /\ \A i \in DOMAIN sessions' : Settled(i)' \/ (depth' # <<>> /\ i = session')
    <3>1. ~nested /\ depth = <<>>
      BY <2>5, <2>6, Zenon
    <3>2. \A i \in 1..Len(sessions) : Settled(i)
      BY <1>0, <3>1, Zenon DEF UowInv
    <3>3. \A i \in 1..Len(sessions) : Settled(i)'
      BY <2>1, <2>2, <2>4, <3>2, Zenon DEF Settled
    <3>4. QED
      BY <1>0, <2>1, <2>2, <2>3, <3>1, <3>3
  <2>7. UowTypeOK'
    BY <1>0, <2>1, <2>2, <2>3, <2>4, SessionsAssumption DEF UowTypeOK, Session
  <2>8. QED
    BY <1>0, <2>1, <2>2, <2>3, <2>6, <2>7, SMTT(20) DEF UowInv
<1>3. CASE write
  <2>1. session \in 1..Len(sessions) /\ depth # <<>>
    BY <1>3, Zenon DEF write, UowInv
  <2>2. /\ sessions' \in Seq(Session) /\ Len(sessions') = Len(sessions)
        /\ DOMAIN sessions' = DOMAIN sessions
        /\ \A i \in DOMAIN sessions : i # session => sessions'[i] = sessions[i]
    <3>0. sessions[session] \in Session
      BY <1>0, <2>1
    <3>1. [sessions[session] EXCEPT !.work = "pending"] \in Session
      BY <3>0, Zenon DEF Session
    <3>2. sessions' = [sessions EXCEPT ![session] = [sessions[session] EXCEPT !.work = "pending"]]
      BY <1>0, <1>3, <2>1, <3>0, Zenon DEF write, Session
    <3>3. QED
      BY <1>0, <2>1, <3>1, <3>2, Replaced
  <2>3. kind' = kind /\ session' = session /\ depth' = depth /\ nested' = nested /\ broke' = broke
    BY <1>3, Zenon DEF write
  <2>4. UowTypeOK'
    BY <1>0, <1>1, <2>2, <2>3, ZenonT(30) DEF UowTypeOK, Session
  <2>5. ~nested' => /\ Len(depth') <= 1
                    /\ \A i \in DOMAIN sessions' : Settled(i)' \/ (depth' # <<>> /\ i = session')
    <3>1. \A i \in DOMAIN sessions : i # session => Settled(i)' = Settled(i)
      BY <2>2, <2>3, Zenon DEF Settled
    <3>2. QED
      BY <2>1, <2>2, <2>3, <3>1, Zenon DEF UowInv
  <2>6. QED
    BY <1>0, <2>1, <2>2, <2>3, <2>4, <2>5, Zenon DEF UowInv
<1>4. CASE aexit
  <2>1. session \in 1..Len(sessions) /\ depth # <<>>
    BY <1>4, Zenon DEF aexit, UowInv
  <2>2. PICK clean \in BOOLEAN, ok \in BOOLEAN :
          /\ sessions' = [sessions EXCEPT
                ![session].status = IF Closes(ok) THEN "closed" ELSE @,
                ![session].work = IF @ = "pending" THEN Work(clean, ok) ELSE @]
          /\ broke' = (broke \/ ~ok)
    BY <1>4, Zenon DEF aexit
  <2>3. /\ sessions' \in Seq(Session) /\ Len(sessions') = Len(sessions)
        /\ DOMAIN sessions' = DOMAIN sessions
        /\ \A i \in DOMAIN sessions : i # session => sessions'[i] = sessions[i]
        /\ sessions'[session].status = IF Closes(ok) THEN "closed" ELSE sessions[session].status
        /\ sessions'[session].work # "pending"
    <3> DEFINE old == sessions[session]
               new == [old EXCEPT !.status = IF Closes(ok) THEN "closed" ELSE old.status,
                                  !.work = IF old.work = "pending" THEN Work(clean, ok) ELSE old.work]
    <3>1. old \in Session
      BY <1>0, <2>1
    <3>2. Work(clean, ok) \in {"kept", "undone"}
      BY Zenon DEF Work
    <3>3. /\ new \in Session /\ new.work # "pending"
          /\ new.status = IF Closes(ok) THEN "closed" ELSE old.status
      BY <3>1, <3>2, Zenon DEF Session
    <3>4. sessions' = [sessions EXCEPT ![session] = new]
      BY <1>0, <2>1, <2>2, <3>1, Zenon DEF Session
    <3> HIDE DEF new
    <3>5. QED
      BY <1>0, <2>1, <3>3, <3>4, Replaced
  <2>4. kind' = kind /\ session' = session /\ nested' = nested
    BY <1>4, Zenon DEF aexit
  <2>5. broke' \in BOOLEAN /\ (broke => broke') /\ (~ok => broke')
    BY <1>1, <2>2, Zenon
  <2>6. /\ depth' \in Seq(1..MaxSessions) /\ Len(depth') = Len(depth) - 1
        /\ Len(depth) <= 1 => depth' = <<>>
    BY <1>0, <1>4, <2>1, WithoutLast, Zenon DEF aexit
  <2>7. UowTypeOK'
    BY <1>0, <1>1, <2>3, <2>4, <2>5, <2>6, Zenon DEF UowTypeOK, Session
  <2>8. Settled(session)'
    <3>1. ok \/ kind = "mongo" \/ (broke' /\ kind' = "sqlalchemy")
      BY <1>0, <2>4, <2>5, Zenon
    <3>2. QED
      BY <2>3, <2>4, <3>1, Zenon DEF Settled, Closes
  <2>9. \A i \in DOMAIN sessions : i # session /\ Settled(i) => Settled(i)'
    BY <2>3, <2>4, <2>5, Zenon DEF Settled
  <2>10. ~nested' => /\ Len(depth') <= 1
                     /\ \A i \in DOMAIN sessions' : Settled(i)' \/ (depth' # <<>> /\ i = session')
    BY <1>0, <2>3, <2>4, <2>6, <2>8, <2>9 DEF UowInv
  <2>11. QED
    BY <1>0, <2>1, <2>3, <2>4, <2>7, <2>10, Zenon DEF UowInv
<1>5. CASE UNCHANGED uow_vars
  BY <1>5, Zenon DEF uow_vars, UowInv, UowTypeOK, Settled
<1>6. QED
  BY <1>2, <1>3, <1>4, <1>5, Zenon DEF UowNext

(* However long the chain, in whatever order its middlewares stand, however *)
(* often the retry middleware tries and whenever a timeout strikes: short   *)
(* of a cancellation or a failing audit store, a command that is over is    *)
(* counted and audited, and committed once if it succeeded; and no unit of  *)
(* work leaves a session open or its work undecided, unless it is entered   *)
(* inside itself or a commit of SQLAlchemy raises.                          *)
THEOREM CommandsAccountedHolds == ChainSpec /\ UowSpec => []CommandsAccounted
<1>1. ChainInv /\ UowInv => CommandsAccounted
  <2>1. UowInv => UowTypeOK /\ SessionsAreClosed
    BY Zenon DEF UowInv, SessionsAreClosed, Settled
  <2>2. QED
    BY <2>1, ChainPromise, Zenon DEF CommandsAccounted, PipelineTypeOK
<1>2. QED
  BY <1>1, ChainStarts, ChainStep, UowStarts, UowStep, PTL DEF ChainSpec, UowSpec

-----------------------------------------------------------------------------
(* The Redis-backed circuit breaker, with lost commands and replies,        *)
(* expiring probe locks and manual resets.                                  *)

(* The safety properties are inductive together: that a trip writes the    *)
(* timestamp and that a closed breaker is below the threshold are both     *)
(* facts about what the two Lua scripts and reset() write at once.         *)
BreakerInv ==
    /\ RedisTypeOK
    /\ ThresholdNeverBreached
    /\ OpenHasTimestamp

(* The larger threshold bounds the counter and is a threshold itself. *)
LEMMA CapBounds ==
    /\ Cap \in Nat
    /\ failure_threshold <= Cap
    /\ success_threshold <= Cap
    /\ \A n \in 0..Cap : Incr(n) \in 0..Cap /\ Incr(n) <= n + 1
BY PolicyAssumption DEF Cap, Incr

(* Without keys in Redis the breaker is closed and has seen no failure. *)
LEMMA BreakerStarts == RedisInit => BreakerInv
<1> SUFFICES ASSUME RedisInit PROVE BreakerInv
    BY Zenon
<1>1. outage \in BOOLEAN
    BY Zenon DEF RedisInit
<1> QED BY <1>1, PolicyAssumption, CapBounds
        DEF RedisInit, BreakerInv, RedisTypeOK, ThresholdNeverBreached, OpenHasTimestamp, PC

(* Wherever a reply, or its loss, takes a call, it is at a known command. *)
LEMMA ReplyTyped ==
    ASSUME NEW c \in Calls, NEW p \in PC, command \in [Calls -> PC], Reply(c, p)
    PROVE  command' \in [Calls -> PC]
BY Zenon DEF Reply, Goto, OnRedisError, PC

(* _LUA_RECORD_FAILURE keeps the keys consistent. *)
LEMMA RecordFailure ==
    ASSUME BreakerInv, lua_record_failure
    PROVE  /\ state_key' \in {Absent, "CLOSED", "OPEN", "HALF_OPEN"}
           /\ failures_key' \in 0..Cap
           /\ opened_at_key' \in {Absent, "recent", "elapsed"}
           /\ ThresholdNeverBreached'
           /\ OpenHasTimestamp'
<1> USE PolicyAssumption, CapBounds
        DEF BreakerInv, RedisTypeOK, ThresholdNeverBreached, OpenHasTimestamp
<1>1. CASE failures_key + 1 >= failure_threshold
    BY <1>1, Zenon DEF lua_record_failure
<1>2. CASE ~(failures_key + 1 >= failure_threshold)
    BY <1>2 DEF lua_record_failure
<1> QED BY <1>1, <1>2, Zenon

(* _LUA_RECORD_SUCCESS keeps the keys consistent. *)
LEMMA RecordSuccess ==
    ASSUME BreakerInv, lua_record_success
    PROVE  /\ state_key' \in {Absent, "CLOSED", "OPEN", "HALF_OPEN"}
           /\ failures_key' \in 0..Cap
           /\ opened_at_key' \in {Absent, "recent", "elapsed"}
           /\ half_successes' \in 0..success_threshold
           /\ ThresholdNeverBreached'
           /\ OpenHasTimestamp'
<1> USE PolicyAssumption, CapBounds
        DEF BreakerInv, RedisTypeOK, ThresholdNeverBreached, OpenHasTimestamp
<1>1. CASE state_key = "HALF_OPEN" /\ failures_key + 1 >= success_threshold
    BY <1>1 DEF lua_record_success
<1>2. CASE state_key = "HALF_OPEN" /\ ~(failures_key + 1 >= success_threshold)
    BY <1>2 DEF lua_record_success
<1>3. CASE state_key # "HALF_OPEN"
    BY <1>3, SMTT(20) DEF lua_record_success
<1> QED BY <1>1, <1>2, <1>3, Zenon

(* Every command, reply and outside event keeps the invariant. *)
LEMMA BreakerStep == BreakerInv /\ [RedisNext]_redis_vars => BreakerInv'
<1> SUFFICES ASSUME BreakerInv, [RedisNext]_redis_vars PROVE BreakerInv'
    BY Zenon
<1> USE PolicyAssumption, CapBounds
        DEF BreakerInv, RedisTypeOK, ThresholdNeverBreached, OpenHasTimestamp, redis
<1>1. ASSUME NEW c \in Calls, get_state(c) PROVE BreakerInv'
    <2>1. PICK p \in PC : Reply(c, p)
        BY <1>1, Zenon DEF get_state, PC
    <2> QED BY <1>1, <2>1, ReplyTyped, Zenon DEF get_state
<1>2. ASSUME NEW c \in Calls, get_opened_at(c) PROVE BreakerInv'
    <2>1. PICK p \in PC : Reply(c, p)
        BY <1>2, Zenon DEF get_opened_at, PC
    <2> QED BY <1>2, <2>1, ReplyTyped, Zenon DEF get_opened_at
<1>3. ASSUME NEW c \in Calls, set_half_open(c) PROVE BreakerInv'
    <2>1. PICK p \in PC : Reply(c, p)
        BY <1>3, Zenon DEF set_half_open, PC
    <2> QED BY <1>3, <2>1, ReplyTyped DEF set_half_open
<1>4. ASSUME NEW c \in Calls, acquire_probe_lock(c) PROVE BreakerInv'
    <2>1. PICK p \in PC : Reply(c, p)
        BY <1>4, Zenon DEF acquire_probe_lock, PC
    <2> QED BY <1>4, <2>1, ReplyTyped, Zenon DEF acquire_probe_lock
<1>5. ASSUME NEW c \in Calls, func(c) PROVE BreakerInv'
    BY <1>5, Zenon DEF func, Goto, PC
<1>6. ASSUME NEW c \in Calls, on_success(c) PROVE BreakerInv'
    <2>1. PICK p \in PC : Reply(c, p)
        BY <1>6, Zenon DEF on_success, PC
    <2> QED BY <1>6, <2>1, ReplyTyped, RecordSuccess, Zenon DEF on_success
<1>7. ASSUME NEW c \in Calls, release_probe_lock(c) PROVE BreakerInv'
    <2>1. PICK p \in PC : Reply(c, p)
        BY <1>7, Zenon DEF release_probe_lock, PC
    <2> QED BY <1>7, <2>1, ReplyTyped, Zenon DEF release_probe_lock
<1>8. ASSUME NEW c \in Calls, on_failure(c) PROVE BreakerInv'
    <2>1. PICK p \in PC : Reply(c, p)
        BY <1>8, Zenon DEF on_failure, PC
    <2> QED BY <1>8, <2>1, ReplyTyped, RecordFailure, Zenon DEF on_failure
<1>9. ASSUME NEW c \in Calls, CommandLost(c) PROVE BreakerInv'
    BY <1>9, Zenon DEF CommandLost, Goto, OnRedisError, PC
<1>10. CASE reset
    BY <1>10 DEF reset
<1>11. CASE TimeoutElapses
    BY <1>11, Zenon DEF TimeoutElapses
<1>12. CASE ProbeLockExpires
    BY <1>12, Zenon DEF ProbeLockExpires
<1>13. CASE Outage
    <2>1. outage' \in BOOLEAN
        BY <1>13, Zenon DEF Outage
    <2> QED BY <1>13, <2>1, Zenon DEF Outage
<1>14. CASE UNCHANGED redis_vars
    BY <1>14, SMTT(20) DEF redis_vars
<1>15. ASSUME NEW c \in Calls, Step(c) PROVE BreakerInv'
    BY <1>1, <1>2, <1>3, <1>4, <1>5, <1>6, <1>7, <1>8, <1>15, Zenon DEF Step
<1> QED BY <1>9, <1>10, <1>11, <1>12, <1>13, <1>14, <1>15, Zenon DEF RedisNext

(* The inductive invariant holds in every reachable state. *)
LEMMA BreakerInvHolds == RedisSpec => []BreakerInv
BY BreakerStarts, BreakerStep, PTL DEF RedisSpec

(* The keys and the calls keep their types. *)
THEOREM RedisTypeCorrect == RedisSpec => []RedisTypeOK
<1>1. BreakerInv => RedisTypeOK
    BY Zenon DEF BreakerInv
<1> QED BY <1>1, BreakerInvHolds, PTL

(* "The threshold is never breached by race conditions", for any policy    *)
(* and any number of instances and calls.                                  *)
THEOREM ThresholdCorrect == RedisSpec => []ThresholdNeverBreached
<1>1. BreakerInv => ThresholdNeverBreached
    BY Zenon DEF BreakerInv
<1> QED BY <1>1, BreakerInvHolds, PTL

(* An open breaker always has the timestamp that lets it half-open. *)
THEOREM TimestampCorrect == RedisSpec => []OpenHasTimestamp
<1>1. BreakerInv => OpenHasTimestamp
    BY Zenon DEF BreakerInv
<1> QED BY <1>1, BreakerInvHolds, PTL

-----------------------------------------------------------------------------
(* The hub.                                                                 *)

(* What is registered, or was when a broadcast began, is no new connection, *)
(* so none of these can become open later; and who is still open of a       *)
(* broadcast has got it or is owed it.                                      *)
HubInv ==
    /\ HubTypeOK
    /\ \A i \in Ids : connections[i] # NoConn => socket[connections[i]] # "new"
    /\ \A c \in snapshot : socket[c] # "new"
    /\ \A c \in snapshot : socket[c] = "open" => c \in got \cup owed
    /\ OpenIsReachable

(* Gathering the sends of a broadcast keeps HubInv when every addressee is  *)
(* registered.                                                              *)
LEMMA GatherStep ==
    ASSUME HubInv, NEW conns \in SUBSET Registered, Gather(conns)
    PROVE  HubInv'
<1> USE HubAssumption DEF HubInv, HubTypeOK
<1>1. conns \subseteq Conns /\ \A c \in conns : socket[c] # "new"
  BY DEF Registered
<1>2. UNCHANGED <<socket, connections, members, displaced>> /\ owed' = conns /\ snapshot' = conns /\ got' = {}
  BY SMTT(20) DEF Gather
<1>3. QED
  BY <1>1, <1>2, Zenon DEF OpenIsReachable

(* Every step of the hub keeps HubInv. *)
LEMMA HubStep == HubInv /\ [HubNext]_hub_vars => HubInv'
<1> SUFFICES ASSUME HubInv, [HubNext]_hub_vars
             PROVE  HubInv'
  BY Zenon
<1> USE HubAssumption DEF HubInv, HubTypeOK
<1>0. \A c \in Conns : id(c) \in Ids
  BY Zenon DEF Ids
<1>1. ASSUME NEW c \in Conns, register(c)
      PROVE  HubInv'
  <2>1. HubTypeOK'
    BY <1>0, <1>1, Zenon DEF register, Others
  <2>2. \A d \in Conns : d # c => socket'[d] = socket[d]
    BY <1>1, Zenon DEF register
  <2>3. \A i \in Ids : connections'[i] # NoConn => socket'[connections'[i]] # "new"
    BY <1>0, <1>1, <2>2 DEF register
  <2>4. /\ \A d \in snapshot' : socket'[d] # "new"
        /\ \A d \in snapshot' : socket'[d] = "open" => d \in got' \cup owed'
    BY <1>1, <2>2, Zenon DEF register
  <2>5. OpenIsReachable'
    BY <1>0, <1>1, <2>2, Zenon DEF register, Others, OpenIsReachable
  <2>6. QED
    BY <2>1, <2>3, <2>4, <2>5, Zenon
<1>2. ASSUME NEW c \in Conns, disconnect(c)
      PROVE  HubInv'
  BY <1>2, Zenon DEF disconnect, OpenIsReachable
<1>3. ASSUME NEW c \in Conns, unregister(c)
      PROVE  HubInv'
  <2>1. HubTypeOK'
    BY <1>0, <1>3, Zenon DEF unregister, Others
  <2>2. OpenIsReachable'
    BY <1>0, <1>3, Zenon DEF unregister, Others, OpenIsReachable
  <2>3. QED
    BY <1>0, <1>3, <2>1, <2>2, Zenon DEF unregister
<1>4. ASSUME NEW c \in Conns, send(c)
      PROVE  HubInv'
  BY <1>4, Zenon DEF send, OpenIsReachable
<1>5. ASSUME NEW i \in Ids, join_group(i) \/ leave_group(i)
      PROVE  HubInv'
  BY <1>5, Zenon DEF join_group, leave_group, OpenIsReachable
<1>6. ASSUME NEW i \in Ids, send_to(i)
      PROVE  HubInv'
  <2>1. {connections[i]} \subseteq Registered
    BY <1>6, Zenon DEF send_to, Registered
  <2>2. QED
    BY <1>6, <2>1, GatherStep, Zenon DEF send_to
<1>7. CASE broadcast \/ group_broadcast
  BY <1>7, GatherStep, Zenon DEF broadcast, group_broadcast
<1>8. CASE UNCHANGED hub_vars
  BY <1>8, Zenon DEF hub_vars, OpenIsReachable
<1>9. QED
  BY <1>1, <1>2, <1>3, <1>4, <1>5, <1>6, <1>7, <1>8, ZenonT(30) DEF HubNext

(* ConnectionHub and GroupManager, whoever comes and goes between two       *)
(* sends: an open connection can be addressed unless another of its id      *)
(* displaced it, and a broadcast that is over has reached every connection  *)
(* of its snapshot that is still open.                                      *)
THEOREM BroadcastsReachAllHolds == HubSpec => []BroadcastsReachAll
<1>1. HubInit => HubInv
  BY HubAssumption, SMTT(20) DEF HubInit, HubInv, HubTypeOK, OpenIsReachable
<1>2. HubInv => BroadcastsReachAll
  BY Zenon DEF HubInv, BroadcastsReachAll, NobodyMissed
<1>3. QED
  BY <1>1, <1>2, HubStep, PTL DEF HubSpec
=============================================================================
