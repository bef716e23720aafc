--------------------------- MODULE SagaOrchestrator ---------------------------
(***************************************************************************)
(* SagaOrchestrator.run of application/saga/orchestrator.py, for one saga. *)
(* Every await is a step: a forward action, a compensation or a save of    *)
(* the saga record, each of which may raise.  Steps are numbered from 1;   *)
(* the code's idx is step - 1, so its step_index idx + 1 is the number of  *)
(* the step.                                                               *)
(***************************************************************************)
EXTENDS Integers

CONSTANTS
    N,     \* number of steps
    None

ASSUME SagaAssumption ==
    /\ N \in Nat \ {0}
    /\ None \notin {"RUNNING", "COMPENSATING", "COMPLETED", "FAILED", "COMPENSATION_FAILED"}

VARIABLES
    pc,           \* what run() awaits, or how it ended
    step,         \* the step of the forward pass, then the next to compensate
    failed_step,  \* the step whose exception started the compensation
    first_error,  \* whether a compensation has raised
    effect,       \* what each step has done to the world
    record_state, \* SagaRecord.state, None before the first save
    record_index  \* SagaRecord.step_index

vars == <<pc, step, failed_step, first_error, effect, record_state, record_index>>

Steps == 1..N

Ended == {"COMPLETED", "FAILED", "COMPENSATION_FAILED", "store_error", "crashed"}

SagaState == {"RUNNING", "COMPENSATING", "COMPLETED", "FAILED", "COMPENSATION_FAILED"}

TypeOK ==
    /\ pc \in Ended \cup {"start", "action", "save_progress", "save_compensating",
                          "compensate", "save_completed", "save_failed"}
    /\ step \in 0..N
    /\ failed_step \in 0..N
    /\ first_error \in BOOLEAN
    /\ effect \in [Steps -> {"none", "done", "undone", "stuck"}]
    /\ record_state \in SagaState \cup {None}
    /\ record_index \in 0..N

Init ==
    /\ pc = "start"
    /\ step = 1
    /\ failed_step = 0
    /\ first_error = FALSE
    /\ effect = [i \in Steps |-> "none"]
    /\ record_state = None
    /\ record_index = 0

(* The record that the save run() awaits at pc writes. *)
Saves == {"start", "save_progress", "save_compensating", "save_completed", "save_failed"}

Record(state, index) == record_state' = state /\ record_index' = index

persist ==
    \/ pc = "start" /\ Record("RUNNING", 0)
    \/ pc = "save_progress" /\ Record("RUNNING", step)
    \/ pc = "save_compensating" /\ Record("COMPENSATING", failed_step - 1)
    \/ pc = "save_completed" /\ Record("COMPLETED", N)
    \/ /\ pc = "save_failed"
       /\ Record(IF first_error THEN "COMPENSATION_FAILED" ELSE "FAILED", failed_step - 1)

(* A save that raises, or is cut short, may still have been written. *)
maybe_persist == persist \/ UNCHANGED <<record_state, record_index>>

-----------------------------------------------------------------------------
(* Plausible slips in the definitions below, used to test the properties.  *)

compensate_stopping_at_error ==
    /\ pc = "compensate"
    /\ \/ /\ effect' = [effect EXCEPT ![step] = "undone"]
          /\ step' = step - 1
          /\ pc' = IF step = 1 THEN "save_failed" ELSE "compensate"
          /\ UNCHANGED first_error
       \/ /\ effect' = [effect EXCEPT ![step] = "stuck"]
          /\ step' = 0
          /\ pc' = "save_failed"
          /\ first_error' = TRUE
    /\ UNCHANGED <<failed_step, record_state, record_index>>

compensate_forgetting_error ==
    /\ pc = "compensate"
    /\ \E e \in {"undone", "stuck"} : effect' = [effect EXCEPT ![step] = e]
    /\ step' = step - 1
    /\ pc' = IF step = 1 THEN "save_failed" ELSE "compensate"
    /\ UNCHANGED <<failed_step, first_error, record_state, record_index>>

compensate_in_order ==
    /\ pc = "compensate"
    /\ \E i \in Steps :
          /\ effect[i] = "done" /\ \A j \in 1..(i - 1) : effect[j] # "done"
          /\ \E e \in {"undone", "stuck"} :
                /\ effect' = [effect EXCEPT ![i] = e]
                /\ first_error' = (first_error \/ e = "stuck")
    /\ step' = step - 1
    /\ pc' = IF step = 1 THEN "save_failed" ELSE "compensate"
    /\ UNCHANGED <<failed_step, record_state, record_index>>

action_saved_first ==
    /\ pc = "action"
    /\ \/ pc' = "save_progress" /\ UNCHANGED <<step, failed_step, effect>>
       \/ /\ pc' = "save_compensating"
          /\ failed_step' = step
          /\ step' = step - 1
          /\ UNCHANGED effect
    /\ UNCHANGED <<first_error, record_state, record_index>>

save_progress_past_the_end ==
    /\ pc = "save_progress"
    /\ persist
    /\ pc' = IF step < N THEN "action" ELSE "save_completed"
    /\ step' = step + 1
    /\ UNCHANGED <<failed_step, first_error, effect>>

-----------------------------------------------------------------------------
start ==
    /\ pc = "start"
    /\ persist
    /\ pc' = "action"
    /\ UNCHANGED <<step, failed_step, first_error, effect>>

(* step.action: succeeds, or raises without an effect. *)
action ==
    /\ pc = "action"
    /\ \/ /\ pc' = "save_progress"
          /\ effect' = [effect EXCEPT ![step] = "done"]
          /\ UNCHANGED <<step, failed_step>>
       \/ /\ pc' = "save_compensating"
          /\ failed_step' = step
          /\ step' = step - 1
          /\ UNCHANGED effect
    /\ UNCHANGED <<first_error, record_state, record_index>>

save_progress ==
    /\ pc = "save_progress"
    /\ persist
    /\ pc' = IF step < N THEN "action" ELSE "save_completed"
    /\ step' = IF step < N THEN step + 1 ELSE step
    /\ UNCHANGED <<failed_step, first_error, effect>>

(* The save is inside the try block, after completed.append: the step is   *)
(* compensated with the ones before it.                                    *)
save_progress_fails ==
    /\ pc = "save_progress"
    /\ maybe_persist
    /\ pc' = "save_compensating"
    /\ failed_step' = step
    /\ UNCHANGED <<step, first_error, effect>>

save_compensating ==
    /\ pc = "save_compensating"
    /\ persist
    /\ pc' = IF step = 0 THEN "save_failed" ELSE "compensate"
    /\ UNCHANGED <<step, failed_step, first_error, effect>>

(* _compensate: an exception is remembered and the loop goes on. *)
compensate ==
    /\ pc = "compensate"
    /\ \E e \in {"undone", "stuck"} :
          /\ effect' = [effect EXCEPT ![step] = e]
          /\ first_error' = (first_error \/ e = "stuck")
    /\ step' = step - 1
    /\ pc' = IF step = 1 THEN "save_failed" ELSE "compensate"
    /\ UNCHANGED <<failed_step, record_state, record_index>>

(* Then SagaFailedError or SagaCompensationFailedError is raised. *)
save_failed ==
    /\ pc = "save_failed"
    /\ persist
    /\ pc' = IF first_error THEN "COMPENSATION_FAILED" ELSE "FAILED"
    /\ UNCHANGED <<step, failed_step, first_error, effect>>

save_completed ==
    /\ pc = "save_completed"
    /\ persist
    /\ pc' = "COMPLETED"
    /\ UNCHANGED <<step, failed_step, first_error, effect>>

(* A save outside the inner try block raises out of run(). *)
save_fails ==
    /\ pc \in Saves \ {"save_progress"}
    /\ maybe_persist
    /\ pc' = "store_error"
    /\ UNCHANGED <<step, failed_step, first_error, effect>>

(* CancelledError is no Exception: like a crash, it ends run() at its      *)
(* await.  What was under way may have had its effect.                     *)
crash ==
    /\ pc \notin Ended
    /\ pc' = "crashed"
    /\ IF pc \in Saves THEN maybe_persist ELSE UNCHANGED <<record_state, record_index>>
    /\ \/ UNCHANGED effect
       \/ pc = "action" /\ effect' = [effect EXCEPT ![step] = "done"]
       \/ pc = "compensate" /\ effect' = [effect EXCEPT ![step] = "undone"]
    /\ UNCHANGED <<step, failed_step, first_error>>

Next ==
    \/ start \/ action \/ save_progress \/ save_progress_fails
    \/ save_compensating \/ compensate \/ save_failed
    \/ save_completed \/ save_fails \/ crash

Spec == Init /\ [][Next]_vars

-----------------------------------------------------------------------------
(* What the saga record tells whoever inspects it after a crash: RUNNING   *)
(* at step_index k means that the first k steps took effect, the next may  *)
(* have, and none after it; and none of them has been compensated.         *)
RecordTracksProgress ==
    record_state = "RUNNING" =>
        /\ \A i \in Steps : i <= record_index => effect[i] = "done"
        /\ \A i \in Steps : i = record_index + 1 => effect[i] \in {"none", "done"}
        /\ \A i \in Steps : i > record_index + 1 => effect[i] = "none"

(* All or nothing: a COMPLETED record means every step took effect, a      *)
(* FAILED one that no effect is left.                                      *)
AllOrNothing ==
    /\ record_state = "COMPLETED" => \A i \in Steps : effect[i] = "done"
    /\ record_state = "FAILED" => \A i \in Steps : effect[i] \in {"none", "undone"}

(* COMPENSATION_FAILED means that every effect was either undone or had    *)
(* its compensation tried and failing, and at least one failed: an error   *)
(* in one compensation does not keep the others from running.              *)
CompensationGoesOn ==
    record_state = "COMPENSATION_FAILED" =>
        /\ \A i \in Steps : effect[i] # "done"
        /\ \E i \in Steps : effect[i] = "stuck"

(* The saga record, which is all that survives a crash, tells what the     *)
(* steps have done: while the saga runs, up to the step under way, and     *)
(* once it is over, whether all, none or some of the effects are left.     *)
RecordTellsTheTruth == RecordTracksProgress /\ AllOrNothing /\ CompensationGoesOn

(* Compensations run in reverse order: a step is compensated only once     *)
(* every later step that took effect has been.                             *)
ReverseOrder ==
    [][\A i \in Steps : effect[i] = "done" /\ effect'[i] # "done" =>
          \A j \in Steps : j > i => effect[j] # "done"]_vars
=============================================================================
