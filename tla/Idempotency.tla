----------------------------- MODULE Idempotency -----------------------------
(***************************************************************************)
(* IdempotencyMiddleware and DeduplicationMiddleware of                    *)
(* application/pipeline/middlewares.py over RedisIdempotencyStore, for the *)
(* requests that carry one key.  Each store operation is one Redis         *)
(* command, except complete(), which reads the record and then writes it.  *)
(***************************************************************************)
EXTENDS Integers

CONSTANTS
    Requests,  \* submissions of the command: the first one and its retries
    None

ASSUME IdempotencyAssumption ==
    None \notin {"PROCESSING", "COMPLETED"}

VARIABLES
    middleware,  \* the middleware in use
    record,      \* the status of the stored IdempotencyRecord, None without one
    pc,          \* what each request awaits, or how it ended
    effects,     \* history: how often the handler took effect
    overlapped,  \* history: a request was submitted while another was under way
    expired      \* history: the TTL of a record has run out

vars == <<middleware, record, pc, effects, overlapped, expired>>

setting == <<middleware, overlapped, expired>>

Ended == {"executed", "cached", "conflict", "failed", "crashed"}

Middlewares == {"IdempotencyMiddleware", "DeduplicationMiddleware"}

TypeOK ==
    /\ middleware \in Middlewares
    /\ record \in {None, "PROCESSING", "COMPLETED"}
    /\ pc \in [Requests -> Ended \cup {"new", "get", "save", "handler",
                                       "complete_get", "complete_set"}]
    /\ effects \in Nat
    /\ overlapped \in BOOLEAN
    /\ expired \in BOOLEAN

Init ==
    /\ middleware \in Middlewares
    /\ record = None
    /\ pc = [r \in Requests |-> "new"]
    /\ effects = 0
    /\ overlapped = FALSE
    /\ expired = FALSE

Rejecting == middleware = "DeduplicationMiddleware"

Goto(r, p) == pc' = [pc EXCEPT ![r] = p]

Active == {r \in Requests : pc[r] \notin Ended \cup {"new"}}

-----------------------------------------------------------------------------
(* Plausible slips in the definitions below, used to test the properties.  *)

get_trusting_any_record(r) ==
    /\ pc[r] = "get"
    /\ Goto(r, IF record # None THEN "cached" ELSE "save")
    /\ UNCHANGED <<setting, record, effects>>

get_unrejecting(r) ==
    /\ pc[r] = "get"
    /\ Goto(r, IF record = "COMPLETED" THEN "cached" ELSE "save")
    /\ UNCHANGED <<setting, record, effects>>

complete_set_misspelt(r) ==
    /\ pc[r] = "complete_set"
    /\ record' = "DONE"
    /\ Goto(r, "executed")
    /\ UNCHANGED <<setting, effects>>

-----------------------------------------------------------------------------
submit(r) ==
    /\ pc[r] = "new"
    /\ Goto(r, "get")
    /\ overlapped' = (overlapped \/ Active # {})
    /\ UNCHANGED <<middleware, record, effects, expired>>

(* A completed record's response is returned; DeduplicationMiddleware      *)
(* raises ConflictError for one that is not completed.                     *)
get(r) ==
    /\ pc[r] = "get"
    /\ Goto(r, IF record = "COMPLETED" THEN "cached"
               ELSE IF record = "PROCESSING" /\ Rejecting THEN "conflict"
               ELSE "save")
    /\ UNCHANGED <<setting, record, effects>>

(* SET, whatever the record has become since get(). *)
save(r) ==
    /\ pc[r] = "save"
    /\ record' = "PROCESSING"
    /\ Goto(r, "handler")
    /\ UNCHANGED <<setting, effects>>

(* next_(request): takes effect, or raises and leaves the record behind. *)
handler(r) ==
    /\ pc[r] = "handler"
    /\ \/ Goto(r, "complete_get") /\ effects' = effects + 1
       \/ Goto(r, "failed") /\ UNCHANGED effects
    /\ UNCHANGED <<setting, record>>

complete_get(r) ==
    /\ pc[r] = "complete_get"
    /\ Goto(r, IF record = None THEN "executed" ELSE "complete_set")
    /\ UNCHANGED <<setting, record, effects>>

complete_set(r) ==
    /\ pc[r] = "complete_set"
    /\ record' = "COMPLETED"
    /\ Goto(r, "executed")
    /\ UNCHANGED <<setting, effects>>

crash(r) ==
    /\ r \in Active
    /\ Goto(r, "crashed")
    /\ UNCHANGED <<setting, record, effects>>

expire ==
    /\ record # None
    /\ record' = None
    /\ expired' = TRUE
    /\ UNCHANGED <<middleware, pc, effects, overlapped>>

Next ==
    \/ \E r \in Requests :
          \/ submit(r) \/ get(r) \/ save(r) \/ handler(r)
          \/ complete_get(r) \/ complete_set(r) \/ crash(r)
    \/ expire

Spec == Init /\ [][Next]_vars

-----------------------------------------------------------------------------
(* No request is swallowed: whoever is told that the command was executed, *)
(* now or before, is told so after it took effect, and so is whoever will  *)
(* find the record completed.                                              *)
NeverSwallowed ==
    record = "COMPLETED" \/ (\E r \in Requests : pc[r] \in {"executed", "cached"})
        => effects > 0

(* A client that waits for each answer before it retries, a record that    *)
(* lives, and either nothing cut short or unfinished records refused.      *)
Careful ==
    /\ ~overlapped
    /\ ~expired
    /\ \/ Rejecting
       \/ \A r \in Requests : pc[r] # "crashed"

(* "Skip handler if request was already processed": for a careful client   *)
(* the handler takes effect at most once.                                  *)
AtMostOnce == Careful => effects <= 1
=============================================================================
