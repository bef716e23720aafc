------------------------------ MODULE Workflow ------------------------------
(* Two processes of several steps, a workflow and the erasure of a person's *)
(* data.                                                                    *)
(*                                                                          *)
(* WorkflowEngine.trigger, application/workflow/engine.py, on one instance. *)
(* A store may hand out its own object (InMemoryWorkflowInstanceStore) or a *)
(* copy that save() writes back.                                            *)
EXTENDS Naturals, Sequences

CONSTANTS
    Triggers,      \* the calls of trigger()
    Transitions,   \* <<from, to>> pairs of the definition
    initial_state,
    MaxHistory

VARIABLES
    shares,     \* the store hands out its own object; never changes
    instance,   \* what the store holds: current_state and history
    trigger,    \* per call: at, the instance as loaded (copy) and the candidate
    crossed     \* history: two calls were under way at once

workflow_vars == <<shares, instance, trigger, crossed>>

States == {initial_state} \cup {t[1] : t \in Transitions} \cup {t[2] : t \in Transitions}
Fresh == [current |-> initial_state, history |-> <<>>]
Instance == [current : States, history : Seq(Transitions)]

TypeOK ==
    /\ shares \in BOOLEAN /\ crossed \in BOOLEAN
    /\ instance \in Instance
    /\ trigger \in [Triggers -> [at : {"idle", "leaving", "entering"}, copy : Instance,
                                 candidate : Transitions \cup {<<>>}]]

(* start() has saved the instance. *)
Init ==
    /\ shares \in BOOLEAN
    /\ instance = Fresh
    /\ trigger = [t \in Triggers |-> [at |-> "idle", copy |-> Fresh, candidate |-> <<>>]]
    /\ crossed = FALSE

(* Plausible slips in the definitions below, used to test the properties. *)
Moved_without_record(i, c) == [i EXCEPT !.current = c[2]]
Moved_by_index(i, c) == [current |-> "", history |-> Append(i.history, c)]

Moved(i, c) == [current |-> c[2], history |-> Append(i.history, c)]
Candidates(i) == {c \in Transitions : c[1] = i.current}

(* Another slip: the store's own object is changed before save(). *)
move_in_store(t) ==
    /\ trigger[t].at = "leaving" /\ Len(instance.history) < MaxHistory
    /\ instance' = Moved(instance, trigger[t].candidate)
    /\ trigger' = [trigger EXCEPT ![t].at = "entering", ![t].copy = Moved(@, trigger[t].candidate)]
    /\ UNCHANGED <<shares, crossed>>

(* trigger() loads the instance and finds the first transition whose guard *)
(* holds; no candidate raises InvalidTransitionError.                      *)
load(t) ==
    /\ trigger[t].at = "idle" /\ Len(instance.history) < MaxHistory
    /\ \E c \in Candidates(instance) :
          trigger' = [trigger EXCEPT ![t] = [at |-> "leaving", copy |-> instance, candidate |-> c]]
    /\ crossed' = (crossed \/ \E u \in Triggers : trigger[u].at # "idle")
    /\ UNCHANGED <<shares, instance>>

(* After on_exit and the action: the record and the new state, in the      *)
(* object at hand.                                                         *)
move(t) ==
    /\ trigger[t].at = "leaving" /\ Len(instance.history) < MaxHistory
    /\ LET c == trigger[t].candidate
       IN  IF shares
           THEN instance' = Moved(instance, c) /\ trigger' = [trigger EXCEPT ![t].at = "entering"]
           ELSE /\ trigger' = [trigger EXCEPT ![t].at = "entering", ![t].copy = Moved(@, c)]
                /\ UNCHANGED instance
    /\ UNCHANGED <<shares, crossed>>

(* After on_enter. *)
save(t) ==
    /\ trigger[t].at = "entering"
    /\ instance' = IF shares THEN instance ELSE trigger[t].copy
    /\ trigger' = [trigger EXCEPT ![t].at = "idle"]
    /\ UNCHANGED <<shares, crossed>>

(* on_exit, the action or on_enter raises: nothing undoes what was done. *)
raise(t) ==
    /\ trigger[t].at # "idle"
    /\ trigger' = [trigger EXCEPT ![t].at = "idle"]
    /\ UNCHANGED <<shares, instance, crossed>>

Next == \E t \in Triggers : load(t) \/ move(t) \/ save(t) \/ raise(t)

-----------------------------------------------------------------------------
(* The history of an instance is a path of the definition from its initial *)
(* to its current state, whatever hook raises; unless two events for it    *)
(* were handled at once, which neither the engine nor the store detects.   *)
HistoryIsAPath ==
    crossed \/
        LET h == instance.history
        IN  /\ \A i \in DOMAIN h : h[i][1] = IF i = 1 THEN initial_state ELSE h[i - 1][2]
            /\ instance.current = IF h = <<>> THEN initial_state ELSE h[Len(h)][2]

(* With a copying store, an event whose hook raised leaves the instance as *)
(* it was; only save() changes it, by exactly one transition at a time     *)
(* unless the calls crossed.                                               *)
CopiesChangeOnlyOnSave ==
    [][~shares /\ instance' # instance =>
          \E t \in Triggers :
             /\ trigger[t].at = "entering"
             /\ ~crossed => SubSeq(instance'.history, 1, Len(instance.history)) = instance.history]_workflow_vars

-----------------------------------------------------------------------------
(* ErasureService, DataPortabilityExporter and the in-memory consent store  *)
(* of application/gdpr/erasure.py, for one data subject.                    *)
CONSTANTS Scopes, MaxHandlers

VARIABLES
    handlers,   \* _handlers: the scopes in the order of registration
    request,    \* the request in progress: type, results so far, at
    holds,      \* per scope: its store holds data of the subject
    consent     \* the record of the one purpose: "none", "granted", "withdrawn"

erasure_vars == <<handlers, request, holds, consent>>

ErasureTypeOK ==
    /\ handlers \in Seq(Scopes)
    /\ request \in [type : {"erasure", "portability"}, results : Seq([scope : Scopes, success : BOOLEAN]),
                    at : {"idle", "running", "done", "cancelled"}]
    /\ holds \in [Scopes -> BOOLEAN] /\ consent \in {"none", "granted", "withdrawn"}

ErasureInit ==
    /\ handlers = <<>> /\ holds = [s \in Scopes |-> TRUE] /\ consent = "none"
    /\ request = [type |-> "erasure", results |-> <<>>, at |-> "idle"]

register(s) ==
    /\ Len(handlers) < MaxHandlers
    /\ handlers' = Append(handlers, s)
    /\ UNCHANGED <<request, holds, consent>>

(* erase(subject_id) or export(subject_id) *)
submit ==
    /\ request.at # "running"
    /\ \E t \in {"erasure", "portability"} :
          request' = [type |-> t, results |-> <<>>, at |-> "running"]
    /\ UNCHANGED <<handlers, holds, consent>>

(* Plausible slips in the definitions below, used to test the properties. *)
Result_assumed(s, ok) == [request EXCEPT !.results = Append(@, [scope |-> s, success |-> TRUE])]
completed_early ==
    /\ request.at = "running" /\ Len(request.results) > 0
    /\ request' = [request EXCEPT !.at = "done"]
    /\ UNCHANGED <<handlers, holds, consent>>

(* An exception becomes a failed result and the loop goes on. *)
Result(s, ok) == [request EXCEPT !.results = Append(@, [scope |-> s, success |-> ok])]

(* The next handler of the list, which is iterated live: a handler that is *)
(* registered meanwhile has its turn.  One that raises may have erased.    *)
handle ==
    /\ request.at = "running" /\ Len(request.results) < Len(handlers)
    /\ LET s == handlers[Len(request.results) + 1]
       IN  \E ok, gone \in BOOLEAN :
              /\ ok => gone
              /\ request' = Result(s, ok)
              /\ holds' = [holds EXCEPT ![s] = @ /\ ~(gone /\ request.type = "erasure")]
    /\ UNCHANGED <<handlers, consent>>

(* The event, or the merged export. *)
completed ==
    /\ request.at = "running" /\ Len(request.results) = Len(handlers)
    /\ request' = [request EXCEPT !.at = "done"]
    /\ UNCHANGED <<handlers, holds, consent>>

(* CancelledError is no Exception: what was erased stays so, without event. *)
cancel ==
    /\ request.at = "running"
    /\ request' = [request EXCEPT !.at = "cancelled"]
    /\ UNCHANGED <<handlers, holds, consent>>

save_consent == consent' = "granted" /\ UNCHANGED <<handlers, request, holds>>
withdraw == consent = "granted" /\ consent' = "withdrawn" /\ UNCHANGED <<handlers, request, holds>>

ErasureNext == submit \/ handle \/ completed \/ cancel \/ save_consent \/ withdraw
               \/ \E s \in Scopes : register(s)

-----------------------------------------------------------------------------
(* An event whose results all succeeded means that no registered handler's *)
(* scope still holds data: no failure of one is passed over, and a handler *)
(* registered while the request ran is included.                           *)
SuccessMeansErased ==
    [][request.at = "running" /\ request'.at = "done" /\ request.type = "erasure"
          /\ (\A i \in DOMAIN request.results : request.results[i].success)
       => \A i \in DOMAIN handlers : ~holds[handlers[i]]]_erasure_vars
=============================================================================
