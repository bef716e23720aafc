---------------------------- MODULE MCProcesses -----------------------------
(* The long-running processes and the caches, one part at a time: `part` is *)
(* the one that runs, the others stay where they start. No symmetry: the    *)
(* run checks liveness.                                                     *)
EXTENDS SagaOrchestrator

CONSTANTS Triggers, Endpoints, Scopes, Jobs, Callers, Keys, Loaders

VARIABLES part, shares, instance, trigger, crossed, handlers, request, holds, consent,
          endpoint, targets, delivery, records, received, scheduler, loop, stopping,
          entries, adapter, jobs, timers, phase, runs, late, hooks, shutdown, drain, cache,
          caller, backend, stored, tagged, origin, loader, outdated, recent

Flow == INSTANCE Workflow WITH
             Transitions <- {<<"new", "paid">>, <<"new", "void">>, <<"paid", "sent">>, <<"sent", "new">>},
             initial_state <- "new", MaxHistory <- 3, MaxHandlers <- 3
Again == INSTANCE Redelivery WITH max_retries <- 2, max_replays <- 1, batch_size <- 2, MaxEntries <- 3,
             MaxLoops <- 2
Life == INSTANCE Lifecycle WITH MaxRuns <- 2, MaxHooks <- 4, drain_timeout <- 3,
             Signals <- {"SIGTERM", "SIGINT"}
Caching == INSTANCE Caches WITH MaxVersion <- 2, maxsize <- 2, Volatile <- {CHOOSE k \in Keys : TRUE}

MCvars == <<part, vars, shares, instance, trigger, crossed, handlers, request, holds,
            consent, endpoint, targets, delivery, records, received, scheduler, loop,
            stopping, entries, adapter, jobs, timers, phase, runs, late, hooks, shutdown,
            drain, cache, caller, backend, stored, tagged, origin, loader, outdated,
            recent>>

MCInit ==
    /\ part \in {"saga", "workflow", "erasure", "webhooks", "replay", "jobs", "drain",
                "aside", "caches"}
    /\ part # "workflow" => shares = TRUE
    /\ part # "webhooks" => targets = <<>>
    /\ part # "jobs" => adapter = "memory"
    /\ part # "caches" => backend = "lru"
    /\ Init
    /\ Flow!Init /\ Flow!ErasureInit /\ Again!WebhookInit /\ Again!ReplayInit /\ Life!JobInit
    /\ Life!ShutdownInit /\ Caching!AsideInit /\ Caching!LoadingInit

MCNext ==
    /\ UNCHANGED part
    /\ IF part = "saga" THEN Next ELSE UNCHANGED vars
    /\ IF part = "workflow" THEN Flow!Next ELSE UNCHANGED <<shares, instance, trigger, crossed>>
    /\ IF part = "erasure" THEN Flow!ErasureNext ELSE UNCHANGED <<handlers, request, holds, consent>>
    /\ IF part = "webhooks" THEN Again!WebhookNext
       ELSE UNCHANGED <<endpoint, targets, delivery, records, received>>
    /\ IF part = "replay" THEN Again!ReplayNext
       ELSE UNCHANGED <<scheduler, loop, stopping, entries>>
    /\ IF part = "jobs" THEN Life!JobNext
       ELSE UNCHANGED <<adapter, jobs, timers, phase, runs, late>>
    /\ IF part = "drain" THEN Life!ShutdownNext ELSE UNCHANGED <<hooks, shutdown, drain>>
    /\ IF part = "aside" THEN Caching!AsideNext ELSE UNCHANGED <<cache, caller>>
    /\ IF part = "caches" THEN Caching!LoadingNext
       ELSE UNCHANGED <<backend, stored, tagged, origin, loader, outdated, recent>>

(* A POST ends, with an answer or with the timeout of the client; the event *)
(* loop runs the replay loops, the shutdown and the callers of a cache; and *)
(* a loop that is cancelled again and again gets to list the dead letters   *)
(* now and then.                                                            *)
MCFairness ==
    /\ WF_<<endpoint, targets, delivery, records, received>>(part = "webhooks" /\ Again!post)
    /\ \A l \in 1..2 : WF_<<scheduler, loop, stopping, entries>>(part = "replay" /\ Again!LoopStep(l))
    /\ SF_<<scheduler, loop, stopping, entries>>(part = "replay" /\ \E l \in 1..2 : Again!list(l))
    /\ WF_<<hooks, shutdown, drain>>(part = "drain" /\ Life!Progress)
    /\ \A c \in Callers : WF_<<cache, caller>>(part = "aside" /\ Caching!get_or_load(c))

MCSpec == MCInit /\ [][MCNext]_MCvars /\ MCFairness

-----------------------------------------------------------------------------
(* The properties below join those of the parts, whose modules state their  *)
(* exceptions.                                                              *)

(* The state of every part has its type. *)
TypesOK ==
    /\ TypeOK /\ Flow!TypeOK /\ Flow!ErasureTypeOK /\ Again!TypeOK /\ Life!TypeOK
    /\ Caching!TypeOK

(* The history of a workflow is a path through its transitions, and a       *)
(* loaded copy that was not saved changes nothing.                          *)
WorkflowsFollowTheirPaths ==
    /\ []Flow!HistoryIsAPath /\ Flow!CopiesChangeOnlyOnSave

(* Reports are true: a delivery record tells what its endpoint received, an *)
(* erasure reported as a success has erased everything, and one loop at a   *)
(* time replays dead letters.                                               *)
ReportedMeansDone ==
    /\ []TypesOK /\ []Again!RecordsTruthful /\ []Again!OneLoopUnlessOverlapped
    /\ Flow!SuccessMeansErased

(* Every job that should be has its timer, and no other; the shutdown is    *)
(* triggered once and runs its hooks last registered first.                 *)
StartsAndStopsInOrder ==
    /\ []Life!TimersMatchJobs /\ []Life!HooksRunLastFirst /\ Life!TriggeredOnce

(* A cache loads a key once at a time where it locks, is stale only where   *)
(* an update overlapped a load, and evicts another key than the one used    *)
(* last.                                                                    *)
CachesCoherent ==
    /\ []Caching!OneLoader /\ []Caching!StaleOnlyAfterRace
    /\ []Caching!StaleOnlyIfOutdated /\ Caching!KeepsMostRecent

(* A dispatch to webhooks, a batch of dead letters, a shutdown and a load   *)
(* through a cache end, whatever fails or hangs in between.                 *)
ProcessesEnd ==
    /\ Caching!EveryCallEnds /\ (part = "webhooks" => Again!DispatchEnds)
    /\ Again!BatchIsWorkedOff /\ Life!ShutdownEnds
=============================================================================
