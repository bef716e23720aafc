----------------------------- MODULE Lifecycle ------------------------------
(* What a service starts and stops with: its scheduled jobs and its         *)
(* shutdown hooks.                                                          *)
EXTENDS Naturals, FiniteSets, Sequences, SequencesExt

(* InMemoryScheduler and APSchedulerAdapter of application/scheduler, with  *)
(* JobExecutionContext.run.                                                 *)

CONSTANTS Jobs, MaxRuns

VARIABLES
    adapter,    \* "memory" (triggered by hand) or "apscheduler" (timers); fixed
    jobs,       \* _jobs
    timers,     \* the schedules registered with APScheduler
    phase,      \* "new", "started", "stopped"
    runs,       \* per job: handlers under way
    late        \* history: jobs added or removed since start()

scheduler_vars == <<adapter, jobs, timers, phase, runs, late>>

JobTypeOK ==
    /\ adapter \in {"memory", "apscheduler"} /\ phase \in {"new", "started", "stopped"}
    /\ jobs \subseteq Jobs /\ timers \subseteq Jobs /\ late \subseteq Jobs
    /\ runs \in [Jobs -> 0..MaxRuns]

JobInit ==
    /\ adapter \in {"memory", "apscheduler"} /\ phase = "new"
    /\ jobs = {} /\ timers = {} /\ late = {} /\ runs = [j \in Jobs |-> 0]

Change(j, js) ==
    /\ jobs' = js
    /\ late' = IF phase = "started" THEN late \cup {j} ELSE late
    /\ UNCHANGED <<adapter, timers, phase, runs>>
add_job(j) == Change(j, jobs \cup {j})
remove_job(j) == Change(j, jobs \ {j})

(* Plausible slips in the definitions below, used to test the properties. *)
run_unscheduling(j) ==
    /\ runs[j] > 0 /\ runs' = [runs EXCEPT ![j] = @ - 1]
    /\ timers' \in {timers, timers \ {j}}
    /\ UNCHANGED <<adapter, jobs, phase, late>>

(* start() registers the jobs known by then with APScheduler. *)
start ==
    /\ phase = "new" /\ phase' = "started"
    /\ timers' = IF adapter = "apscheduler" THEN jobs ELSE timers
    /\ UNCHANGED <<adapter, jobs, runs, late>>
stop ==
    /\ phase = "started" /\ phase' = "stopped" /\ timers' = {}
    /\ UNCHANGED <<adapter, jobs, runs, late>>

(* trigger(job_id), started or not; or a timer.  Neither looks at           *)
(* Job.enabled nor at a run of the same job under way.                      *)
fire(j) ==
    /\ j \in IF adapter = "memory" THEN jobs ELSE timers
    /\ runs[j] < MaxRuns /\ runs' = [runs EXCEPT ![j] = @ + 1]
    /\ UNCHANGED <<adapter, jobs, timers, phase, late>>

(* The handler returns or raises; the context turns an exception into the *)
(* error of its event, so the scheduler sees neither.                     *)
run(j) ==
    /\ runs[j] > 0 /\ runs' = [runs EXCEPT ![j] = @ - 1]
    /\ UNCHANGED <<adapter, jobs, timers, phase, late>>

JobNext == start \/ stop \/ \E j \in Jobs : add_job(j) \/ remove_job(j) \/ fire(j) \/ run(j)

-----------------------------------------------------------------------------
(* While APScheduler runs it has a timer for exactly the listed jobs,      *)
(* whatever their handlers raise; a job added or removed after start() is  *)
(* the exception: the adapter only changes its own dictionary then.        *)
TimersMatchJobs ==
    adapter = "apscheduler" /\ phase = "started" => timers \ late = jobs \ late

-----------------------------------------------------------------------------
(* GracefulShutdown, resilience/graceful_shutdown.py: signals set an event, *)
(* wait() then calls the hooks, last registered first, within drain_timeout. *)

CONSTANTS MaxHooks, drain_timeout, Signals

VARIABLES
    hooks,     \* _hooks: the names 1, 2, ... in the order of registration
    shutdown,  \* by: the signal that set _event, "trigger" for trigger(), or
               \* "none" while the event is not set
    drain      \* run_hooks(): at, the hooks it has still to call (todo) and
               \* has called (called), and the time left

shutdown_vars == <<hooks, shutdown, drain>>

ShutdownTypeOK ==
    /\ hooks \in Seq(1..MaxHooks)
    /\ shutdown \in Signals \cup {"trigger", "none"}
    /\ drain \in [at : {"wait", "next", "hook", "end"}, todo : Seq(1..MaxHooks),
                  called : Seq(1..MaxHooks), left : 0..drain_timeout]

ShutdownInit ==
    /\ hooks = <<>>
    /\ shutdown = "none"
    /\ drain = [at |-> "wait", todo |-> <<>>, called |-> <<>>, left |-> drain_timeout]

(* on_shutdown and register; also while the hooks already run. *)
register ==
    /\ Len(hooks) < MaxHooks
    /\ hooks' = Append(hooks, Len(hooks) + 1)
    /\ UNCHANGED <<shutdown, drain>>

(* Plausible slips in the definitions below, used to test the properties. *)
handle_every_signal(s) == shutdown' = s /\ UNCHANGED <<hooks, drain>>
hook_ends_stopping ==
    /\ drain.at = "hook"
    /\ \E p \in {"next", "end"} : drain' = [drain EXCEPT !.at = p]
    /\ UNCHANGED <<hooks, shutdown>>
next_hook_waiting ==
    /\ drain.at = "next" /\ (drain.todo # <<>> \/ drain.left = 0)
    /\ drain' = IF drain.left = 0 THEN [drain EXCEPT !.at = "end"]
                ELSE [drain EXCEPT !.at = "hook", !.todo = Tail(@),
                                   !.called = Append(@, Head(drain.todo))]
    /\ UNCHANGED <<hooks, shutdown>>

(* _handle_signal and trigger(): only the first one counts. *)
handle_signal(s) ==
    /\ shutdown = "none"
    /\ shutdown' = s
    /\ UNCHANGED <<hooks, drain>>

Order == Reverse(hooks)

(* wait() returns from the event; run_hooks() copies the list. *)
run_hooks ==
    /\ drain.at = "wait" /\ shutdown # "none"
    /\ drain' = [drain EXCEPT !.at = "next", !.todo = Order]
    /\ UNCHANGED <<hooks, shutdown>>

(* The head of the loop: the time is over, or the hook is called. *)
next_hook ==
    /\ drain.at = "next"
    /\ drain' = IF drain.todo = <<>> \/ drain.left = 0 THEN [drain EXCEPT !.at = "end"]
                ELSE [drain EXCEPT !.at = "hook", !.todo = Tail(@),
                                   !.called = Append(@, Head(drain.todo))]
    /\ UNCHANGED <<hooks, shutdown>>

(* The hook returns or raises, or wait_for cancels it when time is up. *)
hook_ends ==
    /\ drain.at = "hook"
    /\ drain' = [drain EXCEPT !.at = "next"]
    /\ UNCHANGED <<hooks, shutdown>>

(* Time passes while a hook runs; an overdue coroutine hook is cancelled,  *)
(* and a synchronous one that takes longer leaves nothing to the others.   *)
Tick ==
    /\ drain.at = "hook" /\ drain.left > 0
    /\ drain' = [drain EXCEPT !.left = @ - 1]
    /\ UNCHANGED <<hooks, shutdown>>

Progress == run_hooks \/ next_hook \/ hook_ends
ShutdownNext == register \/ Tick \/ Progress \/ \E s \in Signals \cup {"trigger"} : handle_signal(s)

-----------------------------------------------------------------------------
(* A hook is called before all that were registered earlier, and every     *)
(* hook registered before the shutdown began is called, whatever the       *)
(* others raise, unless the time ran out.                                  *)
HooksRunLastFirst ==
    /\ \A i, j \in DOMAIN drain.called : i < j => drain.called[i] > drain.called[j]
    /\ drain.at = "end" /\ drain.left > 0 => drain.todo = <<>>

(* The signal a shutdown reports never changes: a second Ctrl-C during the *)
(* drain does not start it again.                                          *)
TriggeredOnce == [][shutdown # "none" => shutdown' = shutdown]_shutdown_vars

(* Once triggered, the shutdown ends. *)
ShutdownEnds == shutdown # "none" ~> drain.at = "end"

-----------------------------------------------------------------------------
TypeOK == JobTypeOK /\ ShutdownTypeOK
=============================================================================
