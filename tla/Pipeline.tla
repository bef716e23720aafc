------------------------------ MODULE Pipeline ------------------------------
(* A command in its chain of middlewares, and the units of work it runs in. *)
EXTENDS Naturals, Sequences, FiniteSets

(* Pipeline.execute and the middlewares of application/pipeline: a command  *)
(* goes in through the chain, the result or the exception comes back out.   *)

CONSTANTS
    Kinds,        \* the middlewares in use
    MaxLength,    \* how many of them at most
    max_attempts

ASSUME PipelineAssumption == MaxLength \in Nat /\ max_attempts \in Nat \ {0}

VARIABLES
    chain,    \* the middlewares, the outermost first; never changes
    at,       \* the position of the call: 0 the caller, Len(chain) + 1 the handler
    outcome,  \* "in" on the way in, then "ok", "error" or "cancelled"
    tries,    \* attempts of the retry middleware
    marks,    \* committed, audited (events), counted (calls and errors), passes
    upset     \* history: something raised between a commit and the retry around it

pipeline_vars == <<chain, at, outcome, tries, marks, upset>>

Size == Len(chain)
Pos(kind) == {i \in 1..Size : chain[i] = kind}
Has(kind) == Pos(kind) # {}
Outside(k1, k2) == \E i \in Pos(k1), j \in Pos(k2) : i < j

ChainTypeOK ==
    /\ chain \in Seq(Kinds) /\ at \in 0..(Size + 1) /\ outcome \in {"in", "ok", "error", "cancelled"}
    /\ tries \in 1..max_attempts /\ upset \in BOOLEAN
    /\ marks \in [committed : Nat, audited : Nat, counted : Nat, passes : Nat]

(* Pipeline.add, then execute. *)
ChainInit ==
    /\ chain \in UNION {[1..l -> Kinds] : l \in 1..MaxLength}
    /\ \A i, j \in 1..Size : chain[i] = chain[j] => i = j
    /\ at = 1 /\ outcome = "in" /\ tries = 1 /\ upset = FALSE
    /\ marks = [committed |-> 0, audited |-> 0, counted |-> 0, passes |-> 0]

In(kind) == at \in Pos(kind) /\ outcome = "in"
Out(kind) == at \in Pos(kind) /\ outcome # "in"
Inward == at' = at + 1 /\ UNCHANGED outcome
Outward(o) == at' = at - 1 /\ outcome' = o

(* The handler raises or returns. *)
handle ==
    /\ at = Size + 1 /\ outcome = "in"
    /\ \E o \in {"ok", "error"} : Outward(o)
    /\ UNCHANGED <<chain, tries, marks, upset>>

(* Authz and Validation may raise before they call on; Correlation stamps. *)
enter ==
    /\ outcome = "in" /\ at \in 1..Size
    /\ marks' = IF chain[at] = "metrics" THEN [marks EXCEPT !.passes = @ + 1] ELSE marks
    /\ Inward \/ (chain[at] \in {"authz", "validation"} /\ Outward("error"))
    /\ UNCHANGED <<chain, tries, upset>>

(* Authz, Validation and Correlation add nothing on the way out; Logging   *)
(* and Tracing note the outcome and pass it on.                            *)
leave_plain ==
    /\ outcome # "in" /\ at \in 1..Size /\ chain[at] \in {"authz", "validation", "logging"}
    /\ Outward(outcome)
    /\ UNCHANGED <<chain, tries, marks, upset>>

(* Plausible slips in the definitions below, used to test the properties. *)
leave_metrics_on_success ==
    /\ Out("metrics") /\ Outward(outcome)
    /\ marks' = IF outcome = "ok" THEN [marks EXCEPT !.counted = @ + 1] ELSE marks
    /\ UNCHANGED <<chain, tries, upset>>
leave_audit_swallowing ==
    /\ Out("audit")
    /\ marks' = [marks EXCEPT !.audited = IF outcome = "ok" THEN @ + 1 ELSE @]
    /\ Outward(outcome)
    /\ UNCHANGED <<chain, tries, upset>>
leave_retry_forever ==
    /\ Out("retry")
    /\ IF outcome = "error" THEN at' = at + 1 /\ outcome' = "in" ELSE Outward(outcome)
    /\ UNCHANGED <<chain, tries, marks, upset>>
leave_retry_once_more ==
    /\ Out("retry")
    /\ IF outcome = "error" /\ tries <= max_attempts
       THEN tries' = tries + 1 /\ at' = at + 1 /\ outcome' = "in"
       ELSE Outward(outcome) /\ UNCHANGED tries
    /\ UNCHANGED <<chain, marks, upset>>
Commits_always(o) == o \in {"ok", "error"}

(* `except Exception` does not see a CancelledError: nothing is counted. *)
leave_metrics ==
    /\ Out("metrics") /\ Outward(outcome)
    /\ marks' = IF outcome = "cancelled" THEN marks ELSE [marks EXCEPT !.counted = @ + 1]
    /\ UNCHANGED <<chain, tries, upset>>

(* The event is recorded for "allow" and "deny"; the store may raise. *)
leave_audit ==
    /\ Out("audit")
    /\ IF outcome = "cancelled" THEN Outward(outcome) /\ UNCHANGED <<marks, upset>>
       ELSE \/ Outward(outcome) /\ marks' = [marks EXCEPT !.audited = @ + 1] /\ UNCHANGED upset
            \/ Outward("error") /\ upset' = TRUE /\ UNCHANGED marks
    /\ UNCHANGED <<chain, tries>>

(* UnitOfWork.__aexit__ commits on a clean exit, rolls back on any other. *)
Commits(o) == o = "ok"
leave_uow ==
    /\ Out("uow")
    /\ IF Commits(outcome)
       THEN \/ Outward(outcome) /\ marks' = [marks EXCEPT !.committed = @ + 1]
            \/ Outward("error") /\ UNCHANGED marks
       ELSE Outward(outcome) /\ UNCHANGED marks
    /\ UNCHANGED <<chain, tries, upset>>

(* RetryPolicy.execute_async around the rest of the chain. *)
leave_retry ==
    /\ Out("retry")
    /\ IF outcome = "error" /\ tries < max_attempts
       THEN tries' = tries + 1 /\ at' = at + 1 /\ outcome' = "in"
       ELSE Outward(outcome) /\ UNCHANGED tries
    /\ UNCHANGED <<chain, marks, upset>>

(* asyncio.wait_for cancels what is under way inside, and turns the        *)
(* cancellation it caused into an AppTimeoutError.                         *)
timeout ==
    /\ Has("timeout") /\ outcome # "cancelled" /\ \E i \in Pos("timeout") : at > i
    /\ outcome' = "cancelled"
    /\ at' = IF outcome = "in" THEN at - 1 ELSE at
    /\ upset' = (upset \/ marks.committed > 0)
    /\ UNCHANGED <<chain, tries, marks>>
leave_timeout ==
    /\ Out("timeout")
    /\ Outward(IF outcome = "cancelled" THEN "error" ELSE outcome)
    /\ UNCHANGED <<chain, tries, marks, upset>>

ChainNext ==
    \/ handle \/ enter \/ leave_plain \/ leave_metrics \/ leave_audit \/ leave_uow
    \/ leave_retry \/ timeout \/ leave_timeout

ChainSpec == ChainInit /\ [][ChainNext]_pipeline_vars

CommandOver == at = 0
-----------------------------------------------------------------------------
(* Every command that passes the metrics middleware is counted as a call   *)
(* or as an error; only one that a timeout outside of it cancels is not.   *)
CountedUnlessCancelled ==
    CommandOver /\ ~Outside("timeout", "metrics") => marks.counted = marks.passes

(* A command that was executed has its audit event, unless the audit store *)
(* failed or a timeout outside of it cancelled the recording.              *)
AuditedUnlessCancelled ==
    CommandOver /\ Has("audit") /\ ~Outside("timeout", "audit") /\ ~upset
       /\ ~Outside("authz", "audit") /\ ~Outside("validation", "audit")
    => marks.audited >= 1

(* The transaction of a command is committed once if the caller is told it *)
(* succeeded and at most once in any case; it takes a failure after the    *)
(* commit, inside the retry middleware, to commit it again.                *)
CommittedOnce ==
    /\ CommandOver /\ outcome = "ok" /\ Has("uow") => marks.committed >= 1
    /\ ~upset => marks.committed <= 1

(* A caller always gets an answer. *)
CommandEnds == <>CommandOver

-----------------------------------------------------------------------------
(* SqlAlchemyUnitOfWork, MongoUnitOfWork and @transactional: the session of *)
(* one unit-of-work object, entered once or, by a decorated method that     *)
(* calls another, again inside itself.                                      *)

CONSTANTS MaxSessions

ASSUME SessionsAssumption == MaxSessions \in Nat

VARIABLES
    kind,      \* "sqlalchemy" or "mongo"; never changes
    session,   \* uow.session: the one in use, 0 for None
    sessions,  \* per session: "open", "closed"; its work "none", "pending", "kept", "undone"
    depth,     \* blocks entered and not left, each with the session it opened
    nested,    \* history: a block was entered inside another
    broke      \* history: commit or rollback raised

uow_vars == <<kind, session, sessions, depth, nested, broke>>

UowTypeOK ==
    /\ kind \in {"sqlalchemy", "mongo"} /\ session \in 0..MaxSessions
    /\ sessions \in Seq([status : {"open", "closed"}, work : {"none", "pending", "kept", "undone"}])
    /\ depth \in Seq(1..MaxSessions) /\ nested \in BOOLEAN /\ broke \in BOOLEAN

UowInit ==
    /\ kind \in {"sqlalchemy", "mongo"}
    /\ session = 0 /\ sessions = <<>> /\ depth = <<>> /\ nested = FALSE /\ broke = FALSE

(* __aenter__ puts a new session in place of whatever is there. *)
aenter ==
    /\ Len(sessions) < MaxSessions
    /\ sessions' = Append(sessions, [status |-> "open", work |-> "none"])
    /\ session' = Len(sessions) + 1
    /\ depth' = Append(depth, session')
    /\ nested' = (nested \/ depth # <<>>)
    /\ UNCHANGED <<kind, broke>>

(* A repository writes through uow.session. *)
write ==
    /\ depth # <<>> /\ sessions[session].status = "open"
    /\ sessions' = [sessions EXCEPT ![session].work = "pending"]
    /\ UNCHANGED <<kind, session, depth, nested, broke>>

(* Plausible slips in the definitions below, used to test the properties. *)
Closes_if_ok(ok) == ok

(* Mongo ends the session in a finally; SQLAlchemy's close() is skipped    *)
(* when commit or rollback raises.                                         *)
Closes(ok) == ok \/ kind = "mongo"
Work(clean, ok) == IF clean /\ ok THEN "kept" ELSE "undone"

(* __aexit__, after a clean body or an exception; commit and rollback may  *)
(* raise.                                                                  *)
aexit ==
    /\ depth # <<>>
    /\ \E clean, ok \in BOOLEAN :
          /\ sessions' = [sessions EXCEPT
                ![session].status = IF Closes(ok) THEN "closed" ELSE @,
                ![session].work = IF @ = "pending" THEN Work(clean, ok) ELSE @]
          /\ broke' = (broke \/ ~ok)
    /\ depth' = SubSeq(depth, 1, Len(depth) - 1)
    /\ UNCHANGED <<kind, session, nested>>

UowNext == aenter \/ write \/ aexit
UowSpec == UowInit /\ [][UowNext]_uow_vars

-----------------------------------------------------------------------------
(* Once the blocks are left no session stays open and no work stays        *)
(* undecided.  Two things break it: a decorated method that calls another  *)
(* on the same object (the outer session is overwritten and lost), and     *)
(* with SQLAlchemy a commit or rollback that raises.                       *)
SessionsAreClosed ==
    depth = <<>> /\ ~nested =>
        \A i \in DOMAIN sessions :
            /\ sessions[i].work # "pending"
            /\ sessions[i].status = "closed" \/ (broke /\ kind = "sqlalchemy")

-----------------------------------------------------------------------------
PipelineTypeOK == ChainTypeOK /\ UowTypeOK

(* However a command ends, short of a cancellation it is counted and        *)
(* audited as it ended; its work is committed once; and no session is left  *)
(* open.                                                                    *)
CommandsAccounted ==
    /\ PipelineTypeOK /\ CountedUnlessCancelled /\ AuditedUnlessCancelled
    /\ CommittedOnce /\ SessionsAreClosed
=============================================================================
