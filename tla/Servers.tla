------------------------------ MODULE Servers -------------------------------
(* A call on its way through the interceptors of a server, over HTTP and    *)
(* gRPC.                                                                    *)
EXTENDS Naturals, Sequences, FiniteSets

(* The FastAPI middlewares: requests going in through a stack of them, with  *)
(* the context variables they set, and the answers going out.                *)

CONSTANTS Requests, Layers, MaxLayers, Unset   \* Unset is the None of the code

ASSUME LayersAssumption == MaxLayers \in Nat

VARIABLES
    stack,     \* the middlewares, the outermost first; never changes
    server,    \* "task" per request, or "inline" (a transport that awaits the app itself)
    require,   \* require_tenant and require_auth; never changes
    layer,     \* per request: where it is, 0 outside, Len(stack) + 1 the handler
    context,   \* per request: TenantContext, SecurityContext, CorrelationContext (whose?)
    base,      \* the context of the task that the inline server runs in
    webhook_body,  \* per request: Unset, "whole" or "part" (the client went away)
    seen,      \* per request: the context its handler saw
    reply,     \* per request: Unset or the status sent
    counted,   \* per request: the statuses that the metrics middleware counted
    raised     \* history: requests whose handler raised what no exception handler maps

asgi_vars == <<stack, server, require, layer, context, base, webhook_body, seen, reply, counted, raised>>

Fields == {"tenant", "principal", "correlation"}
Blank == [f \in Fields |-> Unset]
Contexts == [Fields -> Requests \cup {Unset}]
Statuses == {200, 400, 401, 429, 500, 503}

ASSUME UnsetAssumption == Unset \notin Statuses

n == Len(stack)
Has(kind) == \E i \in 1..n : stack[i] = kind
At(r, kind) == layer[r] \in 1..n /\ stack[layer[r]] = kind

AsgiTypeOK ==
    /\ stack \in Seq(Layers) /\ server \in {"task", "inline"} /\ require \in BOOLEAN
    /\ layer \in [Requests -> 0..(n + 1)] /\ context \in [Requests -> Contexts] /\ base \in Contexts
    /\ webhook_body \in [Requests -> {Unset, "whole", "part"}]
    /\ seen \in [Requests -> Contexts \cup {Unset}]
    /\ reply \in [Requests -> Statuses \cup {Unset}]
    /\ counted \in [Requests -> Seq(Statuses)] /\ raised \subseteq Requests

AsgiInit ==
    /\ stack \in UNION {[1..l -> Layers] : l \in 1..MaxLayers}
    /\ \A i, j \in 1..n : stack[i] = stack[j] => i = j
    /\ server \in {"task", "inline"} /\ require \in BOOLEAN
    /\ layer = [r \in Requests |-> 0] /\ context = [r \in Requests |-> Blank] /\ base = Blank
    /\ webhook_body = [r \in Requests |-> Unset] /\ seen = [r \in Requests |-> Unset]
    /\ reply = [r \in Requests |-> Unset] /\ counted = [r \in Requests |-> <<>>] /\ raised = {}

fixed == <<stack, server, require>>
Active == {r \in Requests : layer[r] # 0}

arrive(r) ==
    /\ layer[r] = 0 /\ reply[r] = Unset
    /\ server = "inline" => Active = {}
    /\ layer' = [layer EXCEPT ![r] = 1]
    /\ context' = [context EXCEPT ![r] = IF server = "inline" THEN base ELSE Blank]
    /\ UNCHANGED <<fixed, base, webhook_body, seen, reply, counted, raised>>

(* Plausible slips in the definitions below, used to test the properties. *)
Counted_as_200(r, status, unmapped) == Append(counted[r], 200)
Replied_not(r, status) == reply
Assign_shared(r, field) == context' = [q \in Requests |-> [context[q] EXCEPT ![field] = r]]
Verified_always(r) == TRUE

(* FastAPIMetricsMiddleware, in a finally: the status of the response that *)
(* started, 200 if none did.                                               *)
Counted(r, status, unmapped) ==
    IF \E i \in 1..n : stack[i] = "metrics" /\ i < layer[r]
    THEN Append(counted[r], IF unmapped THEN 200 ELSE status) ELSE counted[r]

Replied(r, status) == [reply EXCEPT ![r] = status]

(* The response starts, and the call returns through the layers outside:   *)
(* what raises past them is answered with 500 by the framework.            *)
Answer(r, status, unmapped) ==
    /\ reply' = Replied(r, status)
    /\ counted' = [counted EXCEPT ![r] = Counted(r, status, unmapped)]
    /\ layer' = [layer EXCEPT ![r] = 0]
    /\ base' = IF server = "inline" THEN context'[r] ELSE base

Inward(r) == layer' = [layer EXCEPT ![r] = @ + 1] /\ UNCHANGED <<base, reply, counted>>
Assign(r, field) == context' = [context EXCEPT ![r][field] = r]
Reject(r, status) == UNCHANGED context /\ Answer(r, status, FALSE)

(* Correlation (any of its headers or a new id) and RequestContext. *)
correlation(r) ==
    /\ At(r, "correlation") /\ Assign(r, "correlation") /\ Inward(r)
    /\ UNCHANGED <<fixed, webhook_body, seen, raised>>

tenant(r) ==
    /\ At(r, "tenant")
    /\ \/ Assign(r, "tenant") /\ Inward(r)
       \/ require /\ Reject(r, 400)
       \/ ~require /\ UNCHANGED context /\ Inward(r)
    /\ UNCHANGED <<fixed, webhook_body, seen, raised>>

(* A verifier that raises counts as no principal. *)
security(r) ==
    /\ At(r, "security")
    /\ \/ Assign(r, "principal") /\ Inward(r)
       \/ require /\ Reject(r, 401)
       \/ ~require /\ UNCHANGED context /\ Inward(r)
    /\ UNCHANGED <<fixed, webhook_body, seen, raised>>

rate_limit(r) ==
    /\ At(r, "rate_limit")
    /\ (UNCHANGED context /\ Inward(r)) \/ Reject(r, 429)
    /\ UNCHANGED <<fixed, webhook_body, seen, raised>>

(* The metrics and the security headers middlewares act on the way out. *)
enter(r) ==
    /\ At(r, "metrics") \/ At(r, "headers")
    /\ UNCHANGED context /\ Inward(r)
    /\ UNCHANGED <<fixed, webhook_body, seen, raised>>

(* The body is buffered until there is no more; a disconnect ends it too. *)
webhook_receive(r) ==
    /\ At(r, "webhook") /\ webhook_body[r] = Unset
    /\ \E b \in {"whole", "part"} : webhook_body' = [webhook_body EXCEPT ![r] = b]
    /\ UNCHANGED <<fixed, layer, context, base, seen, reply, counted, raised>>

(* The signature is one of the whole body, if there is one. *)
Verified(r) == webhook_body[r] = "whole"
webhook(r) ==
    /\ At(r, "webhook") /\ webhook_body[r] # Unset
    /\ (Verified(r) /\ UNCHANGED context /\ Inward(r)) \/ Reject(r, 401)
    /\ UNCHANGED <<fixed, webhook_body, seen, raised>>

(* The endpoint returns, raises an error that FastAPIExceptionMapper maps  *)
(* (answered inside the stack), or raises something else.                  *)
handler(r) ==
    /\ layer[r] = n + 1
    /\ seen' = [seen EXCEPT ![r] = context[r]]
    /\ UNCHANGED context
    /\ \/ \E status \in {200, 503} : Answer(r, status, FALSE) /\ UNCHANGED raised
       \/ Answer(r, 500, TRUE) /\ raised' = raised \cup {r}
    /\ UNCHANGED <<fixed, webhook_body>>

RequestStep(r) ==
    \/ correlation(r) \/ tenant(r) \/ security(r) \/ rate_limit(r) \/ enter(r)
    \/ webhook_receive(r) \/ webhook(r) \/ handler(r)
AsgiNext == \E r \in Requests : arrive(r) \/ RequestStep(r)
AsgiSpec == AsgiInit /\ [][AsgiNext]_asgi_vars

-----------------------------------------------------------------------------
(* A handler sees its own request's correlation id, tenant and principal.  *)
(* The middlewares never reset the context variables, so that a request    *)
(* without a tenant or token sees the one before it when the server gives  *)
(* it no task of its own and neither is required.                          *)
OwnContext ==
    \A r \in Requests : seen[r] # Unset =>
        /\ Has("correlation") => seen[r].correlation = r
        /\ require => (Has("tenant") => seen[r].tenant = r) /\ (Has("security") => seen[r].principal = r)
        /\ server = "task" => \A f \in Fields : seen[r][f] \in {Unset, r}

(* A request that passes the metrics middleware is counted once, under the *)
(* status it was answered with, except that an exception nobody maps is    *)
(* counted as a 200 and not as an error.                                   *)
CountedAsAnswered ==
    \A r \in Requests : counted[r] # <<>> =>
        counted[r] = <<IF r \in raised THEN 200 ELSE reply[r]>>

(* Behind the webhook middleware a handler never reads half a body. *)
WholeBodyOnly == \A r \in Requests : seen[r] # Unset /\ Has("webhook") => webhook_body[r] = "whole"

(* Every request that arrives is answered, whichever layer stops it. *)
RequestsAnswered == \A r \in Requests : layer[r] # 0 ~> reply[r] # Unset

-----------------------------------------------------------------------------
(* One unary or streaming RPC through the client interceptors (retry), the  *)
(* network, and the server interceptors (correlation, auth, metrics).       *)

CONSTANTS max_retries

ASSUME RetriesAssumption == max_retries \in Nat

VARIABLES
    wrappers,   \* the server interceptors, the outermost first; never changes
    method,     \* "public", "private" or "unknown" to the server; never changes
    call,       \* "start", "sent", "in", "handling", "out", "answered", "done"
    depth,      \* how many wrappers the call has entered
    code,       \* status code of the RPC
    recorded,   \* what the metrics wrapper recorded: "OK", "ERROR"
    retries,    \* attempts of RetryClientInterceptor after the first
    handled,    \* how often the handler ran
    turned_away    \* history: _AuthWrapper turned the call away

grpc_vars == <<wrappers, method, call, depth, code, recorded, retries, handled, turned_away>>

Codes == {"none", "OK", "UNAUTHENTICATED", "UNKNOWN", "UNIMPLEMENTED", "UNAVAILABLE", "CANCELLED"}
Kinds == {"correlation", "auth", "metrics"}

GrpcTypeOK ==
    /\ wrappers \in Seq(Kinds) /\ method \in {"public", "private", "unknown"}
    /\ call \in {"start", "sent", "in", "handling", "out", "answered", "done"}
    /\ depth \in 0..Len(wrappers) /\ code \in Codes /\ recorded \in Seq({"OK", "ERROR"})
    /\ retries \in 0..max_retries /\ handled \in Nat /\ turned_away \in BOOLEAN

GrpcInit ==
    /\ wrappers \in UNION {[1..l -> Kinds] : l \in 0..3}
    /\ \A i, j \in DOMAIN wrappers : wrappers[i] = wrappers[j] => i = j
    /\ method \in {"public", "private", "unknown"}
    /\ call = "start" /\ depth = 0 /\ code = "none" /\ recorded = <<>> /\ retries = 0
    /\ handled = 0 /\ turned_away = FALSE

(* continuation() only starts the call and returns the call object; an     *)
(* error raised while it is started goes to the retry policy.              *)
start ==
    /\ call = "start"
    /\ \/ call' = "sent" /\ UNCHANGED <<retries, code>>
       \/ retries < max_retries /\ retries' = retries + 1 /\ UNCHANGED <<call, code>>
       \/ retries = max_retries /\ call' = "done" /\ code' = "UNAVAILABLE" /\ UNCHANGED retries
    /\ UNCHANGED <<wrappers, method, depth, recorded, handled, turned_away>>

(* Outside of public methods the auth interceptor wraps too. *)
Wraps(kind) == kind # "auth" \/ method # "public"
Wrapped == \E i \in DOMAIN wrappers : Wraps(wrappers[i])

(* The interceptors wrap whatever continuation() returns: a wrapper around *)
(* None (no such method) fails with AttributeError when it is called.      *)
route ==
    /\ call = "sent"
    /\ IF method = "unknown"
       THEN call' = "answered" /\ code' = IF Wrapped THEN "UNKNOWN" ELSE "UNIMPLEMENTED"
       ELSE call' = "in" /\ code' = code
    /\ UNCHANGED <<wrappers, method, depth, recorded, retries, handled, turned_away>>

Inner == wrappers[depth + 1]

(* _inject and _record's clock; _validate sets the code and returns. *)
grpc_enter ==
    /\ call = "in" /\ depth < Len(wrappers)
    /\ \/ depth' = depth + 1 /\ UNCHANGED <<call, code, turned_away>>
       \/ /\ Inner = "auth" /\ Wraps("auth")
          /\ call' = "out" /\ code' = "UNAUTHENTICATED" /\ turned_away' = TRUE /\ UNCHANGED depth
    /\ UNCHANGED <<wrappers, method, recorded, retries, handled>>

handle ==
    /\ call = "in" /\ depth = Len(wrappers)
    /\ call' = "handling" /\ handled' = handled + 1
    /\ UNCHANGED <<wrappers, method, depth, code, recorded, retries, turned_away>>

(* The handler returns (or its stream ends), raises, or is cancelled. *)
finish ==
    /\ call = "handling" /\ call' = "out"
    /\ \E c \in {"OK", "UNKNOWN", "CANCELLED"} : code' = c
    /\ UNCHANGED <<wrappers, method, depth, recorded, retries, handled, turned_away>>

(* Plausible slips in the definitions below, used to test the properties. *)
Recorded_if_ok == IF code = "OK" THEN Append(recorded, "OK") ELSE recorded
Recorded_as_ok == Append(recorded, "OK")
await_retrying ==
    /\ call = "answered"
    /\ IF code = "UNAVAILABLE" /\ retries < max_retries
       THEN call' = "start" /\ depth' = 0 /\ retries' = retries + 1
       ELSE call' = "done" /\ UNCHANGED <<depth, retries>>
    /\ UNCHANGED <<wrappers, method, code, recorded, handled, turned_away>>

(* Only an Exception makes it "ERROR": neither a cancellation nor the None  *)
(* that _AuthWrapper returns does.  Recorded in a finally.                 *)
Recorded == Append(recorded, IF code = "UNKNOWN" THEN "ERROR" ELSE "OK")

leave_wrapper ==
    /\ call = "out"
    /\ IF depth = 0 THEN call' = "answered" /\ UNCHANGED <<depth, recorded>>
       ELSE /\ depth' = depth - 1 /\ UNCHANGED call
            /\ recorded' = IF wrappers[depth] = "metrics" THEN Recorded ELSE recorded
    /\ UNCHANGED <<wrappers, method, code, retries, handled, turned_away>>

(* The client awaits the call object: a failure surfaces here, outside of  *)
(* the retry policy.                                                       *)
await ==
    /\ call = "answered" /\ call' = "done"
    /\ UNCHANGED <<wrappers, method, depth, code, recorded, retries, handled, turned_away>>

(* The server goes away before it answers. *)
lose ==
    /\ call \in {"sent", "in", "handling"}
    /\ call' = "answered" /\ code' = "UNAVAILABLE"
    /\ UNCHANGED <<wrappers, method, depth, recorded, retries, handled, turned_away>>

GrpcNext == start \/ route \/ grpc_enter \/ handle \/ finish \/ leave_wrapper \/ await \/ lose
GrpcSpec == GrpcInit /\ [][GrpcNext]_grpc_vars

-----------------------------------------------------------------------------
(* An RPC that passed the metrics wrapper is recorded exactly once when it *)
(* ends, also when it is cancelled or turned away further in.              *)
RecordedOnce ==
    call = "done" /\ (handled = 1 \/ turned_away) /\ code # "UNAVAILABLE" =>
        Len(recorded) = (IF \E i \in DOMAIN wrappers :
            wrappers[i] = "metrics" /\ (turned_away => \E j \in DOMAIN wrappers : wrappers[j] = "auth" /\ i < j)
            THEN 1 ELSE 0)

(* A call recorded as an error failed, and one that failed is recorded as  *)
(* an error unless it was cancelled or turned away (both count as OK).     *)
RecordedTruthfully ==
    call = "done" /\ recorded # <<>> =>
        (recorded[1] = "ERROR" <=> code \notin {"OK", "CANCELLED", "UNAUTHENTICATED"})

(* The handler runs at most once, whatever is retried, and never for a     *)
(* call that was turned away.                                              *)
HandledOnce == handled <= 1 /\ (turned_away => handled = 0)

-----------------------------------------------------------------------------
ServersTypeOK == AsgiTypeOK /\ GrpcTypeOK

(* A handler sees the context of its own request and the whole body, and    *)
(* what the metrics record of a call, once, is how it was answered.         *)
AnsweredAndRecorded ==
    /\ ServersTypeOK /\ OwnContext /\ CountedAsAnswered /\ WholeBodyOnly
    /\ RecordedOnce /\ RecordedTruthfully /\ HandledOnce
=============================================================================
