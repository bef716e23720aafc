---------------------------- MODULE ServerProofs ----------------------------
(* Theorems about the middlewares of the HTTP servers, for any stack of     *)
(* them and any number of requests, and the interceptors of gRPC, for any   *)
(* call.                                                                    *)
EXTENDS Servers, TLAPS

-----------------------------------------------------------------------------
(* The HTTP middlewares.                                                    *)

(* What the middleware at i leaves behind for a request that passes it. *)
Marked(r, i) ==
    /\ stack[i] = "correlation" => context[r]["correlation"] = r
    /\ require /\ stack[i] = "tenant" => context[r]["tenant"] = r
    /\ require /\ stack[i] = "security" => context[r]["principal"] = r
    /\ stack[i] = "webhook" => webhook_body[r] = "whole"

(* A request under way has the marks of the middlewares it has passed and,  *)
(* in a task of its own, nobody else's context.                             *)
UnderWay(r) ==
    /\ reply[r] = Unset
    /\ \A i \in 1..n : i < layer[r] => Marked(r, i)
    /\ server = "task" => \A f \in Fields : context[r][f] \in {Unset, r}

(* Nothing is known of a request that was not answered. *)
Unanswered(r) == counted[r] = <<>> /\ r \notin raised /\ seen[r] = Unset

AsgiInv ==
    /\ AsgiTypeOK
    /\ \A i, j \in 1..n : stack[i] = stack[j] => i = j
    /\ \A r \in Requests : layer[r] # 0 => UnderWay(r)
    /\ \A r \in Requests : reply[r] = Unset => Unanswered(r)
    /\ OwnContext /\ CountedAsAnswered /\ WholeBodyOnly

(* A server that has seen no request satisfies the invariant. *)
LEMMA AsgiStarts == AsgiInit => AsgiInv
<1> SUFFICES ASSUME AsgiInit
             PROVE  AsgiInv
  BY Zenon
<1>1. stack \in Seq(Layers) /\ n \in Nat
  <2>1. PICK l \in 1..MaxLayers : stack \in [1..l -> Layers]
    BY Zenon DEF AsgiInit
  <2>2. l \in Nat
    BY LayersAssumption
  <2>3. stack \in Seq(Layers)
    BY <2>1, <2>2
  <2>4. QED
    BY <2>3 DEF n
<1>2. Blank \in Contexts
  BY Zenon DEF Blank, Contexts
<1>3. /\ layer \in [Requests -> 0..(n + 1)] /\ context \in [Requests -> Contexts] /\ base \in Contexts
      /\ webhook_body \in [Requests -> {Unset, "whole", "part"}]
      /\ seen \in [Requests -> Contexts \cup {Unset}]
      /\ reply \in [Requests -> Statuses \cup {Unset}]
      /\ counted \in [Requests -> Seq(Statuses)] /\ raised \subseteq Requests
  BY <1>1, <1>2 DEF AsgiInit
<1>4. AsgiTypeOK
  BY <1>1, <1>3, Zenon DEF AsgiInit, AsgiTypeOK
<1>5. \A r \in Requests : layer[r] = 0 /\ Unanswered(r)
  BY Zenon DEF AsgiInit, Unanswered
<1>6. OwnContext /\ CountedAsAnswered /\ WholeBodyOnly
  BY <1>5, Zenon DEF Unanswered, OwnContext, CountedAsAnswered, WholeBodyOnly
<1>7. \A i, j \in 1..n : stack[i] = stack[j] => i = j
  BY Zenon DEF AsgiInit
<1>8. QED
  BY <1>4, <1>5, <1>6, <1>7, Zenon DEF AsgiInv

(* The middlewares of a server stay. *)
LEMMA StackKept ==
    ASSUME UNCHANGED fixed
    PROVE  /\ stack' = stack /\ server' = server /\ require' = require /\ n' = n
           /\ \A k : Has(k)' = Has(k)
  BY Zenon DEF fixed, n, Has

(* A request goes on inward: it leaves the mark of the middleware it was    *)
(* at, and the others are not touched.                                      *)
LEMMA OnwardStep ==
    ASSUME AsgiInv, NEW r \in Requests, NEW p \in 1..n, layer[r] = p, Inward(r),
           UNCHANGED <<fixed, webhook_body, seen, raised>>,
           UNCHANGED context \/ \E f \in Fields : Assign(r, f),
           Marked(r, p)'
    PROVE  AsgiInv'
<1>1. /\ stack' = stack /\ server' = server /\ require' = require /\ n' = n /\ \A k : Has(k)' = Has(k)
      /\ webhook_body' = webhook_body /\ seen' = seen /\ raised' = raised
      /\ base' = base /\ reply' = reply /\ counted' = counted
  BY StackKept, Zenon DEF Inward
<1>2. n \in Nat /\ layer \in [Requests -> 0..(n + 1)] /\ context \in [Requests -> Contexts]
  BY DEF AsgiInv, AsgiTypeOK, n
<1>3. /\ layer' \in [Requests -> 0..(n + 1)] /\ layer'[r] = layer[r] + 1
      /\ \A q \in Requests \ {r} : layer'[q] = layer[q]
  BY <1>2 DEF Inward
<1>4. /\ context' \in [Requests -> Contexts]
      /\ \A q \in Requests \ {r} : context'[q] = context[q]
      /\ \A f \in Fields : context'[r][f] \in {context[r][f], r}
  <2>1. CASE UNCHANGED context
    BY <1>2, <2>1, Zenon
  <2>2. ASSUME NEW f \in Fields, Assign(r, f)
        PROVE  <1>4!1 /\ <1>4!2 /\ <1>4!3
    <3>1. context[r] \in [Fields -> Requests \cup {Unset}]
      BY <1>2, Zenon DEF Contexts
    <3>2. /\ [context[r] EXCEPT ![f] = r] \in [Fields -> Requests \cup {Unset}]
          /\ \A g \in Fields : [context[r] EXCEPT ![f] = r][g] \in {context[r][g], r}
      BY <3>1, Zenon
    <3>3. context' = [context EXCEPT ![r] = [context[r] EXCEPT ![f] = r]]
      BY <2>2, Zenon DEF Assign
    <3>4. QED
      BY <1>2, <3>2, <3>3, Zenon DEF Contexts
  <2>3. QED
    BY <2>1, <2>2, Zenon
<1>5. AsgiTypeOK'
  BY <1>1, <1>3, <1>4, Zenon DEF AsgiInv, AsgiTypeOK
<1>6. \A q \in Requests : layer'[q] # 0 => UnderWay(q)'
  <2> SUFFICES ASSUME NEW q \in Requests, layer'[q] # 0
               PROVE  UnderWay(q)'
    BY Zenon
  <2>1. CASE q # r
    <3>1. UnderWay(q) /\ layer'[q] = layer[q] /\ context'[q] = context[q]
      BY <1>3, <1>4, <2>1, Zenon DEF AsgiInv
    <3>2. QED
      BY <1>1, <3>1, Zenon DEF UnderWay, Marked
  <2>2. CASE q = r
    <3>1. UnderWay(r)
      BY <1>2 DEF AsgiInv
    <3>2. \A i \in 1..n : i < layer[r] => Marked(r, i)'
      <4>1. \A f \in {"correlation", "tenant", "principal"} : context[r][f] = r => context'[r][f] = r
        BY <1>4, Zenon DEF Fields
      <4>2. QED
        BY <1>1, <3>1, <4>1, Zenon DEF UnderWay, Marked
    <3>3. \A i \in 1..n : i < layer'[r] => i < layer[r] \/ i = p
      BY <1>2, <1>3
    <3>4. \A i \in 1..n : i < layer'[r] => Marked(r, i)'
      BY <3>2, <3>3, Zenon
    <3>5. server' = "task" => \A f \in Fields : context'[r][f] \in {Unset, r}
      BY <1>1, <1>4, <3>1, Zenon DEF UnderWay
    <3>6. QED
      BY <1>1, <2>2, <3>1, <3>4, <3>5, Zenon DEF UnderWay
  <2>3. QED
    BY <2>1, <2>2, Zenon
<1>7. \A q \in Requests : reply'[q] = Unset => Unanswered(q)'
  BY <1>1, Zenon DEF AsgiInv, Unanswered
<1>8. OwnContext' /\ CountedAsAnswered' /\ WholeBodyOnly'
  BY <1>1, Zenon DEF AsgiInv, OwnContext, CountedAsAnswered, WholeBodyOnly
<1>9. \A i, j \in 1..n' : stack'[i] = stack'[j] => i = j
  BY <1>1, Zenon DEF AsgiInv
<1>10. QED
  BY <1>5, <1>6, <1>7, <1>8, <1>9, Zenon DEF AsgiInv

(* A request is answered, by a middleware or by the handler, which has the  *)
(* marks of all of them.                                                    *)
LEMMA AnswerStep ==
    ASSUME AsgiInv, NEW r \in Requests, layer[r] # 0,
           NEW status \in Statuses, UNCHANGED <<fixed, webhook_body, context>>,
           \/ Answer(r, status, TRUE) /\ raised' = raised \cup {r}
           \/ Answer(r, status, FALSE) /\ raised' = raised,
           \/ UNCHANGED seen
           \/ layer[r] = n + 1 /\ seen' = [seen EXCEPT ![r] = context[r]]
    PROVE  AsgiInv'
<1>0. /\ layer' = [layer EXCEPT ![r] = 0] /\ reply' = [reply EXCEPT ![r] = status]
      /\ base' = IF server = "inline" THEN context'[r] ELSE base
  BY Zenon DEF Answer, Replied
<1>1. /\ stack' = stack /\ server' = server /\ require' = require /\ n' = n /\ \A k : Has(k)' = Has(k)
      /\ webhook_body' = webhook_body /\ context' = context
  BY StackKept, Zenon
<1>2. /\ n \in Nat /\ layer \in [Requests -> 0..(n + 1)] /\ context \in [Requests -> Contexts]
      /\ reply \in [Requests -> Statuses \cup {Unset}] /\ counted \in [Requests -> Seq(Statuses)]
      /\ seen \in [Requests -> Contexts \cup {Unset}] /\ raised \subseteq Requests
      /\ base \in Contexts
  BY DEF AsgiInv, AsgiTypeOK, n
<1>3. /\ layer' \in [Requests -> 0..(n + 1)] /\ layer'[r] = 0
      /\ \A q \in Requests \ {r} : layer'[q] = layer[q]
  BY <1>0, <1>2
<1>4. /\ reply' \in [Requests -> Statuses \cup {Unset}] /\ reply'[r] = status
      /\ \A q \in Requests \ {r} : reply'[q] = reply[q]
  BY <1>0, <1>2, Zenon
<1>5. UnderWay(r) /\ Unanswered(r)
  BY Zenon DEF AsgiInv, UnderWay
<1>6. \A b \in BOOLEAN : Counted(r, status, b) \in {<<>>, <<IF b THEN 200 ELSE status>>}
  BY <1>5 DEF Counted, Unanswered
<1>7. /\ counted' \in [Requests -> Seq(Statuses)]
      /\ counted'[r] \in {<<>>, <<IF r \in raised' THEN 200 ELSE status>>}
      /\ \A q \in Requests \ {r} : counted'[q] = counted[q]
  <2>1. 200 \in Statuses /\ <<>> \in Seq(Statuses) /\ \A v \in Statuses : <<v>> \in Seq(Statuses)
    BY DEF Statuses
  <2>2. PICK c \in {<<>>, <<IF r \in raised' THEN 200 ELSE status>>} : counted' = [counted EXCEPT ![r] = c]
    <3>1. CASE Answer(r, status, TRUE) /\ raised' = raised \cup {r}
      BY <1>6, <3>1, Zenon DEF Answer
    <3>2. CASE Answer(r, status, FALSE) /\ raised' = raised
      <4>1. Counted(r, status, FALSE) \in {<<>>, <<status>>} /\ r \notin raised'
        BY <1>5, <1>6, <3>2, Zenon DEF Unanswered
      <4>2. QED
        BY <3>2, <4>1, Zenon DEF Answer
    <3>3. QED
      BY <3>1, <3>2, Zenon
  <2>3. c \in Seq(Statuses)
    BY <2>1, <2>2, ZenonT(30)
  <2>4. QED
    BY <1>2, <2>2, <2>3, Zenon
<1>8. /\ seen' \in [Requests -> Contexts \cup {Unset}]
      /\ \A q \in Requests \ {r} : seen'[q] = seen[q]
      /\ seen'[r] = Unset \/ (seen'[r] = context[r] /\ layer[r] = n + 1)
  BY <1>2, <1>5, Zenon DEF Unanswered
<1>9. base' \in Contexts /\ raised' \subseteq Requests /\ \A q \in Requests \ {r} : q \in raised' <=> q \in raised
  BY <1>0, <1>1, <1>2, Zenon
<1>10. AsgiTypeOK'
  BY <1>1, <1>3, <1>4, <1>7, <1>8, <1>9, Zenon DEF AsgiInv, AsgiTypeOK
<1>11. \A q \in Requests : layer'[q] # 0 => UnderWay(q)'
  <2>1. \A q \in Requests : layer'[q] # 0 => q # r /\ UnderWay(q) /\ layer'[q] = layer[q] /\ reply'[q] = reply[q]
    BY <1>3, <1>4, Zenon DEF AsgiInv
  <2>2. QED
    BY <1>1, <2>1 DEF UnderWay, Marked
<1>12. \A q \in Requests : reply'[q] = Unset => Unanswered(q)'
  <2>1. reply'[r] # Unset
    BY <1>4, UnsetAssumption, Zenon
  <2>2. QED
    BY <1>4, <1>7, <1>8, <1>9, <2>1, ZenonT(30) DEF AsgiInv, Unanswered
<1>13. OwnContext'
  <2> SUFFICES ASSUME NEW q \in Requests, seen'[q] # Unset
               PROVE  /\ Has("correlation") => seen'[q].correlation = q
                      /\ require => (Has("tenant") => seen'[q].tenant = q)
                                    /\ (Has("security") => seen'[q].principal = q)
                      /\ server = "task" => \A f \in Fields : seen'[q][f] \in {Unset, q}
    BY <1>1, Zenon DEF OwnContext
  <2>1. CASE q # r
    BY <1>8, <2>1, Zenon DEF AsgiInv, OwnContext
  <2>2. CASE q = r
    <3>1. seen'[r] = context[r] /\ layer[r] = n + 1
      BY <1>8, <2>2, Zenon
    <3>2. \A i \in 1..n : Marked(r, i)
      BY <1>2, <1>5, <3>1 DEF UnderWay
    <3>3. Has("correlation") => context[r]["correlation"] = r
      BY <3>2, Zenon DEF Marked, Has
    <3>4. require => (Has("tenant") => context[r]["tenant"] = r) /\ (Has("security") => context[r]["principal"] = r)
      BY <3>2, Zenon DEF Marked, Has
    <3>5. QED
      BY <1>5, <2>2, <3>1, <3>3, <3>4, Zenon DEF UnderWay
  <2>3. QED
    BY <2>1, <2>2, Zenon
<1>14. CountedAsAnswered'
  <2>1. counted'[r] # <<>> => counted'[r] = <<IF r \in raised' THEN 200 ELSE reply'[r]>>
    BY <1>4, <1>7, Zenon
  <2>2. \A q \in Requests \ {r} : counted'[q] # <<>> => counted'[q] = <<IF q \in raised' THEN 200 ELSE reply'[q]>>
    BY <1>4, <1>7, <1>9 DEF AsgiInv, CountedAsAnswered
  <2>3. QED
    BY <2>1, <2>2 DEF CountedAsAnswered
<1>15. WholeBodyOnly'
  <2>1. seen'[r] # Unset /\ Has("webhook") => webhook_body[r] = "whole"
    <3>1. seen'[r] # Unset => \A i \in 1..n : Marked(r, i)
      BY <1>2, <1>5, <1>8 DEF UnderWay
    <3>2. QED
      BY <3>1, Zenon DEF Marked, Has
  <2>2. QED
    BY <1>1, <1>8, <2>1, Zenon DEF AsgiInv, WholeBodyOnly
<1>16. \A i, j \in 1..n' : stack'[i] = stack'[j] => i = j
  BY <1>1, Zenon DEF AsgiInv
<1>17. QED
  BY <1>10, <1>11, <1>12, <1>13, <1>14, <1>15, <1>16, Zenon DEF AsgiInv

(* A request arrives at the outermost middleware. *)
LEMMA ArriveStep ==
    ASSUME AsgiInv, NEW r \in Requests, arrive(r)
    PROVE  AsgiInv'
<1>1. /\ stack' = stack /\ server' = server /\ require' = require /\ n' = n /\ \A k : Has(k)' = Has(k)
      /\ webhook_body' = webhook_body /\ seen' = seen /\ raised' = raised
      /\ base' = base /\ reply' = reply /\ counted' = counted
  BY StackKept, Zenon DEF arrive
<1>2. n \in Nat /\ layer \in [Requests -> 0..(n + 1)] /\ context \in [Requests -> Contexts] /\ base \in Contexts
  BY DEF AsgiInv, AsgiTypeOK, n
<1>3. /\ layer' \in [Requests -> 0..(n + 1)] /\ layer'[r] = 1
      /\ \A q \in Requests \ {r} : layer'[q] = layer[q]
  BY <1>2 DEF arrive
<1>4. /\ context' \in [Requests -> Contexts]
      /\ \A q \in Requests \ {r} : context'[q] = context[q]
      /\ server = "task" => \A f \in Fields : context'[r][f] = Unset
  <2>1. Blank \in Contexts /\ \A f \in Fields : Blank[f] = Unset
    BY Zenon DEF Blank, Contexts
  <2>2. QED
    BY <1>2, <2>1, Zenon DEF arrive
<1>5. AsgiTypeOK'
  BY <1>1, <1>3, <1>4, Zenon DEF AsgiInv, AsgiTypeOK
<1>6. \A q \in Requests : layer'[q] # 0 => UnderWay(q)'
  <2>1. \A q \in Requests \ {r} : layer'[q] # 0 => UnderWay(q)'
    BY <1>1, <1>3, <1>4 DEF AsgiInv, UnderWay, Marked
  <2>2. reply'[r] = Unset
    BY <1>1, Zenon DEF arrive
  <2>3. \A i \in 1..n : ~(i < layer'[r])
    BY <1>2, <1>3
  <2>4. UnderWay(r)'
    BY <1>1, <1>4, <2>2, <2>3, Zenon DEF UnderWay
  <2>5. QED
    BY <2>1, <2>4, Zenon
<1>7. \A q \in Requests : reply'[q] = Unset => Unanswered(q)'
  BY <1>1, Zenon DEF AsgiInv, Unanswered
<1>8. OwnContext' /\ CountedAsAnswered' /\ WholeBodyOnly'
  BY <1>1, Zenon DEF AsgiInv, OwnContext, CountedAsAnswered, WholeBodyOnly
<1>9. \A i, j \in 1..n' : stack'[i] = stack'[j] => i = j
  BY <1>1, Zenon DEF AsgiInv
<1>10. QED
  BY <1>5, <1>6, <1>7, <1>8, <1>9, Zenon DEF AsgiInv

(* The webhook middleware has the body of a request that it has not passed. *)
LEMMA BodyStep ==
    ASSUME AsgiInv, NEW r \in Requests, webhook_receive(r)
    PROVE  AsgiInv'
<1>1. /\ stack' = stack /\ server' = server /\ require' = require /\ n' = n /\ \A k : Has(k)' = Has(k)
      /\ layer' = layer /\ context' = context /\ seen' = seen /\ raised' = raised
      /\ base' = base /\ reply' = reply /\ counted' = counted
  BY StackKept, Zenon DEF webhook_receive
<1>2. n \in Nat /\ layer[r] \in 1..n /\ stack[layer[r]] = "webhook"
  BY DEF AsgiInv, AsgiTypeOK, n, webhook_receive, At
<1>3. /\ webhook_body' \in [Requests -> {Unset, "whole", "part"}]
      /\ \A q \in Requests \ {r} : webhook_body'[q] = webhook_body[q]
  BY Zenon DEF AsgiInv, AsgiTypeOK, webhook_receive
<1>4. AsgiTypeOK'
  BY <1>1, <1>3, Zenon DEF AsgiInv, AsgiTypeOK
<1>5. \A q \in Requests : layer'[q] # 0 => UnderWay(q)'
  <2>1. \A q \in Requests \ {r} : layer'[q] # 0 => UnderWay(q)'
    BY <1>1, <1>3 DEF AsgiInv, UnderWay, Marked
  <2>2. UnderWay(r)
    BY <1>2 DEF AsgiInv
  <2>3. \A i \in 1..n : i < layer[r] => stack[i] # "webhook"
    BY <1>2 DEF AsgiInv
  <2>4. UnderWay(r)'
    BY <1>1, <2>2, <2>3, Zenon DEF UnderWay, Marked
  <2>5. QED
    BY <2>1, <2>4, Zenon
<1>6. \A q \in Requests : reply'[q] = Unset => Unanswered(q)'
  BY <1>1, Zenon DEF AsgiInv, Unanswered
<1>7. seen[r] = Unset
  BY <1>2, SMTT(20) DEF AsgiInv, UnderWay, Unanswered
<1>8. OwnContext' /\ CountedAsAnswered' /\ WholeBodyOnly'
  BY <1>1, <1>3, <1>7, Zenon DEF AsgiInv, OwnContext, CountedAsAnswered, WholeBodyOnly
<1>9. \A i, j \in 1..n' : stack'[i] = stack'[j] => i = j
  BY <1>1, Zenon DEF AsgiInv
<1>10. QED
  BY <1>4, <1>5, <1>6, <1>8, <1>9, Zenon DEF AsgiInv

(* Every step of a request keeps the invariant. *)
LEMMA AsgiStep == AsgiInv /\ [AsgiNext]_asgi_vars => AsgiInv'
<1> SUFFICES ASSUME AsgiInv, [AsgiNext]_asgi_vars
             PROVE  AsgiInv'
  BY Zenon
<1>1. ASSUME NEW r \in Requests, RequestStep(r)
      PROVE  AsgiInv'
  <2>0. /\ n \in Nat /\ layer[r] \in 0..(n + 1) /\ context[r] \in [Fields -> Requests \cup {Unset}]
        /\ context \in [Requests -> Contexts]
    BY DEF AsgiInv, AsgiTypeOK, n, Contexts
  <2>1. ASSUME NEW status \in Statuses, Reject(r, status), layer[r] # 0,
               UNCHANGED <<fixed, webhook_body, seen, raised>>
        PROVE  AsgiInv'
    <3>1. Answer(r, status, FALSE) /\ UNCHANGED context
      BY <2>1, Zenon DEF Reject
    <3>2. QED
      BY <2>1, <3>1, AnswerStep, Zenon
  <2>2. ASSUME NEW k, At(r, k), k \notin {"correlation", "tenant", "security", "webhook"},
               UNCHANGED context, Inward(r), UNCHANGED <<fixed, webhook_body, seen, raised>>
        PROVE  AsgiInv'
    <3>1. PICK p \in 1..n : layer[r] = p /\ stack'[p] = k
      BY <2>2, StackKept, Zenon DEF At
    <3>2. Marked(r, p)'
      BY <2>2, <3>1, Zenon DEF Marked
    <3>3. QED
      BY <2>2, <3>1, <3>2, OnwardStep, Zenon
  <2>3. ASSUME NEW k, At(r, k), k # "webhook", NEW f \in Fields, Assign(r, f), Inward(r),
               <<k, f>> \in {<<"correlation", "correlation">>, <<"tenant", "tenant">>, <<"security", "principal">>},
               UNCHANGED <<fixed, webhook_body, seen, raised>>
        PROVE  AsgiInv'
    <3>1. PICK p \in 1..n : layer[r] = p /\ stack'[p] = k
      BY <2>3, StackKept, Zenon DEF At
    <3>2. context'[r][f] = r
      BY <2>0, <2>3, Zenon DEF Assign
    <3>3. Marked(r, p)'
      BY <2>3, <3>1, <3>2, Zenon DEF Marked
    <3>4. QED
      BY <2>3, <3>1, <3>3, OnwardStep, Zenon
  <2>4. ASSUME NEW k \in {"tenant", "security"}, At(r, k), ~require,
               UNCHANGED context, Inward(r), UNCHANGED <<fixed, webhook_body, seen, raised>>
        PROVE  AsgiInv'
    <3>1. PICK p \in 1..n : layer[r] = p /\ stack'[p] = k
      BY <2>4, StackKept, Zenon DEF At
    <3>2. Marked(r, p)'
      <4>1. ~require'
        BY <2>4, StackKept, Zenon
      <4>2. QED
        BY <2>4, <3>1, <4>1, Zenon DEF Marked
    <3>3. QED
      BY <2>4, <3>1, <3>2, OnwardStep, Zenon
  <2>5. CASE correlation(r)
    BY <2>3, <2>5, Zenon DEF correlation, Fields
  <2>6. CASE tenant(r)
    <3>1. At(r, "tenant") /\ layer[r] # 0 /\ UNCHANGED <<fixed, webhook_body, seen, raised>>
      BY <2>0, <2>6 DEF tenant, At
    <3>2. CASE Assign(r, "tenant") /\ Inward(r)
      BY <2>3, <3>1, <3>2, Zenon DEF Fields
    <3>3. CASE Reject(r, 400)
      BY <2>1, <3>1, <3>3 DEF Statuses
    <3>4. CASE ~require /\ UNCHANGED context /\ Inward(r)
      BY <2>4, <3>1, <3>4, Zenon
    <3>5. QED
      BY <2>6, <3>2, <3>3, <3>4, Zenon DEF tenant
  <2>7. CASE security(r)
    <3>1. At(r, "security") /\ layer[r] # 0 /\ UNCHANGED <<fixed, webhook_body, seen, raised>>
      BY <2>0, <2>7 DEF security, At
    <3>2. CASE Assign(r, "principal") /\ Inward(r)
      BY <2>3, <3>1, <3>2, Zenon DEF Fields
    <3>3. CASE Reject(r, 401)
      BY <2>1, <3>1, <3>3 DEF Statuses
    <3>4. CASE ~require /\ UNCHANGED context /\ Inward(r)
      BY <2>4, <3>1, <3>4, Zenon
    <3>5. QED
      BY <2>7, <3>2, <3>3, <3>4, Zenon DEF security
  <2>8. CASE rate_limit(r)
    <3>1. At(r, "rate_limit") /\ layer[r] # 0 /\ UNCHANGED <<fixed, webhook_body, seen, raised>>
      BY <2>0, <2>8 DEF rate_limit, At
    <3>2. CASE UNCHANGED context /\ Inward(r)
      BY <2>2, <3>1, <3>2, Zenon
    <3>3. CASE Reject(r, 429)
      BY <2>1, <3>1, <3>3 DEF Statuses
    <3>4. QED
      BY <2>8, <3>2, <3>3, Zenon DEF rate_limit
  <2>9. CASE enter(r)
    BY <2>2, <2>9, Zenon DEF enter
  <2>10. CASE webhook_receive(r)
    BY <2>10, BodyStep, Zenon
  <2>11. CASE webhook(r)
    <3>1. At(r, "webhook") /\ layer[r] # 0 /\ UNCHANGED <<fixed, webhook_body, seen, raised>>
      BY <2>0, <2>11 DEF webhook, At
    <3>2. CASE Verified(r) /\ UNCHANGED context /\ Inward(r)
      <4>1. PICK p \in 1..n : layer[r] = p /\ stack'[p] = "webhook" /\ webhook_body'[r] = "whole"
        BY <3>1, <3>2, StackKept, Zenon DEF At, Verified
      <4>2. Marked(r, p)'
        BY <4>1, Zenon DEF Marked
      <4>3. QED
        BY <3>1, <3>2, <4>1, <4>2, OnwardStep, Zenon
    <3>3. CASE Reject(r, 401)
      BY <2>1, <3>1, <3>3 DEF Statuses
    <3>4. QED
      BY <2>11, <3>2, <3>3, Zenon DEF webhook
  <2>12. CASE handler(r)
    <3>1. /\ layer[r] = n + 1 /\ layer[r] # 0 /\ seen' = [seen EXCEPT ![r] = context[r]]
          /\ UNCHANGED <<fixed, webhook_body, context>>
      BY <2>0, <2>12 DEF handler
    <3>2. ASSUME NEW status \in Statuses, Answer(r, status, FALSE), raised' = raised
          PROVE  AsgiInv'
      BY <3>1, <3>2, AnswerStep, Zenon
    <3>3. CASE Answer(r, 500, TRUE) /\ raised' = raised \cup {r}
      <4>1. 500 \in Statuses
        BY DEF Statuses
      <4>2. QED
        BY <3>1, <3>3, <4>1, AnswerStep, ZenonT(30)
    <3>4. CASE \E status \in {200, 503} : Answer(r, status, FALSE) /\ UNCHANGED raised
      <4>1. PICK status \in {200, 503} : Answer(r, status, FALSE) /\ UNCHANGED raised
        BY <3>4, ZenonT(30)
      <4>2. status \in Statuses
        BY DEF Statuses
      <4>3. QED
        BY <3>2, <4>1, <4>2, Zenon
    <3>5. QED
      BY <2>12, <3>3, <3>4, ZenonT(30) DEF handler
  <2>13. QED
    BY <1>1, <2>5, <2>6, <2>7, <2>8, <2>9, <2>10, <2>11, <2>12, Zenon DEF RequestStep
<1>2. CASE UNCHANGED asgi_vars
  BY <1>2 DEF asgi_vars, AsgiInv, AsgiTypeOK, UnderWay, Marked, Unanswered, OwnContext,
              CountedAsAnswered, WholeBodyOnly, Has, n
<1>3. QED
  BY <1>1, <1>2, ArriveStep, Zenon DEF AsgiNext

-----------------------------------------------------------------------------
(* The RPC.                                                                 *)

(* The metrics wrapper has been left, outward. *)
MetricsLeft ==
    \E i \in DOMAIN wrappers :
        /\ i > depth /\ wrappers[i] = "metrics"
        /\ turned_away => \E j \in DOMAIN wrappers : wrappers[j] = "auth" /\ i < j

(* On its way out a call is recorded once it has left the metrics wrapper,  *)
(* as it ended.                                                             *)
Told ==
    /\ \/ code \in {"OK", "UNKNOWN", "CANCELLED"} /\ handled = 1 /\ ~turned_away
       \/ /\ code = "UNAUTHENTICATED" /\ handled = 0 /\ turned_away
          /\ \E j \in DOMAIN wrappers : wrappers[j] = "auth" /\ depth < j
    /\ IF MetricsLeft THEN Len(recorded) = 1 /\ (recorded[1] = "ERROR" <=> code = "UNKNOWN")
       ELSE recorded = <<>>

GrpcInv ==
    /\ GrpcTypeOK
    /\ \A i, j \in DOMAIN wrappers : wrappers[i] = wrappers[j] => i = j
    /\ call \in {"start", "sent", "in"} => handled = 0 /\ recorded = <<>> /\ ~turned_away
    /\ call \in {"start", "sent"} => depth = 0
    /\ call = "handling" => handled = 1 /\ recorded = <<>> /\ ~turned_away /\ depth = Len(wrappers)
    /\ call = "out" => Told
    /\ call \in {"answered", "done"} =>
          \/ Told /\ depth = 0
          \/ code = "UNAVAILABLE" /\ recorded = <<>> /\ handled <= 1 /\ ~turned_away
          \/ code \in {"UNKNOWN", "UNIMPLEMENTED"} /\ recorded = <<>> /\ handled = 0 /\ ~turned_away

(* A call that was not made satisfies the invariant. *)
LEMMA GrpcStarts == GrpcInit => GrpcInv
<1> SUFFICES ASSUME GrpcInit
             PROVE  GrpcInv
  BY Zenon
<1>1. wrappers \in Seq(Kinds) /\ Len(wrappers) \in Nat
  <2>1. PICK l \in 0..3 : wrappers \in [1..l -> Kinds]
    BY Zenon DEF GrpcInit
  <2>2. l \in Nat
    OBVIOUS
  <2>3. wrappers \in Seq(Kinds)
    BY <2>1, <2>2
  <2>4. QED
    BY <2>3
<1>2. turned_away \in BOOLEAN /\ ~turned_away
  BY Zenon DEF GrpcInit
<1>3. /\ method \in {"public", "private", "unknown"} /\ call = "start" /\ depth = 0 /\ code = "none"
      /\ recorded = <<>> /\ recorded \in Seq({"OK", "ERROR"}) /\ retries = 0 /\ handled = 0
      /\ depth \in 0..Len(wrappers) /\ retries \in 0..max_retries /\ handled \in Nat /\ code \in Codes
  BY <1>1, RetriesAssumption DEF GrpcInit, Codes
<1>4. GrpcTypeOK
  BY <1>1, <1>2, <1>3, Zenon DEF GrpcTypeOK
<1>5. \A i, j \in DOMAIN wrappers : wrappers[i] = wrappers[j] => i = j
  BY Zenon DEF GrpcInit
<1>6. QED
  BY <1>2, <1>3, <1>4, <1>5, Zenon DEF GrpcInv

(* Every step of a call keeps the invariant. *)
LEMMA GrpcStep == GrpcInv /\ [GrpcNext]_grpc_vars => GrpcInv'
<1> SUFFICES ASSUME GrpcInv, [GrpcNext]_grpc_vars
             PROVE  GrpcInv'
  BY Zenon
<1>0. /\ wrappers \in Seq(Kinds) /\ Len(wrappers) \in Nat /\ DOMAIN wrappers = 1..Len(wrappers)
      /\ depth \in 0..Len(wrappers) /\ code \in Codes /\ recorded \in Seq({"OK", "ERROR"})
      /\ retries \in 0..max_retries /\ handled \in Nat
  BY DEF GrpcInv, GrpcTypeOK
<1>1. CASE start
  <2>1. /\ wrappers' = wrappers /\ method' = method /\ depth' = depth /\ recorded' = recorded
        /\ handled' = handled /\ turned_away' = turned_away
        /\ handled = 0 /\ recorded = <<>> /\ ~turned_away /\ depth = 0
    BY <1>1, Zenon DEF start, GrpcInv
  <2>2. /\ call' \in {"start", "sent"} \/ (call' = "done" /\ code' = "UNAVAILABLE")
        /\ retries' \in 0..max_retries /\ code' \in Codes
    BY <1>0, <1>1, RetriesAssumption DEF start, Codes
  <2>3. GrpcTypeOK'
    BY <2>1, <2>2, Zenon DEF GrpcInv, GrpcTypeOK
  <2>4. QED
    BY <2>1, <2>2, <2>3 DEF GrpcInv
<1>2. CASE route
  <2>1. /\ wrappers' = wrappers /\ method' = method /\ depth' = depth /\ recorded' = recorded
        /\ handled' = handled /\ turned_away' = turned_away /\ retries' = retries
        /\ handled = 0 /\ recorded = <<>> /\ ~turned_away
    BY <1>2, Zenon DEF route, GrpcInv
  <2>2. /\ call' = "in" \/ (call' = "answered" /\ code' \in {"UNKNOWN", "UNIMPLEMENTED"})
        /\ code' \in Codes
    BY <1>0, <1>2, Zenon DEF route, Codes
  <2>3. GrpcTypeOK'
    BY <2>1, <2>2, Zenon DEF GrpcInv, GrpcTypeOK
  <2>4. QED
    BY <2>1, <2>2, <2>3, Zenon DEF GrpcInv
<1>3. CASE grpc_enter
  <2>1. /\ wrappers' = wrappers /\ method' = method /\ recorded' = recorded /\ retries' = retries
        /\ handled' = handled /\ handled = 0 /\ recorded = <<>> /\ ~turned_away
        /\ call = "in" /\ depth < Len(wrappers)
    BY <1>3, Zenon DEF grpc_enter, GrpcInv
  <2>2. CASE depth' = depth + 1 /\ UNCHANGED <<call, code, turned_away>>
    <3>1. depth' \in 0..Len(wrappers)
      BY <1>0, <2>1, <2>2
    <3>2. GrpcTypeOK'
      BY <2>1, <2>2, <3>1, Zenon DEF GrpcInv, GrpcTypeOK
    <3>3. QED
      BY <2>1, <2>2, <3>2, Zenon DEF GrpcInv
  <2>3. CASE /\ Inner = "auth" /\ call' = "out" /\ code' = "UNAUTHENTICATED"
             /\ turned_away' = TRUE /\ depth' = depth
    <3>1. depth + 1 \in DOMAIN wrappers /\ wrappers[depth + 1] = "auth"
      BY <1>0, <2>1, <2>3 DEF Inner
    <3>2. turned_away' /\ turned_away' \in BOOLEAN
      BY <2>3, Zenon
    <3>3. ~MetricsLeft'
      <4>1. SUFFICES ASSUME NEW i \in DOMAIN wrappers, NEW j \in DOMAIN wrappers, i > depth, i < j,
                            wrappers[j] = "auth"
                     PROVE  FALSE
        BY <2>1, <2>3, <3>2, Zenon DEF MetricsLeft
      <4>2. j = depth + 1
        BY <3>1, <4>1, Zenon DEF GrpcInv
      <4>3. QED
        BY <1>0, <4>1, <4>2
    <3>4. Told'
      BY <1>0, <2>1, <2>3, <3>1, <3>2, <3>3 DEF Told
    <3>5. GrpcTypeOK'
      BY <2>1, <2>3, <3>2, Zenon DEF GrpcInv, GrpcTypeOK, Codes
    <3>6. QED
      BY <2>1, <2>3, <3>4, <3>5, Zenon DEF GrpcInv
  <2>4. QED
    BY <1>3, <2>2, <2>3, Zenon DEF grpc_enter
<1>4. CASE handle
  <2>1. /\ wrappers' = wrappers /\ method' = method /\ recorded' = recorded /\ retries' = retries
        /\ depth' = depth /\ code' = code /\ turned_away' = turned_away
        /\ handled' = 1 /\ recorded = <<>> /\ ~turned_away /\ depth = Len(wrappers) /\ call' = "handling"
    BY <1>4 DEF handle, GrpcInv
  <2>2. GrpcTypeOK'
    BY <2>1, Zenon DEF GrpcInv, GrpcTypeOK
  <2>3. QED
    BY <2>1, <2>2, Zenon DEF GrpcInv
<1>5. CASE finish
  <2>1. /\ wrappers' = wrappers /\ method' = method /\ recorded' = recorded /\ retries' = retries
        /\ depth' = depth /\ handled' = handled /\ turned_away' = turned_away
        /\ handled = 1 /\ recorded = <<>> /\ ~turned_away /\ depth = Len(wrappers) /\ call' = "out"
        /\ code' \in {"OK", "UNKNOWN", "CANCELLED"}
    BY <1>5, Zenon DEF finish, GrpcInv
  <2>2. ~MetricsLeft'
    BY <1>0, <2>1 DEF MetricsLeft
  <2>3. Told'
    BY <2>1, <2>2, Zenon DEF Told
  <2>4. GrpcTypeOK'
    BY <2>1, Zenon DEF GrpcInv, GrpcTypeOK, Codes
  <2>5. QED
    BY <2>1, <2>3, <2>4, Zenon DEF GrpcInv
<1>6. CASE leave_wrapper
  <2>1. /\ wrappers' = wrappers /\ method' = method /\ retries' = retries /\ code' = code
        /\ handled' = handled /\ turned_away' = turned_away /\ call = "out" /\ Told
    BY <1>6, Zenon DEF leave_wrapper, GrpcInv
  <2>2. CASE depth = 0
    <3>1. call' = "answered" /\ depth' = depth /\ recorded' = recorded
      BY <1>6, <2>2, Zenon DEF leave_wrapper
    <3>2. Told'
      BY <2>1, <3>1, Zenon DEF Told, MetricsLeft
    <3>3. GrpcTypeOK'
      BY <2>1, <3>1, Zenon DEF GrpcInv, GrpcTypeOK
    <3>4. QED
      BY <2>1, <2>2, <3>1, <3>2, <3>3, Zenon DEF GrpcInv
  <2>3. CASE depth # 0
    <3>1. /\ depth' = depth - 1 /\ call' = call /\ depth \in DOMAIN wrappers
          /\ recorded' = IF wrappers[depth] = "metrics" THEN Recorded ELSE recorded
      BY <1>0, <1>6, <2>3 DEF leave_wrapper
    <3>2. depth' \in 0..Len(wrappers) /\ recorded' \in Seq({"OK", "ERROR"})
      BY <1>0, <3>1 DEF Recorded
    <3>3. GrpcTypeOK'
      BY <2>1, <3>1, <3>2, Zenon DEF GrpcInv, GrpcTypeOK
    <3>4. Told'
      <4>1. \/ code' \in {"OK", "UNKNOWN", "CANCELLED"} /\ handled' = 1 /\ ~turned_away'
            \/ /\ code' = "UNAUTHENTICATED" /\ handled' = 0 /\ turned_away'
               /\ \E j \in DOMAIN wrappers' : wrappers'[j] = "auth" /\ depth' < j
        BY <1>0, <2>1, <3>1 DEF Told
      <4>2. CASE wrappers[depth] = "metrics"
        <5>1. ~MetricsLeft
          BY <1>0, <3>1, <4>2 DEF MetricsLeft, GrpcInv
        <5>2. recorded = <<>>
          BY <2>1, <5>1, Zenon DEF Told
        <5>3. Len(recorded') = 1 /\ (recorded'[1] = "ERROR" <=> code = "UNKNOWN")
          BY <3>1, <4>2, <5>2 DEF Recorded
        <5>4. MetricsLeft'
          <6>1. depth > depth' /\ (turned_away => \E j \in DOMAIN wrappers : wrappers[j] = "auth" /\ depth < j)
            BY <1>0, <2>1, <3>1 DEF Told
          <6>2. QED
            BY <2>1, <3>1, <4>2, <6>1, Zenon DEF MetricsLeft
        <5>5. QED
          BY <2>1, <4>1, <5>3, <5>4, Zenon DEF Told
      <4>3. CASE wrappers[depth] # "metrics"
        <5>1. MetricsLeft' = MetricsLeft
          <6>1. \A i \in DOMAIN wrappers : wrappers[i] = "metrics" => (i > depth' <=> i > depth)
            BY <1>0, <3>1, <4>3
          <6>2. QED
            BY <2>1, <6>1, Zenon DEF MetricsLeft
        <5>2. QED
          BY <2>1, <3>1, <4>1, <4>3, <5>1, Zenon DEF Told
      <4>4. QED
        BY <4>2, <4>3, Zenon
    <3>5. QED
      BY <2>1, <3>1, <3>3, <3>4, Zenon DEF GrpcInv
  <2>4. QED
    BY <2>2, <2>3, Zenon
<1>7. CASE await
  <2>1. /\ wrappers' = wrappers /\ method' = method /\ recorded' = recorded /\ retries' = retries
        /\ depth' = depth /\ code' = code /\ handled' = handled /\ turned_away' = turned_away
        /\ call = "answered" /\ call' = "done"
    BY <1>7, Zenon DEF await
  <2>2. GrpcTypeOK'
    BY <2>1, Zenon DEF GrpcInv, GrpcTypeOK
  <2>3. Told' = Told
    BY <2>1, Zenon DEF Told, MetricsLeft
  <2>4. QED
    BY <2>1, <2>2, <2>3, Zenon DEF GrpcInv
<1>8. CASE lose
  <2>1. /\ wrappers' = wrappers /\ method' = method /\ recorded' = recorded /\ retries' = retries
        /\ depth' = depth /\ handled' = handled /\ turned_away' = turned_away
        /\ handled \in {0, 1} /\ recorded = <<>> /\ ~turned_away
        /\ call' = "answered" /\ code' = "UNAVAILABLE"
    BY <1>8, Zenon DEF lose, GrpcInv
  <2>2. GrpcTypeOK'
    BY <2>1, Zenon DEF GrpcInv, GrpcTypeOK, Codes
  <2>3. QED
    BY <2>1, <2>2 DEF GrpcInv
<1>9. CASE UNCHANGED grpc_vars
  BY <1>9 DEF grpc_vars, GrpcInv, GrpcTypeOK, Told, MetricsLeft
<1>10. QED
  BY <1>1, <1>2, <1>3, <1>4, <1>5, <1>6, <1>7, <1>8, <1>9, Zenon DEF GrpcNext

(* Whatever the stack of middlewares and however many requests overlap: a   *)
(* handler sees the context of its own request and the whole body, and is   *)
(* counted under the status it was answered with; and a call through any    *)
(* wrappers reaches its handler at most once and is recorded once, as it    *)
(* ended.                                                                   *)
THEOREM AnsweredAndRecordedHolds == AsgiSpec /\ GrpcSpec => []AnsweredAndRecorded
<1>1. AsgiInv /\ GrpcInv => AnsweredAndRecorded
  <2> SUFFICES ASSUME AsgiInv, GrpcInv
               PROVE  AnsweredAndRecorded
    BY Zenon
  <2>0. /\ Len(wrappers) \in Nat /\ DOMAIN wrappers = 1..Len(wrappers) /\ handled \in Nat
        /\ call \in {"start", "sent", "in", "handling", "out", "answered", "done"}
    BY DEF GrpcInv, GrpcTypeOK
  <2>1. RecordedOnce
    <3> SUFFICES ASSUME call = "done", handled = 1 \/ turned_away, code # "UNAVAILABLE"
                 PROVE  Len(recorded) = (IF \E i \in DOMAIN wrappers :
                           wrappers[i] = "metrics" /\ (turned_away => \E j \in DOMAIN wrappers : wrappers[j] = "auth" /\ i < j)
                           THEN 1 ELSE 0)
      BY Zenon DEF RecordedOnce
    <3>1. Told /\ depth = 0
      BY DEF GrpcInv
    <3>2. \A i \in DOMAIN wrappers : i > depth
      BY <2>0, <3>1
    <3>3. QED
      BY <3>1, <3>2, Zenon DEF Told, MetricsLeft
  <2>2. RecordedTruthfully
    BY Zenon DEF GrpcInv, Told, RecordedTruthfully
  <2>3. HandledOnce
    BY <2>0 DEF GrpcInv, Told, HandledOnce
  <2>4. QED
    BY <2>1, <2>2, <2>3, Zenon DEF AnsweredAndRecorded, ServersTypeOK, AsgiInv, GrpcInv
<1>2. QED
  BY <1>1, AsgiStarts, AsgiStep, GrpcStarts, GrpcStep, PTL DEF AsgiSpec, GrpcSpec
=============================================================================
