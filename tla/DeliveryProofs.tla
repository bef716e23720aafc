--------------------------- MODULE DeliveryProofs ---------------------------
(* Theorems about what the library does for a caller that retries: the      *)
(* commands executed under an idempotency key and the messages handed to a  *)
(* provider; and about the consumers of the brokers.  For any number of     *)
(* requests, callers and messages.                                          *)
EXTENDS Idempotency, Senders, BrokerConsumers, TLAPS

-----------------------------------------------------------------------------
(* Idempotency keys: nobody is told that a command was executed that was    *)
(* not, and a client that waits for each answer before it retries gets it   *)
(* executed at most once.                                                   *)

(* Whoever completes the record has seen the handler take effect. *)
Completing == {r \in Requests : pc[r] \in {"complete_get", "complete_set"}}

Witnessed ==
    record = "COMPLETED" \/ (\E r \in Requests :
        pc[r] \in {"complete_get", "complete_set", "executed", "cached"})
            => effects > 0

(* The careful client's record: one request is under way, the handler runs *)
(* under a record and before any effect, and after the effect the record   *)
(* is completed, or about to be, or refuses every retry.                   *)
Guarded ==
    /\ \A r, s \in Active : r = s
    /\ \A r \in Requests : pc[r] \in {"save", "handler"} => effects = 0
    /\ \A r \in Requests : pc[r] = "handler" => record # None
    /\ effects > 0 => record # None
    /\ effects > 0 => \/ record = "COMPLETED"
                      \/ Completing # {}
                      \/ Rejecting
    /\ effects <= 1

KeyInv == TypeOK /\ Witnessed /\ (Careful => Guarded)

(* Before the first request there is no record and no effect. *)
LEMMA KeyStarts == Init => KeyInv
<1> SUFFICES ASSUME Init
             PROVE  KeyInv
    BY Zenon
<1>1. overlapped \in BOOLEAN /\ expired \in BOOLEAN
    BY Zenon DEF Init
<1>2. TypeOK
    BY <1>1, Zenon DEF Init, TypeOK, Ended
<1>3. Witnessed /\ Guarded
    BY IdempotencyAssumption DEF Init, Ended, Witnessed, Guarded, Completing, Active
<1> QED BY <1>2, <1>3, Zenon DEF KeyInv

(* Every store call, handler, crash and expiry keeps the invariant. *)
LEMMA KeyStep == KeyInv /\ [Next]_vars => KeyInv'
<1> SUFFICES ASSUME KeyInv, [Next]_vars
             PROVE  KeyInv'
    BY Zenon
<1> USE IdempotencyAssumption DEF KeyInv, Goto, setting, Rejecting
<1>0. overlapped' \in BOOLEAN /\ expired' \in BOOLEAN
    BY Zenon DEF TypeOK, Next, vars, submit, get, save, handler, complete_get,
           complete_set, crash, expire
<1>1. TypeOK'
    BY <1>0 DEF TypeOK, Ended, Next, vars, submit, get, save, handler, complete_get,
           complete_set, crash, expire, Active
<1>2. Witnessed'
    BY DEF TypeOK, Ended, Witnessed, Next, vars, submit, get, save, handler,
           complete_get, complete_set, crash, expire, Active
<1>3. ASSUME Careful'
      PROVE  Guarded'
    <2>0. Careful /\ Guarded
        BY <1>3 DEF Careful, Next, vars, setting, TypeOK, submit, get, save, handler,
           complete_get, complete_set, crash, expire, Active, Ended
    <2> USE <1>3, <2>0 DEF Careful, setting, TypeOK, Guarded, Active, Ended, Completing
    <2>1. CASE UNCHANGED vars
        BY <2>1, Zenon DEF vars
    <2>2. ASSUME NEW r \in Requests, submit(r)
          PROVE  Guarded'
        <3>1. Active = {}
            BY <2>2, Zenon DEF submit
        <3>2. pc' = [pc EXCEPT ![r] = "get"] /\ record' = record /\ effects' = effects
            BY <2>2, Zenon DEF submit
        <3>3. middleware' = middleware
            BY <2>2, Zenon DEF submit
        <3>4. Active' = {r}
            <4>1. \A q \in Requests \ {r} : pc'[q] = pc[q] /\ pc[q] \in Ended \cup {"new"}
                BY <3>1, <3>2
            <4> QED BY <3>2, <4>1
        <3>5. \A q \in Requests : pc'[q] \notin {"save", "handler"}
            BY <3>1, <3>2, Zenon
        <3>6. Completing = {} /\ Completing' = {}
            BY <3>1, <3>2, Zenon
        <3>7. effects > 0 => record = "COMPLETED" \/ Rejecting
            BY <3>6, Zenon
        <3> QED BY <3>2, <3>3, <3>4, <3>5, <3>7, Zenon
    <2>3. ASSUME NEW r \in Requests, get(r)
          PROVE  Guarded'
        BY <2>3 DEF get
    <2>4. ASSUME NEW r \in Requests, save(r)
          PROVE  Guarded'
        BY <2>4 DEF save
    <2>5. ASSUME NEW r \in Requests, handler(r)
          PROVE  Guarded'
        BY <2>5 DEF handler
    <2>6. ASSUME NEW r \in Requests, complete_get(r)
          PROVE  Guarded'
        BY <2>6 DEF complete_get, Witnessed
    <2>7. ASSUME NEW r \in Requests, complete_set(r)
          PROVE  Guarded'
        BY <2>7 DEF complete_set
    <2>8. ASSUME NEW r \in Requests, crash(r)
          PROVE  Guarded'
        BY <2>8 DEF crash
    <2>9. CASE expire
        BY <2>9, Zenon DEF expire
    <2> QED BY <2>1, <2>2, <2>3, <2>4, <2>5, <2>6, <2>7, <2>8, <2>9, Zenon DEF Next
<1> QED BY <1>1, <1>2, <1>3, Zenon DEF Careful

(* So it holds in every reachable state. *)
LEMMA KeyInvHolds == Spec => []KeyInv
BY KeyStarts, KeyStep, PTL DEF Spec

(* The record and the requests keep their types. *)
THEOREM TypeCorrect == Spec => []TypeOK
<1>1. KeyInv => TypeOK
    BY Zenon DEF KeyInv
<1> QED BY <1>1, KeyInvHolds, PTL

(* Whoever is told that the command was executed is told so after it took  *)
(* effect, whatever overlaps, crashes or expires.                          *)
THEOREM SwallowsNothing == Spec => []NeverSwallowed
<1>1. KeyInv => NeverSwallowed
    BY Zenon DEF KeyInv, Witnessed, NeverSwallowed
<1> QED BY <1>1, KeyInvHolds, PTL

(* The handler takes effect at most once for a careful client. *)
THEOREM OnceCorrect == Spec => []AtMostOnce
<1>1. KeyInv => AtMostOnce
    BY Zenon DEF KeyInv, Guarded, AtMostOnce
<1> QED BY <1>1, KeyInvHolds, PTL

-----------------------------------------------------------------------------
(* The senders.                                                             *)

SenderTypes ==
    /\ channel \in Channels /\ client \in {"unset", "connecting", "ready", "broken"}
    /\ fate \in [Callers -> {"idle", "connecting", "sending", "done", "raised"}]
    /\ results \in [Callers -> Seq(BOOLEAN)]
    /\ accepted \in [Mails -> 0..2] /\ reached \in [Mails -> SUBSET Fields]
    /\ again \subseteq Callers

(* How far caller c has come in its list.  The provider has what has a      *)
(* success for a result; and if c has not started over, it has nothing that *)
(* comes after the current message, nor has it that one until c raised.     *)
Progress(c) ==
    /\ fate[c] \in {"connecting", "sending", "raised"} => Len(results[c]) < Len(work[c])
    /\ fate[c] = "done" => Len(results[c]) = Len(work[c])
    /\ fate[c] = "idle" => results[c] = <<>>
    /\ \A i \in DOMAIN results[c] :
          /\ i \in DOMAIN work[c]
          /\ results[c][i] => accepted[work[c][i]] > 0
          /\ channel # "fcm" => results[c][i]
    /\ c \notin again =>
          \A i \in DOMAIN work[c] :
             /\ accepted[work[c][i]] <= 1
             /\ i > Len(results[c]) => accepted[work[c][i]] = 0 \/ (fate[c] = "raised" /\ i = Len(results[c]) + 1)

(* One caller at most opens the SMTP connection, and nothing is sent until  *)
(* it is open.                                                              *)
ConnectionInv ==
    /\ opened = IF client = "unset" THEN 0 ELSE 1
    /\ channel # "smtp" => client = "unset"
    /\ \A c \in Callers : fate[c] = "connecting" => client = "connecting"
    /\ \A c, d \in Callers : fate[c] = "connecting" /\ fate[d] = "connecting" => c = d
    /\ channel = "smtp" /\ client # "ready" => \A m \in Mails : accepted[m] = 0

SenderInv == SenderTypes /\ (\A c \in Callers : Progress(c)) /\ EveryRecipient /\ ConnectionInv

(* What sending one message comes to, whichever sender does it: the         *)
(* provider takes it, with all the addresses the sender names, or not; and  *)
(* a result is recorded, or an exception raised, or it is posted again.     *)
Unaddressed == {"fcm", "twilio", "sqs", "celery"}
Taken(c) ==
    \E F \in SUBSET Fields : Accept(Current(c), F) /\ (channel \in Unaddressed \/ Addressed \subseteq F)
Handed(c) ==
    /\ fate[c] = "sending" /\ UNCHANGED <<channel, client, again, opened>>
    /\ Taken(c) \/ NotAccepted
    /\ NotAccepted \/ channel # "smtp" \/ client = "ready"
    /\ \/ \E ok \in BOOLEAN : Record(c, ok) /\ (ok => Taken(c)) /\ (channel # "fcm" => ok)
       \/ Raise(c)
       \/ NotAccepted /\ UNCHANGED <<fate, results>>

(* Every sender does that. *)
LEMMA SendersHand ==
    ASSUME SenderInv, NEW c \in Callers,
           \/ send_mailgun(c) \/ send_sendgrid(c) \/ send_ses(c) \/ send_smtp(c) \/ send_memory(c)
           \/ send_fcm(c) \/ send_twilio(c) \/ dispatch_sqs(c) \/ dispatch_celery(c)
    PROVE  Handed(c)
<1>0. Addressed \in SUBSET Fields /\ {"to"} \in SUBSET Fields /\ Fields \in SUBSET Fields
  BY Zenon DEF Addressed, Fields
<1>1. ASSUME NEW F \in SUBSET Fields, channel \in Unaddressed \/ Addressed \subseteq F, Post(c, F)
      PROVE  /\ Taken(c) \/ NotAccepted
             /\ (\E ok \in BOOLEAN : Record(c, ok) /\ (ok => Taken(c)) /\ (channel # "fcm" => ok)) \/ Raise(c)
  BY <1>1, Zenon DEF Post, Taken
<1>2. CASE send_mailgun(c) \/ send_sendgrid(c) \/ send_ses(c)
  BY <1>0, <1>1, <1>2, Zenon DEF send_mailgun, send_sendgrid, send_ses, Through, Handed
<1>3. CASE dispatch_sqs(c) \/ dispatch_celery(c)
  BY <1>0, <1>1, <1>3, Zenon DEF dispatch_sqs, dispatch_celery, Through, Handed, Unaddressed
<1>4. CASE send_memory(c)
  <2>1. Taken(c)
    BY <1>0, <1>4, Zenon DEF send_memory, Taken
  <2>2. QED
    BY <1>4, <2>1, Zenon DEF send_memory, Handed
<1>5. CASE send_twilio(c)
  <2>1. CASE Post(c, {"to"})
    BY <1>0, <1>1, <1>5, <2>1, Zenon DEF send_twilio, Handed, Unaddressed
  <2>2. CASE NotAccepted /\ (Raise(c) \/ UNCHANGED <<fate, results>>)
    BY <1>5, <2>2, Zenon DEF send_twilio, Handed
  <2>3. QED
    BY <1>5, <2>1, <2>2, Zenon DEF send_twilio
<1>6. CASE send_fcm(c)
  <2>1. CASE Accept(Current(c), {"to"}) /\ \E ok \in BOOLEAN : Record(c, ok)
    <3>1. Taken(c)
      BY <1>0, <1>6, <2>1, Zenon DEF send_fcm, Taken, Unaddressed
    <3>2. QED
      BY <1>6, <2>1, <3>1, Zenon DEF send_fcm, Handed
  <2>2. CASE NotAccepted /\ Record(c, FALSE)
    BY <1>6, <2>2, Zenon DEF send_fcm, Handed
  <2>3. QED
    BY <1>6, <2>1, <2>2, Zenon DEF send_fcm
<1>7. CASE send_smtp(c)
  <2>1. CASE client = "ready"
    BY <1>0, <1>1, <1>7, <2>1, Zenon DEF send_smtp, Handed
  <2>2. CASE client # "ready"
    BY <1>7, <2>2, Zenon DEF send_smtp, Handed
  <2>3. QED
    BY <2>1, <2>2, Zenon
<1>8. QED
  BY <1>2, <1>3, <1>4, <1>5, <1>6, <1>7, Zenon

(* What a step leaves of the other callers' messages, when one message of   *)
(* caller c is taken or not.                                                *)
LEMMA TakenOrNot ==
    ASSUME SenderTypes, NEW c \in Callers, Len(results[c]) < Len(work[c]), Taken(c) \/ NotAccepted
    PROVE  /\ Current(c) \in Mails /\ Len(results[c]) + 1 \in DOMAIN work[c]
           /\ accepted' \in [Mails -> 0..2] /\ reached' \in [Mails -> SUBSET Fields]
           /\ \A m \in Mails : m # Current(c) => accepted'[m] = accepted[m]
           /\ accepted[Current(c)] <= accepted'[Current(c)]
           /\ accepted'[Current(c)] <= accepted[Current(c)] + 1
           /\ Taken(c) => accepted'[Current(c)] > 0
           /\ \A d \in Callers : \A i \in DOMAIN work[d] :
                 d # c \/ i # Len(results[c]) + 1 => accepted'[work[d][i]] = accepted[work[d][i]]
<1>1. /\ work[c] \in Seq(Mails) /\ results[c] \in Seq(BOOLEAN)
      /\ Len(results[c]) \in Nat /\ Len(work[c]) \in Nat /\ DOMAIN work[c] = 1..Len(work[c])
  BY SendersAssumption DEF SenderTypes
<1>2. Len(results[c]) + 1 \in DOMAIN work[c] /\ Current(c) = work[c][Len(results[c]) + 1] /\ Current(c) \in Mails
  BY <1>1 DEF Current
<1> HIDE DEF Current
<1>3. /\ accepted' \in [Mails -> 0..2] /\ reached' \in [Mails -> SUBSET Fields]
      /\ \A m \in Mails : m # Current(c) => accepted'[m] = accepted[m]
      /\ accepted[Current(c)] <= accepted'[Current(c)]
      /\ accepted'[Current(c)] <= accepted[Current(c)] + 1
      /\ Taken(c) => accepted'[Current(c)] > 0
  <2>1. ASSUME NEW F \in SUBSET Fields, Accept(Current(c), F)
        PROVE  /\ accepted' \in [Mails -> 0..2] /\ reached' \in [Mails -> SUBSET Fields]
               /\ \A m \in Mails : m # Current(c) => accepted'[m] = accepted[m]
               /\ accepted[Current(c)] <= accepted'[Current(c)]
               /\ accepted'[Current(c)] <= accepted[Current(c)] + 1
               /\ accepted'[Current(c)] > 0
    <3>1. /\ accepted' = [accepted EXCEPT ![Current(c)] = IF @ = 2 THEN 2 ELSE @ + 1]
          /\ reached' = [reached EXCEPT ![Current(c)] = @ \cup F]
      BY <2>1, Zenon DEF Accept
    <3>2. accepted[Current(c)] \in 0..2 /\ reached[Current(c)] \in SUBSET Fields
      BY <1>2, Zenon DEF SenderTypes
    <3>3. reached' \in [Mails -> SUBSET Fields]
      BY <3>1, <3>2, Zenon DEF SenderTypes
    <3>4. /\ accepted' \in [Mails -> 0..2]
          /\ \A m \in Mails : m # Current(c) => accepted'[m] = accepted[m]
          /\ accepted'[Current(c)] = IF accepted[Current(c)] = 2 THEN 2 ELSE accepted[Current(c)] + 1
      BY <1>2, <3>1, <3>2 DEF SenderTypes
    <3>5. QED
      BY <3>2, <3>3, <3>4
  <2>2. CASE Taken(c)
    BY <2>1, <2>2, Zenon DEF Taken
  <2>3. CASE ~Taken(c)
    <3>1. accepted' = accepted /\ reached' = reached
      BY <2>3, Zenon DEF NotAccepted
    <3>2. accepted[Current(c)] \in 0..2
      BY <1>2, Zenon DEF SenderTypes
    <3>3. QED
      BY <2>3, <3>1, <3>2 DEF SenderTypes
  <2>4. QED
    BY <2>2, <2>3, Zenon
<1>4. ASSUME NEW d \in Callers, NEW i \in DOMAIN work[d], d # c \/ i # Len(results[c]) + 1
      PROVE  accepted'[work[d][i]] = accepted[work[d][i]]
  <2>1. work[d] \in Seq(Mails)
    BY SendersAssumption, Zenon
  <2>2. work[d][i] \in Mails
    BY <2>1
  <2>3. work[d][i] # Current(c)
    BY <1>2, <1>4, SendersAssumption
  <2>4. QED
    BY <1>3, <2>2, <2>3, Zenon
<1>5. QED
  BY <1>2, <1>3, <1>4, Zenon

(* The other callers' progress is not touched by a step of caller c. *)
LEMMA OthersProgress ==
    ASSUME SenderTypes, NEW c \in Callers, Len(results[c]) < Len(work[c]), Taken(c) \/ NotAccepted,
           NEW d \in Callers, d # c, Progress(d),
           fate'[d] = fate[d], results'[d] = results[d], UNCHANGED <<channel, again>>
    PROVE  Progress(d)'
<1>1. \A i \in DOMAIN work[d] : accepted'[work[d][i]] = accepted[work[d][i]]
  BY TakenOrNot, SMTT(20)
<1>2. QED
  BY <1>1, Zenon DEF Progress

(* A caller that has recorded the result of its message. *)
LEMMA RecordProgress ==
    ASSUME SenderTypes, NEW c \in Callers, fate[c] = "sending", Progress(c), Taken(c) \/ NotAccepted,
           NEW ok \in BOOLEAN, Record(c, ok), ok => Taken(c), channel # "fcm" => ok,
           UNCHANGED <<channel, again>>
    PROVE  Progress(c)'
<1> DEFINE k == Len(results[c]) + 1
<1>1. /\ results[c] \in Seq(BOOLEAN) /\ k \in Nat \ {0} /\ Len(results[c]) = k - 1 /\ DOMAIN results[c] = 1..(k - 1)
      /\ work[c] \in Seq(Mails) /\ Len(work[c]) \in Nat /\ DOMAIN work[c] = 1..Len(work[c])
  BY SendersAssumption DEF SenderTypes
<1>2. k <= Len(work[c])
  BY <1>1 DEF Progress
<1>3. /\ results'[c] = Append(results[c], ok)
      /\ fate'[c] = IF k = Len(work[c]) THEN "done" ELSE "sending"
  BY Zenon DEF Record, Become, SenderTypes
<1>4. /\ Len(results'[c]) = k /\ DOMAIN results'[c] = 1..k
      /\ \A i \in 1..(k - 1) : results'[c][i] = results[c][i]
      /\ results'[c][k] = ok
  BY <1>1, <1>3
<1>5. /\ Current(c) = work[c][k]
      /\ accepted[work[c][k]] <= accepted'[work[c][k]] /\ accepted'[work[c][k]] <= accepted[work[c][k]] + 1
      /\ ok => accepted'[work[c][k]] > 0
      /\ \A i \in DOMAIN work[c] : i # k => accepted'[work[c][i]] = accepted[work[c][i]]
  BY <1>1, <1>2, TakenOrNot DEF Current
<1> HIDE DEF k
<1>6. ASSUME NEW i \in DOMAIN results'[c]
      PROVE  /\ i \in DOMAIN work[c]
             /\ results'[c][i] => accepted'[work[c][i]] > 0
             /\ channel' # "fcm" => results'[c][i]
  <2>1. CASE i = k
    BY <1>1, <1>2, <1>4, <1>5, <2>1
  <2>2. CASE i # k
    <3>1. i \in DOMAIN results[c] /\ results'[c][i] = results[c][i]
      BY <1>1, <1>4, <2>2
    <3>2. i \in DOMAIN work[c] /\ accepted'[work[c][i]] = accepted[work[c][i]]
      BY <1>5, <2>2, <3>1, Zenon DEF Progress
    <3>3. QED
      BY <3>1, <3>2, Zenon DEF Progress
  <2>3. QED
    BY <2>1, <2>2, Zenon
<1>7. ASSUME c \notin again, NEW i \in DOMAIN work[c]
      PROVE  accepted'[work[c][i]] <= 1 /\ (i > k => accepted'[work[c][i]] = 0)
  <2>1. CASE i = k
    <3>1. accepted[work[c][k]] = 0
      BY <1>1, <1>7, <2>1 DEF Progress
    <3>2. accepted'[work[c][k]] <= 1
      BY <1>5, <3>1
    <3>3. QED
      BY <1>1, <2>1, <3>2
  <2>2. CASE i # k
    <3>1. accepted'[work[c][i]] = accepted[work[c][i]] /\ accepted[work[c][i]] <= 1
      BY <1>5, <1>7, <2>2, Zenon DEF Progress
    <3>2. i > k => accepted[work[c][i]] = 0
      BY <1>1, <1>7 DEF Progress
    <3>3. QED
      BY <3>1, <3>2, Zenon
  <2>3. QED
    BY <2>1, <2>2, Zenon
<1>8. QED
  BY <1>1, <1>2, <1>3, <1>4, <1>6, <1>7 DEF Progress

(* A caller to which an exception was raised, with the message taken or not. *)
LEMMA RaiseProgress ==
    ASSUME SenderTypes, NEW c \in Callers, fate[c] \in {"connecting", "sending"}, Progress(c),
           Taken(c) \/ NotAccepted, Raise(c), UNCHANGED <<channel, again>>
    PROVE  Progress(c)'
<1> DEFINE k == Len(results[c]) + 1
<1>1. /\ results[c] \in Seq(BOOLEAN) /\ k \in Nat \ {0} /\ Len(results[c]) = k - 1 /\ DOMAIN results[c] = 1..(k - 1)
      /\ work[c] \in Seq(Mails) /\ Len(work[c]) \in Nat /\ DOMAIN work[c] = 1..Len(work[c])
  BY SendersAssumption DEF SenderTypes
<1>2. k <= Len(work[c])
  BY <1>1 DEF Progress
<1>3. results' = results /\ fate'[c] = "raised"
  BY Zenon DEF Raise, Become, SenderTypes
<1>4. /\ accepted'[work[c][k]] <= accepted[work[c][k]] + 1
      /\ \A i \in DOMAIN work[c] : i # k => accepted'[work[c][i]] = accepted[work[c][i]]
  BY <1>1, <1>2, TakenOrNot DEF Current
<1> HIDE DEF k
<1>5. \A i \in DOMAIN results[c] : i # k
  BY <1>1
<1>6. ASSUME c \notin again, NEW i \in DOMAIN work[c]
      PROVE  accepted'[work[c][i]] <= 1 /\ (i > k - 1 => accepted'[work[c][i]] = 0 \/ i = k)
  <2>1. CASE i = k
    <3>1. accepted[work[c][k]] = 0
      BY <1>1, <1>6, <2>1, SMTT(20) DEF Progress
    <3>2. QED
      BY <1>4, <2>1, <3>1
  <2>2. CASE i # k
    <3>1. accepted'[work[c][i]] = accepted[work[c][i]] /\ accepted[work[c][i]] <= 1
      BY <1>4, <1>6, <2>2, Zenon DEF Progress
    <3>2. i > k - 1 => accepted[work[c][i]] = 0
      BY <1>1, <1>6 DEF Progress
    <3>3. QED
      BY <3>1, <3>2, Zenon
  <2>3. QED
    BY <2>1, <2>2, Zenon
<1>7. \A i \in DOMAIN results[c] : i \in DOMAIN work[c] /\ accepted'[work[c][i]] = accepted[work[c][i]]
  BY <1>4, <1>5, Zenon DEF Progress
<1>8. QED
  BY <1>1, <1>2, <1>3, <1>6, <1>7 DEF Progress

(* The recipients of a message that was taken are those its sender names. *)
LEMMA RecipientsStep ==
    ASSUME SenderTypes, EveryRecipient, NEW c \in Callers, Len(results[c]) < Len(work[c]),
           Taken(c) \/ NotAccepted, channel' = channel
    PROVE  EveryRecipient'
<1>1. CASE NotAccepted
  BY <1>1, Zenon DEF NotAccepted, EveryRecipient
<1>2. CASE Taken(c)
  <2>1. PICK F \in SUBSET Fields : Accept(Current(c), F) /\ (channel \in Unaddressed \/ Addressed \subseteq F)
    BY <1>2, Zenon DEF Taken
  <2>2. Current(c) \in Mails /\ \A m \in Mails : m # Current(c) => accepted'[m] = accepted[m]
    BY <1>2, TakenOrNot, Zenon
  <2>3. /\ \A m \in Mails : m # Current(c) => reached'[m] = reached[m]
        /\ reached'[Current(c)] = reached[Current(c)] \cup F
    BY <2>1, <2>2, Zenon DEF Accept, SenderTypes
  <2>4. CASE channel \in Unaddressed
    BY <2>4, Zenon DEF EveryRecipient, Unaddressed
  <2>5. CASE Addressed \subseteq F
    <3>1. Fields \ {"bcc"} \subseteq reached'[Current(c)] /\ (channel # "smtp" => "bcc" \in reached'[Current(c)])
      BY <2>3, <2>5, Zenon DEF Addressed, Fields
    <3>2. QED
      BY <2>2, <2>3, <3>1, Zenon DEF EveryRecipient
  <2>6. QED
    BY <2>1, <2>4, <2>5, Zenon
<1>3. QED
  BY <1>1, <1>2, Zenon

(* Whoever does not connect leaves the connection as it is. *)
LEMMA ConnectionKept ==
    ASSUME SenderTypes, ConnectionInv, UNCHANGED <<channel, client, opened>>,
           \A d \in Callers : fate'[d] = "connecting" => fate[d] = "connecting",
           NotAccepted \/ channel # "smtp" \/ client = "ready"
    PROVE  ConnectionInv'
  BY Zenon DEF ConnectionInv, NotAccepted

(* Sending one message keeps SenderInv. *)
LEMMA HandedStep ==
    ASSUME SenderInv, NEW c \in Callers, Handed(c)
    PROVE  SenderInv'
<1>1. /\ fate[c] = "sending" /\ UNCHANGED <<channel, client, again, opened>>
      /\ Taken(c) \/ NotAccepted
      /\ NotAccepted \/ channel # "smtp" \/ client = "ready"
  BY Zenon DEF Handed
<1>2. SenderTypes /\ EveryRecipient /\ ConnectionInv /\ \A d \in Callers : Progress(d)
  BY Zenon DEF SenderInv
<1>3. Len(results[c]) < Len(work[c])
  BY <1>1, <1>2, Zenon DEF Progress
<1>4. EveryRecipient'
  BY <1>1, <1>2, <1>3, RecipientsStep, Zenon
<1>5. accepted' \in [Mails -> 0..2] /\ reached' \in [Mails -> SUBSET Fields]
  BY <1>1, <1>2, <1>3, TakenOrNot, Zenon
<1>6. ASSUME NEW ok \in BOOLEAN, Record(c, ok), ok => Taken(c), channel # "fcm" => ok
      PROVE  SenderInv'
  <2>1. /\ \A d \in Callers : d # c => fate'[d] = fate[d] /\ results'[d] = results[d]
        /\ fate' \in [Callers -> {"idle", "connecting", "sending", "done", "raised"}]
        /\ results' \in [Callers -> Seq(BOOLEAN)]
        /\ fate'[c] # "connecting"
    BY <1>2, <1>6 DEF Record, Become, SenderTypes
  <2>2. Progress(c)'
    BY <1>1, <1>2, <1>6, RecordProgress, Zenon
  <2>3. \A d \in Callers : d # c => Progress(d)'
    BY <1>1, <1>2, <1>3, <2>1, OthersProgress, Zenon
  <2>4. ConnectionInv'
    BY <1>1, <1>2, <2>1, ConnectionKept, Zenon
  <2>5. QED
    BY <1>1, <1>2, <1>4, <1>5, <2>1, <2>2, <2>3, <2>4, Zenon DEF SenderInv, SenderTypes
<1>7. CASE Raise(c)
  <2>1. /\ \A d \in Callers : d # c => fate'[d] = fate[d] /\ results'[d] = results[d]
        /\ fate' \in [Callers -> {"idle", "connecting", "sending", "done", "raised"}]
        /\ results' = results /\ fate'[c] # "connecting"
    BY <1>2, <1>7, Zenon DEF Raise, Become, SenderTypes
  <2>2. Progress(c)'
    BY <1>1, <1>2, <1>7, RaiseProgress, Zenon
  <2>3. \A d \in Callers : d # c => Progress(d)'
    BY <1>1, <1>2, <1>3, <2>1, OthersProgress, Zenon
  <2>4. ConnectionInv'
    BY <1>1, <1>2, <2>1, ConnectionKept, Zenon
  <2>5. QED
    BY <1>1, <1>2, <1>4, <1>5, <2>1, <2>2, <2>3, <2>4, Zenon DEF SenderInv, SenderTypes
<1>8. CASE NotAccepted /\ UNCHANGED <<fate, results>>
  <2>1. \A d \in Callers : Progress(d)'
    BY <1>1, <1>2, <1>8, Zenon DEF Progress, NotAccepted
  <2>2. ConnectionInv'
    BY <1>1, <1>2, <1>8, ConnectionKept, Zenon
  <2>3. QED
    BY <1>1, <1>2, <1>4, <1>5, <1>8, <2>1, <2>2, Zenon DEF SenderInv, SenderTypes
<1>9. QED
  BY <1>6, <1>7, <1>8, Zenon DEF Handed

(* Every step of the senders and their callers keeps SenderInv. *)
LEMMA SenderStep == SenderInv /\ [SenderNext]_sender_vars => SenderInv'
<1> SUFFICES ASSUME SenderInv, [SenderNext]_sender_vars
             PROVE  SenderInv'
  BY Zenon
<1>0. SenderTypes /\ EveryRecipient /\ ConnectionInv /\ \A d \in Callers : Progress(d)
  BY Zenon DEF SenderInv
<1>1. ASSUME NEW c \in Callers, send_bulk(c)
      PROVE  SenderInv'
  <2>1. /\ fate[c] = "idle" /\ UNCHANGED <<channel, client, results, again, opened, accepted, reached>>
        /\ fate' = [fate EXCEPT ![c] = IF work[c] = <<>> THEN "done" ELSE "sending"]
    BY <1>1, Zenon DEF send_bulk, Become, NotAccepted
  <2>2. SenderTypes' /\ \A d \in Callers : d # c => fate'[d] = fate[d]
    BY <1>0, <2>1, Zenon DEF SenderTypes
  <2>3. ConnectionInv'
    BY <1>0, <2>1, Zenon DEF ConnectionInv, SenderTypes
  <2>4. \A d \in Callers : d # c => Progress(d)'
    BY <1>0, <2>1, <2>2 DEF Progress
  <2>5. Progress(c)'
    <3>1. results[c] = <<>> /\ Len(results[c]) = 0
      BY <1>0, <2>1 DEF Progress
    <3>2. work[c] \in Seq(Mails)
      BY SendersAssumption, Zenon
    <3>3. work[c] # <<>> => 0 < Len(work[c])
      BY <3>2
    <3>4. fate'[c] = IF work[c] = <<>> THEN "done" ELSE "sending"
      BY <1>0, <2>1, Zenon DEF SenderTypes
    <3>5. QED
      BY <1>0, <2>1, <3>1, <3>2, <3>3, <3>4 DEF Progress
  <2>6. EveryRecipient'
    BY <1>0, <2>1, SMTT(20) DEF EveryRecipient
  <2>7. QED
    BY <2>2, <2>3, <2>4, <2>5, <2>6, Zenon DEF SenderInv
<1>2. ASSUME NEW c \in Callers, repeat(c)
      PROVE  SenderInv'
  <2>1. /\ fate[c] = "raised" /\ UNCHANGED <<channel, client, opened, accepted, reached>>
        /\ again' = again \cup {c} /\ fate' = [fate EXCEPT ![c] = "sending"]
        /\ results' = [results EXCEPT ![c] = <<>>]
    BY <1>2, Zenon DEF repeat, Become, NotAccepted
  <2>2. /\ SenderTypes' /\ fate'[c] = "sending" /\ results'[c] = <<>> /\ c \in again'
        /\ \A d \in Callers : d # c => fate'[d] = fate[d] /\ results'[d] = results[d]
    BY <1>0, <2>1 DEF SenderTypes
  <2>3. ConnectionInv'
    BY <1>0, <2>1, <2>2 DEF ConnectionInv
  <2>4. \A d \in Callers : d # c => Progress(d)'
    BY <1>0, <2>1, <2>2 DEF Progress
  <2>5. Progress(c)'
    <3>1. results[c] \in Seq(BOOLEAN) /\ work[c] \in Seq(Mails) /\ Len(results[c]) < Len(work[c])
      BY <1>0, <2>1, SendersAssumption, Zenon DEF SenderTypes, Progress
    <3>2. Len(results'[c]) = 0 /\ DOMAIN results'[c] = {} /\ 0 < Len(work[c])
      BY <2>2, <3>1
    <3>3. QED
      BY <2>2, <3>2, Zenon DEF Progress
  <2>6. EveryRecipient'
    BY <1>0, <2>1, SMTT(20) DEF EveryRecipient
  <2>7. QED
    BY <2>2, <2>3, <2>4, <2>5, <2>6, Zenon DEF SenderInv
<1>3. ASSUME NEW c \in Callers, connect(c)
      PROVE  SenderInv'
  <2>1. /\ fate[c] = "sending" /\ channel = "smtp" /\ client = "unset" /\ client' = "connecting"
        /\ fate' = [fate EXCEPT ![c] = "connecting"] /\ opened' = opened + 1
        /\ UNCHANGED <<channel, results, again, accepted, reached>>
    BY <1>3, Zenon DEF connect, Become, NotAccepted
  <2>2. SenderTypes' /\ fate'[c] = "connecting" /\ \A d \in Callers : d # c => fate'[d] = fate[d]
    BY <1>0, <2>1, Zenon DEF SenderTypes
  <2>3. ConnectionInv'
    BY <1>0, <2>1, <2>2, SMTT(20) DEF ConnectionInv
  <2>4. \A d \in Callers : Progress(d)'
    BY <1>0, <2>1, <2>2 DEF Progress
  <2>5. EveryRecipient'
    BY <1>0, <2>1, SMTT(20) DEF EveryRecipient
  <2>6. QED
    BY <2>2, <2>3, <2>4, <2>5, Zenon DEF SenderInv
<1>4. ASSUME NEW c \in Callers, connected(c)
      PROVE  SenderInv'
  <2>1. /\ fate[c] = "connecting" /\ NotAccepted
        /\ \/ client' = "ready" /\ fate' = [fate EXCEPT ![c] = "sending"]
           \/ client' = "broken" /\ fate' = [fate EXCEPT ![c] = "raised"]
        /\ UNCHANGED <<channel, again, opened, results, accepted, reached>>
    BY <1>4, Zenon DEF connected, Become, Raise, NotAccepted
  <2>2. /\ SenderTypes' /\ fate'[c] \in {"sending", "raised"}
        /\ \A d \in Callers : d # c => fate'[d] = fate[d]
    BY <1>0, <2>1, Zenon DEF SenderTypes
  <2>3. ConnectionInv'
    <3>1. client = "connecting" /\ \A d \in Callers : fate'[d] # "connecting"
      BY <1>0, <2>1, <2>2, SMTT(20) DEF ConnectionInv
    <3>2. QED
      BY <1>0, <2>1, <3>1, Zenon DEF ConnectionInv
  <2>4. \A d \in Callers : d # c => Progress(d)'
    BY <1>0, <2>1, <2>2 DEF Progress
  <2>5. Progress(c)'
    BY <1>0, <2>1, <2>2, Zenon DEF Progress
  <2>6. EveryRecipient'
    BY <1>0, <2>1, SMTT(20) DEF EveryRecipient
  <2>7. QED
    BY <2>2, <2>3, <2>4, <2>5, <2>6, Zenon DEF SenderInv
<1>5. CASE UNCHANGED sender_vars
  BY <1>0, <1>5 DEF sender_vars, SenderInv, SenderTypes, ConnectionInv, EveryRecipient, Progress
<1>6. QED
  BY <1>1, <1>2, <1>3, <1>4, <1>5, SendersHand, HandedStep, Zenon DEF SenderNext

(* Whichever sender is in use, whatever the provider refuses or leaves      *)
(* unanswered, and however callers overlap: SentAsAnswered holds.           *)
THEOREM SentAsAnsweredHolds == SenderSpec => []SentAsAnswered
<1>1. SenderInit => SenderInv
  <2> SUFFICES ASSUME SenderInit
               PROVE  SenderInv
    BY Zenon
  <2>1. SenderTypes /\ EveryRecipient /\ ConnectionInv
    BY DEF SenderInit, SenderTypes, EveryRecipient, ConnectionInv
  <2>2. ASSUME NEW c \in Callers
        PROVE  Progress(c)
    <3>1. fate[c] = "idle" /\ results[c] = <<>> /\ Len(results[c]) = 0 /\ DOMAIN results[c] = {}
      BY DEF SenderInit
    <3>2. work[c] \in Seq(Mails)
      BY SendersAssumption, Zenon
    <3>3. \A i \in DOMAIN work[c] : accepted[work[c][i]] = 0
      BY <3>2 DEF SenderInit
    <3>4. QED
      BY <3>1, <3>3 DEF Progress
  <2>3. QED
    BY <2>1, <2>2, Zenon DEF SenderInv
<1>2. SenderInv /\ [SenderNext]_sender_vars => SenderInv'
  BY SenderStep, Zenon
<1>3. SenderInv => SentAsAnswered
  <2> SUFFICES ASSUME SenderInv
               PROVE  SentAsAnswered
    BY Zenon
  <2>1. AnsweredMeansAccepted /\ SentTwiceOnlyIfRepeated
    BY Zenon DEF SenderInv, Progress, AnsweredMeansAccepted, SentTwiceOnlyIfRepeated
  <2>2. OneConnection
    BY DEF SenderInv, ConnectionInv, OneConnection
  <2>3. QED
    BY <2>1, <2>2, Zenon DEF SenderInv, SentAsAnswered
<1>4. QED
  BY <1>1, <1>2, <1>3, PTL DEF SenderSpec

-----------------------------------------------------------------------------
(* The consumers.                                                           *)

(* A function on an interval from 1 is a sequence. *)
LEMMA BatchIsSeq ==
    ASSUME NEW n \in Nat, NEW b \in [1..n -> Messages]
    PROVE  b \in Seq(Messages)
  OBVIOUS

(* The messages of a batch are its first one and those that follow. *)
LEMMA MembersOfTail ==
    ASSUME NEW b \in Seq(Messages), b # <<>>
    PROVE  /\ Head(b) \in Messages /\ Tail(b) \in Seq(Messages)
           /\ Members(b) = {Head(b)} \cup Members(Tail(b))
<1>1. /\ Len(b) \in Nat \ {0} /\ DOMAIN b = 1..Len(b) /\ Head(b) = b[1]
      /\ DOMAIN Tail(b) = 1..(Len(b) - 1)
      /\ \A i \in 1..(Len(b) - 1) : Tail(b)[i] = b[i + 1]
  OBVIOUS
<1>2. ASSUME NEW i \in DOMAIN b
      PROVE  b[i] \in {Head(b)} \cup Members(Tail(b))
  <2>1. CASE i = 1
    BY <1>1, <2>1, Zenon
  <2>2. CASE i # 1
    <3>1. i - 1 \in DOMAIN Tail(b) /\ Tail(b)[i - 1] = b[i]
      BY <1>1, <2>2
    <3>2. QED
      BY <3>1, Zenon DEF Members
  <2>3. QED
    BY <2>1, <2>2, Zenon
<1>3. ASSUME NEW i \in DOMAIN Tail(b)
      PROVE  Tail(b)[i] \in Members(b)
  BY <1>1 DEF Members
<1>4. Head(b) \in Members(b)
  BY <1>1 DEF Members
<1>5. Head(b) \in Messages /\ Tail(b) \in Seq(Messages)
  OBVIOUS
<1>6. Members(b) \subseteq {Head(b)} \cup Members(Tail(b))
  BY <1>2, Zenon DEF Members
<1>7. {Head(b)} \cup Members(Tail(b)) \subseteq Members(b)
  BY <1>3, <1>4, Zenon DEF Members
<1>8. QED
  BY <1>5, <1>6, <1>7, Zenon

(* The first message of the batch has been processed when its loop body is  *)
(* over; what pull() has noted for acknowledgement is processed, or it is   *)
(* the one in the loop body; and what Kafka has handed out is processed or  *)
(* still in the batch.                                                      *)
ConsumerInv ==
    /\ transport \in Transports /\ message \in [Messages -> {"ready", "out", "acked"}]
    /\ batch \in Seq(Messages) /\ acks \subseteq Messages /\ processed \subseteq Messages
    /\ body \in {"new", "yielded", "processed"} /\ failures \in Nat
    /\ body # "new" => batch # <<>>
    /\ body = "processed" => Head(batch) \in processed
    /\ \A m \in acks : m \in processed \/ (body = "yielded" /\ m = Head(batch))
    /\ transport = "kafka" => \A m \in Messages : message[m] = "out" => m \in processed \/ m \in Members(batch)
    /\ AckedIsProcessed

(* A delivery, to a consumer that holds nothing, keeps ConsumerInv. *)
LEMMA DeliverStep ==
    ASSUME ConsumerInv, NEW b \in Seq(Messages), Deliver(b)
    PROVE  ConsumerInv'
<1>1. /\ batch = <<>> /\ batch' = b /\ UNCHANGED <<transport, body, acks, processed, failures>>
      /\ message' = [m \in Messages |-> IF m \in Members(b) THEN "out" ELSE message[m]]
  BY Zenon DEF Deliver
<1>2. Members(<<>>) = {}
  BY DEF Members
<1>3. body = "new"
  BY <1>1, Zenon DEF ConsumerInv
<1>4. AckedIsProcessed'
  BY <1>1, <1>2, Zenon DEF ConsumerInv, AckedIsProcessed
<1>5. transport' = "kafka" => \A m \in Messages : message'[m] = "out" => m \in processed' \/ m \in Members(batch')
  BY <1>1, <1>2, Zenon DEF ConsumerInv
<1>6. QED
  BY <1>1, <1>3, <1>4, <1>5, Zenon DEF ConsumerInv

(* Every step of a consumer keeps ConsumerInv. *)
LEMMA ConsumerStep == ConsumerInv /\ [ConsumerNext]_consumer_vars => ConsumerInv'
<1> SUFFICES ASSUME ConsumerInv, [ConsumerNext]_consumer_vars
             PROVE  ConsumerInv'
  BY Zenon
<1>0. batch # <<>> => /\ Head(batch) \in Messages /\ Tail(batch) \in Seq(Messages)
                      /\ Members(batch) = {Head(batch)} \cup Members(Tail(batch))
  BY MembersOfTail, Zenon DEF ConsumerInv
<1>1. CASE pull \/ read
  <2>1. Ready \subseteq Messages
    BY Zenon DEF Ready
  <2>2. Batches \subseteq Seq(Messages)
    <3>1. ASSUME NEW b \in Batches
          PROVE  b \in Seq(Messages)
      <4>1. PICK n \in 1..max_messages : b \in [1..n -> Ready]
        BY Zenon DEF Batches
      <4>2. n \in Nat
        BY ConsumersAssumption
      <4>3. b \in [1..n -> Messages]
        BY <2>1, <4>1, Zenon
      <4>4. QED
        BY <4>2, <4>3, BatchIsSeq, Zenon
    <3>2. QED
      BY <3>1, Zenon
  <2>3. QED
    BY <1>1, <2>2, DeliverStep, Zenon DEF pull, read
<1>2. CASE receive
  <2>1. PICK m \in Ready : Deliver(<<m>>)
    BY <1>2, Zenon DEF receive
  <2>2. <<m>> \in Seq(Messages)
    BY DEF Ready
  <2>3. QED
    BY <2>1, <2>2, DeliverStep, Zenon
<1>3. CASE decode
  BY <1>0, <1>3, Zenon DEF decode, ConsumerInv, AckedIsProcessed
<1>4. CASE process
  BY <1>0, <1>4, Zenon DEF process, ConsumerInv, AckedIsProcessed
<1>5. CASE next
  <2>1. /\ batch # <<>> /\ body = "processed" /\ batch' = Tail(batch) /\ body' = "new"
        /\ UNCHANGED <<transport, acks, processed, failures>>
        /\ Head(batch) \in processed
    BY <1>5, Zenon DEF next, ConsumerInv
  <2>2. /\ message' \in [Messages -> {"ready", "out", "acked"}]
        /\ \A m \in Messages : m # Head(batch) => message'[m] = message[m]
        /\ transport = "kafka" => message' = message
    BY <1>0, <1>5, Zenon DEF next, ConsumerInv
  <2>3. AckedIsProcessed'
    BY <1>0, <2>1, <2>2, Zenon DEF ConsumerInv, AckedIsProcessed
  <2>4. QED
    BY <1>0, <2>1, <2>2, <2>3, Zenon DEF ConsumerInv
<1>6. CASE acknowledge
  <2>1. \A m \in acks : m \in processed
    BY <1>6, Zenon DEF acknowledge, ConsumerInv
  <2>2. QED
    BY <1>6, <2>1, Zenon DEF acknowledge, ConsumerInv, AckedIsProcessed
<1>7. CASE decode_error
  <2>1. /\ batch # <<>> /\ body = "new" /\ transport # "kafka" /\ batch' = Tail(batch) /\ failures' = failures + 1
        /\ message' = [message EXCEPT ![Head(batch)] = "ready"]
        /\ UNCHANGED <<transport, body, acks, processed>>
    BY <1>7, Zenon DEF decode_error
  <2>2. QED
    BY <1>0, <2>1 DEF ConsumerInv, AckedIsProcessed
<1>8. CASE auto_commit
  BY <1>8, Zenon DEF auto_commit, ConsumerInv, AckedIsProcessed
<1>9. CASE leave
  <2>1. /\ failures' = failures + 1 /\ batch' = <<>> /\ body' = "new" /\ acks' = {}
        /\ message' = [m \in Messages |-> IF m \in Redelivered THEN "ready" ELSE message[m]]
        /\ UNCHANGED <<transport, processed>>
    BY <1>9, Zenon DEF leave
  <2>2. transport = "kafka" => \A m \in Messages : message'[m] # "out"
    BY <2>1, Zenon DEF Redelivered, ConsumerInv
  <2>3. AckedIsProcessed'
    BY <2>1 DEF ConsumerInv, AckedIsProcessed
  <2>4. QED
    BY <2>1, <2>2, <2>3 DEF ConsumerInv
<1>10. CASE UNCHANGED consumer_vars
  BY <1>10, Zenon DEF consumer_vars, ConsumerInv, AckedIsProcessed
<1>11. QED
  BY <1>1, <1>2, <1>3, <1>4, <1>5, <1>6, <1>7, <1>8, <1>9, <1>10, Zenon DEF ConsumerNext, Consume

(* Wherever a consumer dies and whichever broker it is connected to, what   *)
(* is acknowledged has been processed, but for Kafka's commits in the       *)
(* background.                                                              *)
THEOREM AckedIsProcessedHolds == ConsumerSpec => []AckedIsProcessed
<1>1. ConsumerInit => ConsumerInv
  BY DEF ConsumerInit, ConsumerInv, AckedIsProcessed
<1>2. ConsumerInv /\ [ConsumerNext]_consumer_vars => ConsumerInv'
  BY ConsumerStep, Zenon
<1>3. ConsumerInv => AckedIsProcessed
  BY Zenon DEF ConsumerInv
<1>4. QED
  BY <1>1, <1>2, <1>3, PTL DEF ConsumerSpec
=============================================================================
