------------------------------ MODULE Senders ------------------------------
(* What leaves the process: the e-mail senders (Mailgun, SendGrid, SES, SMTP *)
(* and the one in memory), FCM pushes, Twilio messages and tasks for SQS and *)
(* Celery.  Callers share a sender and work through lists; the provider may  *)
(* accept, refuse, or accept and never be heard.                             *)
EXTENDS Naturals, Sequences, FiniteSets

CONSTANTS
    Callers,
    Mails,       \* messages of any kind: e-mails, pushes, texts and tasks
    work,        \* per caller: the sequence of messages of its send_bulk
    max_retries  \* of TwilioConfig

(* Each message is one of its own, in one list. *)
ASSUME SendersAssumption ==
    /\ work \in [Callers -> Seq(Mails)] /\ max_retries \in Nat
    /\ \A c, d \in Callers : \A i \in DOMAIN work[c], j \in DOMAIN work[d] :
          work[c][i] = work[d][j] => c = d /\ i = j

VARIABLES
    channel,   \* which sender; never changes
    client,    \* SmtpEmailSender._client: "unset" (None), "connecting", "ready" or "broken"
    fate,      \* per caller: "idle", "connecting", "sending", "done" or "raised"
    results,   \* per caller: the ids, or the SendResults, collected so far
    attempt,   \* per caller: posts of the current message answered with 429
    accepted,  \* how often the provider took each message (2 is more than once)
    reached,   \* the fields whose addresses a message went to
    again,     \* history: callers that repeated a list after an error
    opened     \* history: SMTP connections opened

sender_vars == <<channel, client, fate, results, attempt, accepted, reached, again, opened>>

Channels == {"mailgun", "sendgrid", "ses", "smtp", "memory", "fcm", "twilio", "sqs", "celery"}
Fields == {"to", "cc", "bcc"}   \* EmailMessage.all_recipients

SenderTypeOK ==
    /\ channel \in Channels /\ client \in {"unset", "connecting", "ready", "broken"}
    /\ fate \in [Callers -> {"idle", "connecting", "sending", "done", "raised"}]
    /\ results \in [Callers -> Seq(BOOLEAN)] /\ attempt \in [Callers -> 0..max_retries]
    /\ accepted \in [Mails -> 0..2] /\ reached \in [Mails -> SUBSET Fields]
    /\ again \subseteq Callers /\ opened \in 0..Cardinality(Callers)

SenderInit ==
    /\ channel \in Channels /\ client = "unset"
    /\ fate = [c \in Callers |-> "idle"] /\ results = [c \in Callers |-> <<>>]
    /\ attempt = [c \in Callers |-> 0] /\ accepted = [m \in Mails |-> 0]
    /\ reached = [m \in Mails |-> {}] /\ again = {} /\ opened = 0

Current(c) == work[c][Len(results[c]) + 1]
Become(c, f) == fate' = [fate EXCEPT ![c] = f]
Accept(m, fields) ==
    /\ accepted' = [accepted EXCEPT ![m] = IF @ = 2 THEN 2 ELSE @ + 1]
    /\ reached' = [reached EXCEPT ![m] = @ \cup fields]
NotAccepted == UNCHANGED <<accepted, reached>>

(* One message is done with: its result is kept, the next one is up. *)
Record(c, ok) ==
    /\ results' = [results EXCEPT ![c] = Append(@, ok)] /\ attempt' = [attempt EXCEPT ![c] = 0]
    /\ Become(c, IF Len(results[c]) + 1 = Len(work[c]) THEN "done" ELSE "sending")
(* The exception leaves send_bulk, and takes the ids with it. *)
Raise(c) == Become(c, "raised") /\ UNCHANGED <<results, attempt>>

(* Plausible slips in the definitions below, used to test the properties. *)
Post_going_on(c, fields) ==
    \/ Accept(Current(c), fields) /\ Record(c, TRUE)
    \/ NotAccepted /\ Record(c, FALSE)
twilio_on_any_error(c) ==
    /\ channel = "twilio" /\ fate[c] = "sending"
    /\ \/ Accept(Current(c), {"to"}) /\ Record(c, TRUE)
       \/ /\ Accept(Current(c), {"to"}) /\ attempt[c] + 1 < max_retries
          /\ attempt' = [attempt EXCEPT ![c] = @ + 1] /\ UNCHANGED <<fate, results>>
    /\ UNCHANGED <<channel, client, again, opened>>
twilio_without_end(c) ==
    /\ channel = "twilio" /\ fate[c] = "sending" /\ attempt' = [attempt EXCEPT ![c] = @ + 1]
    /\ NotAccepted /\ UNCHANGED <<channel, client, fate, results, again, opened>>
Addressed_by_headers == {"to", "cc"}
connect_then_set(c) ==
    /\ channel = "smtp" /\ fate[c] = "sending" /\ client = "unset"
    /\ Become(c, "connecting") /\ opened' = opened + 1
    /\ NotAccepted /\ UNCHANGED <<channel, client, results, attempt, again>>

(* post or send_message, then raise_for_status: taken and answered, or an  *)
(* exception, with the message taken or not.                               *)
Post(c, fields) ==
    \/ Accept(Current(c), fields) /\ Record(c, TRUE)
    \/ Accept(Current(c), fields) /\ Raise(c)
    \/ NotAccepted /\ Raise(c)

(* The addresses a payload names; the MIME message of SMTP has no Bcc, and *)
(* its recipients are taken from its headers.                              *)
Addressed == IF channel = "smtp" THEN {"to", "cc"} ELSE Fields

Through(c, ch, fields) ==
    channel = ch /\ fate[c] = "sending" /\ Post(c, fields) /\ UNCHANGED <<channel, client, again, opened>>
send_mailgun(c) == Through(c, "mailgun", Addressed)
send_sendgrid(c) == Through(c, "sendgrid", Addressed)
send_ses(c) == Through(c, "ses", Addressed)
dispatch_sqs(c) == Through(c, "sqs", {"to"})
dispatch_celery(c) == Through(c, "celery", {"to"})
send_memory(c) ==
    /\ channel = "memory" /\ fate[c] = "sending" /\ Accept(Current(c), Fields) /\ Record(c, TRUE)
    /\ UNCHANGED <<channel, client, again, opened>>

(* SMTP connects on the first send.  _client is set before connect() is    *)
(* awaited, and stays set when that fails.                                 *)
connect(c) ==
    /\ channel = "smtp" /\ fate[c] = "sending" /\ client = "unset"
    /\ client' = "connecting" /\ Become(c, "connecting") /\ opened' = opened + 1
    /\ NotAccepted /\ UNCHANGED <<channel, results, attempt, again>>
connected(c) ==
    /\ fate[c] = "connecting" /\ NotAccepted
    /\ \/ client' = "ready" /\ Become(c, "sending") /\ UNCHANGED <<results, attempt>>
       \/ client' = "broken" /\ Raise(c)
    /\ UNCHANGED <<channel, again, opened>>
send_smtp(c) ==
    /\ channel = "smtp" /\ fate[c] = "sending" /\ client # "unset"
    /\ IF client = "ready" THEN Post(c, Addressed) ELSE NotAccepted /\ Raise(c)
    /\ UNCHANGED <<channel, client, again, opened>>

(* FCM keeps a result per device and goes on after any error. *)
send_fcm(c) ==
    /\ channel = "fcm" /\ fate[c] = "sending"
    /\ \/ Accept(Current(c), {"to"}) /\ \E ok \in BOOLEAN : Record(c, ok)
       \/ NotAccepted /\ Record(c, FALSE)
    /\ UNCHANGED <<channel, client, again, opened>>

(* Twilio posts again when it is told to slow down, and only then. *)
send_twilio(c) ==
    /\ channel = "twilio" /\ fate[c] = "sending"
    /\ \/ Post(c, {"to"})
       \/ /\ attempt[c] + 1 < max_retries /\ attempt' = [attempt EXCEPT ![c] = @ + 1]
          /\ NotAccepted /\ UNCHANGED <<fate, results>>
       \/ attempt[c] + 1 = max_retries /\ NotAccepted /\ Raise(c)
    /\ UNCHANGED <<channel, client, again, opened>>

(* An empty list is done with at once. *)
send_bulk(c) ==
    /\ fate[c] = "idle" /\ Become(c, IF work[c] = <<>> THEN "done" ELSE "sending") /\ NotAccepted
    /\ UNCHANGED <<channel, client, results, attempt, again, opened>>
(* The application starts its list over after an error. *)
repeat(c) ==
    /\ fate[c] = "raised" /\ c \notin again /\ again' = again \cup {c} /\ Become(c, "sending")
    /\ results' = [results EXCEPT ![c] = <<>>] /\ attempt' = [attempt EXCEPT ![c] = 0]
    /\ NotAccepted /\ UNCHANGED <<channel, client, opened>>

SenderNext == \E c \in Callers :
    \/ send_bulk(c) \/ repeat(c) \/ connect(c) \/ connected(c)
    \/ send_mailgun(c) \/ send_sendgrid(c) \/ send_ses(c) \/ send_smtp(c) \/ send_memory(c)
    \/ send_fcm(c) \/ send_twilio(c) \/ dispatch_sqs(c) \/ dispatch_celery(c)
SenderSpec == SenderInit /\ [][SenderNext]_sender_vars

-----------------------------------------------------------------------------
(* An id, or a SendResult with success, means that the provider has the    *)
(* message; a send_bulk that returns has one for each message, in order.   *)
AnsweredMeansAccepted ==
    \A c \in Callers :
        /\ \A i \in DOMAIN results[c] : results[c][i] => accepted[work[c][i]] > 0
        /\ fate[c] = "done" => Len(results[c]) = Len(work[c])
        /\ channel # "fcm" => \A i \in DOMAIN results[c] : results[c][i]

(* Nothing is sent twice unless the caller repeats its list after an       *)
(* error: Twilio's own retries follow a refusal only.                      *)
SentTwiceOnlyIfRepeated == \A c \in Callers \ again : \A i \in DOMAIN work[c] : accepted[work[c][i]] <= 1

(* A message that was sent was sent to all its recipients, but for the     *)
(* blind copies of SMTP.                                                   *)
EveryRecipient ==
    channel \notin {"fcm", "twilio", "sqs", "celery"} =>
        \A m \in Mails : accepted[m] > 0 => Fields \ {"bcc"} \subseteq reached[m] /\ (channel # "smtp" => "bcc" \in reached[m])

(* However many callers send first at the same time, one SMTP connection   *)
(* is opened; what a failed one costs is that nothing is sent any more.    *)
OneConnection == opened <= 1 /\ (client = "broken" => \A m \in Mails : accepted[m] = 0)

(* A sender that returned has handed the message to the provider for every *)
(* recipient; a message sent twice was repeated after an error; and a      *)
(* connection is shared, not leaked.                                       *)
SentAsAnswered ==
    AnsweredMeansAccepted /\ SentTwiceOnlyIfRepeated /\ EveryRecipient /\ OneConnection
=============================================================================
