----------------------------- MODULE MCPlatform -----------------------------
(* The event store, and the parts of the platform around it, one at a time: *)
(* `part` is the one that runs. The writers of the event store are          *)
(* interchangeable; nothing here is a liveness property.                    *)
EXTENDS EventSourcing, Senders, TLC

VARIABLES part, argon2, cost, keys, key_now, issued, revoked, stage, column, selected, chosen,
          col_rotated, written, col_overlapped, clock, active, retired, jwks_client, jwks,
          asked, verdict, database, current, drawn, errors, turn, events, reported,
          crowded, elapsed, interval, renewer, ttl, wait, misses, source, cfg_clock,
          content, stamp, cache, loading, seen, told, watching, floor, tainted, missed,
          yaml, flags, answers, flags_loaded

WriterSymmetry == Permutations(Writers)

(* A list of two messages, one of one, and an empty one. *)
Lists == <<<<1, 2>>, <<3>>, <<>>>>

Rotating == INSTANCE KeyManagement WITH Rows <- {1, 2}, MaxEdits <- 2, Keys <- {1, 2}, Verifiers <- {1, 2},
             cache_ttl <- 2, MaxNow <- 3, MaxClients <- 1, rotated <- col_rotated,
             overlapped <- col_overlapped, client <- jwks_client, RawKeys <- 1..3,
             MaxCost <- 2, now <- key_now
Secret == INSTANCE SecretManagement WITH Callers <- {1, 2}, Secrets <- {1, 2}, MaxPasswords <- 5, renew_before <- 4,
             lease <- 7, MaxNow <- 20
Config == INSTANCE Configuration WITH Getters <- {1, 2}, ttl <- 1, MaxNow <- 2, MaxVersion <- 3, Users <- 0..2,
             Targeted <- <<None, FALSE>> @@ (0 :> None), Buckets <- 2, clock <- cfg_clock

MCvars == <<part, vars, sender_vars, argon2, cost, keys, key_now, issued, revoked, stage, column, selected,
            chosen, col_rotated, written, col_overlapped, clock, active, retired,
            jwks_client, jwks, asked, verdict, database, current, drawn, errors, turn,
            events, reported, crowded, elapsed, interval, renewer, ttl, wait, misses,
            source, cfg_clock, content, stamp, cache, loading, seen, told, watching, floor,
            tainted, missed, yaml, flags, answers, flags_loaded>>

MCInit ==
    /\ part \in {"event_store", "senders", "credentials", "columns", "jwks", "secrets",
                "vault", "config", "flags"}
    /\ part # "senders" => channel = "mailgun"
    /\ part # "credentials" => argon2 = TRUE
    /\ part # "vault" => interval = 1
    /\ part # "config" => source = "file"
    /\ part # "flags" => yaml = None
    /\ part # "event_store" => backend = "memory"
    /\ Init
    /\ SenderInit /\ Rotating!ApiKeyInit /\ Rotating!ColumnInit /\ Rotating!SigningInit
    /\ Secret!SecretInit /\ Secret!TokenInit /\ Config!ConfigInit /\ Config!FlagInit

MCNext ==
    /\ UNCHANGED part
    /\ IF part = "event_store" THEN Next ELSE UNCHANGED vars
    /\ IF part = "senders" THEN SenderNext ELSE UNCHANGED sender_vars
    /\ IF part = "credentials" THEN Rotating!ApiKeyNext
       ELSE UNCHANGED <<argon2, cost, keys, key_now, issued, revoked>>
    /\ IF part = "columns" THEN Rotating!ColumnNext
       ELSE UNCHANGED <<stage, column, selected, chosen, col_rotated, written,
                        col_overlapped>>
    /\ IF part = "jwks" THEN Rotating!SigningNext
       ELSE UNCHANGED <<clock, active, retired, jwks_client, jwks, asked, verdict>>
    /\ IF part = "secrets" THEN Secret!SecretNext
       ELSE UNCHANGED <<database, current, drawn, errors, turn, events, reported, crowded>>
    /\ IF part = "vault" THEN Secret!TokenNext
       ELSE UNCHANGED <<elapsed, interval, renewer, ttl, wait, misses>>
    /\ IF part = "config" THEN Config!ConfigNext
       ELSE UNCHANGED <<source, cfg_clock, content, stamp, cache, loading, seen, told,
                        watching, floor, tainted, missed>>
    /\ IF part = "flags" THEN Config!FlagNext ELSE UNCHANGED <<yaml, flags, answers, flags_loaded>>

MCSpec == MCInit /\ [][MCNext]_MCvars

-----------------------------------------------------------------------------
(* The properties below join those of the parts, whose modules state their  *)
(* exceptions.                                                              *)

(* The state of every part has its type. *)
TypesOK ==
    /\ TypeOK /\ SenderTypeOK /\ Rotating!TypeOK /\ Secret!TypeOK /\ Config!TypeOK

(* API keys are accepted exactly while they are valid; a column stays       *)
(* readable and keeps its edits while its key is rotated, whole or not at   *)
(* all; a token signed with the current key is accepted, one signed with a  *)
(* retired key only while that key is cached.                               *)
KeysStayUsable ==
    /\ []TypesOK /\ []Rotating!AcceptedExactlyWhileValid
    /\ []Rotating!VerifiersAgreeUntilUpgrade
    /\ []Rotating!AlwaysReadable /\ []Rotating!EditsSurvive /\ Rotating!AllOrNothing
    /\ []Rotating!CurrentKeyAccepted /\ []Rotating!DecodedIsFresh
    /\ Rotating!RetiredOnlyWhileCached

(* The application has the password the database takes, every secret is     *)
(* rotated or reported, and a token is renewed before it expires.           *)
SecretsStayUsable ==
    /\ []Secret!PasswordsMatch /\ Secret!EverySecretDealtWith /\ []Secret!TokenKeptAlive

(* An invalidated setting is read again, a watcher is told of the latest    *)
(* change, a growing rollout takes no user back, and a flag file once read  *)
(* is not forgotten.                                                        *)
SettingsCurrent ==
    /\ []Config!InvalidatedIsGone /\ []Config!ToldTheLatest /\ []Config!RolloutOnlyGrows
    /\ Config!NoDefaultOnceLoaded
=============================================================================
