-------------------------- MODULE SecretManagement --------------------------
(* Secrets that are replaced or renewed in time.                            *)
EXTENDS Naturals, Sequences, FiniteSets

(* SecretRotator.rotate_all over DatabasePasswordRotatables, called by the   *)
(* scheduler and by hand, perhaps at the same time.                          *)

CONSTANTS
    Callers,
    Secrets,      \* 1..n, in the order of registration
    MaxPasswords  \* drawn altogether

VARIABLES
    database,  \* per secret: the password the database takes
    current,   \* per secret: _current
    drawn,     \* passwords drawn so far; they are all different
    errors,    \* SecretRotator.rotation_errors: names of secrets
    turn,      \* per caller: [at, secret, fresh]
    events,    \* per caller: the events rotate_all has collected
    reported,  \* per caller: the events on_rotated has failed for
    crowded    \* history: secrets two calls rotated at the same time, or whose error was reset by one

secret_vars == <<database, current, drawn, errors, turn, events, reported, crowded>>

Idle == [at |-> "idle", secret |-> 1, fresh |-> 0]

SecretTypeOK ==
    /\ database \in [Secrets -> 0..MaxPasswords] /\ current \in [Secrets -> 0..MaxPasswords]
    /\ drawn \in 0..MaxPasswords /\ errors \subseteq Secrets /\ crowded \subseteq Secrets
    /\ turn \in [Callers -> [at : {"idle", "rotate", "answer", "callback"}, secret : Secrets, fresh : 0..MaxPasswords]]
    /\ events \in [Callers -> SUBSET Secrets] /\ reported \in [Callers -> SUBSET Secrets]

SecretInit ==
    /\ database = [s \in Secrets |-> 0] /\ current = database /\ drawn = 0 /\ errors = {}
    /\ turn = [c \in Callers |-> Idle] /\ events = [c \in Callers |-> {}]
    /\ reported = [c \in Callers |-> {}] /\ crowded = {}

Busy == {c \in Callers : turn[c].at # "idle"}
(* The next secret of the loop, or its end. *)
GoOn(c) ==
    turn' = [turn EXCEPT ![c] = IF @.secret + 1 \in Secrets THEN [Idle EXCEPT !.at = "rotate", !.secret = turn[c].secret + 1]
                                ELSE Idle]

(* Plausible slips in the definitions below, used to test the properties. *)
Failed_ends(c) ==
    errors' = errors \cup {turn[c].secret} /\ turn' = [turn EXCEPT ![c] = Idle]
Failed_silently(c) == GoOn(c) /\ UNCHANGED errors

rotate_all(c) ==
    /\ turn[c].at = "idle" /\ drawn < MaxPasswords
    /\ errors' = {} /\ events' = [events EXCEPT ![c] = {}] /\ reported' = [reported EXCEPT ![c] = {}]
    /\ turn' = [turn EXCEPT ![c] = [Idle EXCEPT !.at = "rotate"]]
    /\ crowded' = crowded \cup (IF Busy = {} THEN {} ELSE Secrets)
    /\ UNCHANGED <<database, current, drawn>>

(* except Exception: the secret is noted, the loop goes on. *)
Failed(c) == errors' = errors \cup {turn[c].secret} /\ GoOn(c)

(* ALTER USER is on its way; it may have been carried out when it fails. *)
rotate(c) ==
    /\ turn[c].at = "rotate" /\ drawn < MaxPasswords /\ drawn' = drawn + 1
    /\ LET s == turn[c].secret IN
        \/ /\ database' = [database EXCEPT ![s] = drawn + 1] /\ UNCHANGED errors
           /\ turn' = [turn EXCEPT ![c].at = "answer", ![c].fresh = drawn + 1]
        \/ database' = [database EXCEPT ![s] = drawn + 1] /\ Failed(c)
        \/ UNCHANGED database /\ Failed(c)
    /\ UNCHANGED <<current, events, reported, crowded>>

(* The answer is back: _current is set, the event made, on_rotated called. *)
answered(c) ==
    /\ turn[c].at = "answer"
    /\ current' = [current EXCEPT ![turn[c].secret] = turn[c].fresh]
    /\ events' = [events EXCEPT ![c] = @ \cup {turn[c].secret}]
    /\ turn' = [turn EXCEPT ![c].at = "callback"]
    /\ UNCHANGED <<database, drawn, errors, reported, crowded>>
on_rotated(c) ==
    /\ turn[c].at = "callback"
    /\ \/ GoOn(c) /\ UNCHANGED <<errors, reported>>
       \/ Failed(c) /\ reported' = [reported EXCEPT ![c] = @ \cup {turn[c].secret}]
    /\ UNCHANGED <<database, current, drawn, events, crowded>>

SecretNext == \E c \in Callers : rotate_all(c) \/ rotate(c) \/ answered(c) \/ on_rotated(c)

-----------------------------------------------------------------------------
(* Between calls the password in memory is the one of the database, unless *)
(* rotation_errors names the secret (the ALTER may have been carried out)  *)
(* or two calls have overlapped: then the slower answer wins in memory.    *)
PasswordsMatch ==
    Busy = {} => \A s \in Secrets \ (errors \cup crowded) : current[s] = database[s]

(* A call that returns has dealt with every secret, whichever of them      *)
(* failed: with an event, with an error, or with both if on_rotated        *)
(* raised.  (An overlapping call resets the errors.)                       *)
EverySecretDealtWith ==
    [][\A c \in Callers : turn[c].at # "idle" /\ turn'[c].at = "idle" /\ crowded = {} =>
        /\ events'[c] \cup errors' = Secrets
        /\ events'[c] \cap errors' = reported'[c]]_secret_vars

-----------------------------------------------------------------------------
(* VaultTokenRenewer: a loop that renews the Vault token before it expires.  *)
(* Time is counted in steps of the clock.                                    *)

CONSTANTS
    renew_before, lease,  \* a renewed token has `lease` left
    MaxNow

VARIABLES
    elapsed,
    interval,   \* check_interval; never changes
    renewer,    \* "on" or "stopped"
    ttl, wait,  \* of the token, and until the loop's next check
    misses      \* history: checks in a row that failed

renewal_vars == <<elapsed, interval, renewer, ttl, wait, misses>>

TokenTypeOK ==
    /\ elapsed \in 0..MaxNow /\ interval \in 1..renew_before /\ renewer \in {"on", "stopped"}
    /\ ttl \in 0..lease /\ wait \in 0..interval /\ misses \in 0..(MaxNow + 1)

(* start(), with a token just obtained. *)
TokenInit ==
    /\ elapsed = 0 /\ interval \in 1..renew_before /\ renewer = "on"
    /\ ttl = lease /\ wait = 0 /\ misses = 0

(* Plausible slips in the definitions below, used to test the properties. *)
Due_late == ttl < renew_before \div 2

stop == renewer = "on" /\ renewer' = "stopped" /\ UNCHANGED <<elapsed, interval, ttl, wait, misses>>

(* Time passes; a loop that is due runs first. *)
tick ==
    /\ elapsed < MaxNow /\ elapsed' = elapsed + 1 /\ (renewer = "on" => wait > 0)
    /\ ttl' = IF ttl = 0 THEN 0 ELSE ttl - 1
    /\ wait' = IF renewer = "on" THEN wait - 1 ELSE wait
    /\ UNCHANGED <<interval, renewer, misses>>

(* _renew_loop: lookup_self, and renew_self when little is left.  An error *)
(* (an expired token gives one, too) is logged, and the loop sleeps.       *)
Due == ttl <= renew_before
_renew_loop ==
    /\ renewer = "on" /\ wait = 0 /\ wait' = interval
    /\ \/ ttl > 0 /\ ttl' = (IF Due THEN lease ELSE ttl) /\ misses' = 0
       \/ UNCHANGED ttl /\ misses' = misses + 1
    /\ UNCHANGED <<elapsed, interval, renewer>>

TokenNext == stop \/ tick \/ _renew_loop

-----------------------------------------------------------------------------
(* While the loop runs the token expires only after as many failed checks  *)
(* in a row as fit into renew_before: it starts to renew early enough,     *)
(* whatever its interval is.                                               *)
TokenKeptAlive == renewer = "on" /\ ttl = 0 => misses >= renew_before \div interval

-----------------------------------------------------------------------------
TypeOK == SecretTypeOK /\ TokenTypeOK
=============================================================================
