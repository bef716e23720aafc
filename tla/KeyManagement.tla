--------------------------- MODULE KeyManagement ----------------------------
(* Keys that change while they are in use: of encrypted columns, of tokens,  *)
(* and of API clients.                                                      *)
EXTENDS Naturals, Sequences, SequencesExt, FiniteSets

(* KeyRotationService.rotate_column over FernetEncryptionProvider, while     *)
(* the application goes on writing.  A provider is its sequence of keys: it  *)
(* encrypts with the first and decrypts with any of them.                    *)

CONSTANTS
    Rows, None,
    MaxEdits   \* per row

VARIABLES
    stage,      \* the application's provider is Providers[stage]
    column,     \* per row: [key, edit], the ciphertext, or None (an empty field)
    selected,   \* rotate_column: the rows as it has read them, or None
    chosen,     \* the [old, new] providers it was called with
    rotated,    \* history: the rows of a rotation in stage 2 that ended
    written,    \* history: the last edit of each row, 0 if none
    overlapped  \* history: rows written between a rotation's read and its write

rotation_vars == <<stage, column, selected, chosen, rotated, written, overlapped>>

(* Before the rotation, during it, and after it. *)
Providers == <<<<1>>, <<2, 1>>, <<2>>>>
Ciphertexts == [key : {1, 2}, edit : 1..MaxEdits]
Columns == [Rows -> Ciphertexts \cup {None}]
Calls == [old : {<<1>>, <<2, 1>>}, new : {<<2>>, <<2, 1>>}]

ColumnTypeOK ==
    /\ stage \in DOMAIN Providers /\ column \in Columns /\ selected \in Columns \cup {None}
    /\ chosen \in Calls \cup {None} /\ rotated \in BOOLEAN
    /\ written \in [Rows -> 0..MaxEdits] /\ overlapped \subseteq Rows

ColumnInit ==
    /\ stage = 1 /\ column = [r \in Rows |-> None] /\ selected = None /\ chosen = None
    /\ rotated = FALSE /\ written = [r \in Rows |-> 0] /\ overlapped = {}

(* Plausible slips in the definitions below, used to test the properties. *)
encrypt_with_last(keys, edit) == [key |-> Last(keys), edit |-> edit]
flush_skipping ==
    /\ selected # None /\ selected' = None /\ chosen' = None
    /\ column' = [r \in Rows |-> IF selected[r] = None \/ selected[r].key \notin ToSet(chosen.old) THEN None
                                 ELSE [key |-> Head(chosen.new), edit |-> selected[r].edit]]
    /\ rotated' = (rotated \/ stage = 2) /\ UNCHANGED <<stage, written, overlapped>>

encrypt(keys, edit) == [key |-> Head(keys), edit |-> edit]
decrypts(keys, c) == c.key \in ToSet(keys)

write(r) ==
    /\ written[r] < MaxEdits
    /\ column' = [column EXCEPT ![r] = encrypt(Providers[stage], written[r] + 1)]
    /\ written' = [written EXCEPT ![r] = @ + 1]
    /\ overlapped' = IF selected = None THEN overlapped \ {r} ELSE overlapped \cup {r}
    /\ UNCHANGED <<stage, selected, chosen, rotated>>

(* The select: every row is read. *)
rotate_column(call) ==
    /\ selected = None /\ selected' = column /\ chosen' = call
    /\ UNCHANGED <<stage, column, rotated, written, overlapped>>

(* InvalidToken for a ciphertext none of the old keys made. *)
Readable(call) == \A r \in Rows : selected[r] # None => decrypts(call.old, selected[r])
re_encrypt(call, c) == encrypt(call.new, c.edit)
Rotated(call) == [r \in Rows |-> IF selected[r] = None THEN None ELSE re_encrypt(call, selected[r])]

(* The loop and the flush: all rows that had a value are written back, or  *)
(* the first unreadable one raises and none is.                            *)
flush ==
    /\ selected # None /\ selected' = None /\ chosen' = None
    /\ IF Readable(chosen)
       THEN /\ column' = [r \in Rows |-> IF selected[r] = None THEN column[r] ELSE Rotated(chosen)[r]]
            /\ rotated' = (rotated \/ stage = 2)
       ELSE UNCHANGED <<column, rotated>>
    /\ UNCHANGED <<stage, written, overlapped>>

(* The application is deployed with the new key in front, and later, after *)
(* a rotation, with nothing else.                                          *)
deploy ==
    /\ stage < 3 /\ selected = None /\ (stage = 2 => rotated) /\ stage' = stage + 1
    /\ UNCHANGED <<column, selected, chosen, rotated, written, overlapped>>

ColumnNext == flush \/ deploy \/ (\E r \in Rows : write(r)) \/ (\E call \in Calls : rotate_column(call))

-----------------------------------------------------------------------------
(* The application can read every row at every moment, the old key being   *)
(* dropped only after a rotation of its own stage; in the stage between,   *)
(* rows of either key may be there.                                        *)
AlwaysReadable ==
    stage > 1 => \A r \in Rows : column[r] # None => decrypts(Providers[stage], column[r])

(* A rotation changes keys and nothing else: the last edit of a row is     *)
(* still in it, unless it was made between the select and the flush.       *)
EditsSurvive ==
    \A r \in Rows \ overlapped : written[r] > 0 => column[r] # None /\ column[r].edit = written[r]

(* A rotation that raises has changed nothing, and one that returns has    *)
(* left no row under the old key but those written in the meantime.        *)
AllOrNothing ==
    [][selected # None /\ selected' = None =>
        \/ column' = column
        \/ \A r \in Rows \ overlapped : column'[r] # None => column'[r].key = 2 /\ column'[r].edit = column[r].edit]_rotation_vars

-----------------------------------------------------------------------------
(* JWKSClient and OIDCTokenVerifier while the realm rotates its signing      *)
(* keys, and what JwtDecoder and JwtClaims make of an expiry.                *)

CONSTANTS
    Keys,          \* 1..n: the signing keys of the realm, one after the other
    Verifiers,
    cache_ttl, MaxNow,
    MaxClients     \* invalidate() calls, each followed by a new client

VARIABLES
    clock,
    active,     \* the key the realm signs with; it serves only this one
    retired,    \* history: per key the time it was retired, None before
    client,     \* JWKSClient._client, counted from 0
    jwks,       \* per client: PyJWKClient's cached [keys, end], or None
    asked,      \* per verifier: [kid, client], or None
    verdict     \* per verifier: the outcome of its last verify(), or None

signing_vars == <<clock, active, retired, client, jwks, asked, verdict>>

Clients == 0..MaxClients
Caches == [keys : SUBSET Keys, end : 0..(MaxNow + cache_ttl)] \cup {None}
Times == 0..MaxNow

SigningTypeOK ==
    /\ clock \in Times /\ active \in Keys /\ retired \in [Keys -> Times \cup {None}]
    /\ client \in Clients /\ jwks \in [Clients -> Caches]
    /\ asked \in [Verifiers -> [kid : Keys, client : Clients] \cup {None}]
    /\ verdict \in [Verifiers -> [kid : Keys, ok : BOOLEAN, reached : BOOLEAN, current : BOOLEAN] \cup {None}]

SigningInit ==
    /\ clock = 0 /\ active = 1 /\ retired = [k \in Keys |-> None]
    /\ client = 0 /\ jwks = [c \in Clients |-> None]
    /\ asked = [v \in Verifiers |-> None] /\ verdict = [v \in Verifiers |-> None]

tick ==
    /\ clock < MaxNow /\ clock' = clock + 1
    /\ UNCHANGED <<active, retired, client, jwks, asked, verdict>>

(* The realm gets a new key and retires the old one. *)
rotate ==
    /\ active + 1 \in Keys /\ active' = active + 1 /\ retired' = [retired EXCEPT ![active] = clock]
    /\ UNCHANGED <<clock, client, jwks, asked, verdict>>

(* Plausible slips in the definitions below, used to test the properties. *)
Fresh_for_ever(c) == jwks[c] # None
Has_any(c, kid) == Fresh_for_ever(c)
is_expired_later(exp, at) == clock > (IF exp = None THEN at ELSE exp)

(* invalidate() drops the client; the next verify() makes another one. *)
invalidate ==
    /\ client < MaxClients /\ jwks[client] # None /\ client' = client + 1
    /\ UNCHANGED <<clock, active, retired, jwks, asked, verdict>>

(* verify() hands the client of the moment to a thread and waits. *)
verify(v, kid) ==
    /\ asked[v] = None /\ kid <= active
    /\ asked' = [asked EXCEPT ![v] = [kid |-> kid, client |-> client]]
    /\ UNCHANGED <<clock, active, retired, client, jwks, verdict>>

(* get_signing_key_from_jwt: the cached set while it is fresh, a fetch if  *)
(* it is not, or if it does not have the key.                              *)
Fresh(c) == IF jwks[c] = None THEN FALSE ELSE clock < jwks[c].end
Has(c, kid) == IF Fresh(c) THEN kid \in jwks[c].keys ELSE FALSE

(* The thread answers, and decode() follows.  A fetch may fail; whatever   *)
(* goes wrong is UnauthorizedError.                                        *)
get_signing_key(v) ==
    /\ asked[v] # None /\ asked' = [asked EXCEPT ![v] = None]
    /\ LET c == asked[v].client
           kid == asked[v].kid
           Verdict(ok, reached) ==
               verdict' = [verdict EXCEPT ![v] = [kid |-> kid, ok |-> ok, reached |-> reached, current |-> kid = active]]
       IN IF Has(c, kid) THEN Verdict(kid \in jwks[c].keys, TRUE) /\ UNCHANGED jwks
          ELSE \/ /\ Verdict(kid = active, TRUE)
                  /\ jwks' = [jwks EXCEPT ![c] = [keys |-> {active}, end |-> clock + cache_ttl]]
               \/ Verdict(FALSE, FALSE) /\ UNCHANGED jwks
    /\ UNCHANGED <<clock, active, retired, client>>

SigningNext ==
    \/ tick \/ rotate \/ invalidate
    \/ \E v \in Verifiers : get_signing_key(v) \/ \E kid \in Keys : verify(v, kid)

(* JwtDecoder.decode and JwtClaims.is_expired; a token without exp passes, *)
(* and its claims say that it expires at the moment it is decoded.         *)
decode(exp) == IF exp = None THEN TRUE ELSE clock < exp
is_expired(exp, at) == clock >= (IF exp = None THEN at ELSE exp)

-----------------------------------------------------------------------------
(* A token of a retired key is accepted for less than cache_ttl after the  *)
(* key was retired, also by a verify() that began before an invalidate().  *)
RetiredOnlyWhileCached ==
    [][\A v \in Verifiers : asked[v] # None /\ asked'[v] = None /\ verdict'[v].ok /\ verdict'[v].kid # active =>
        clock < retired[verdict'[v].kid] + cache_ttl]_signing_vars

(* A token of the key in use is refused only if the keys could not be      *)
(* fetched: a key the cache does not know is looked up at once.            *)
CurrentKeyAccepted ==
    \A v \in Verifiers : verdict[v] # None => (verdict[v].current /\ verdict[v].reached => verdict[v].ok)

(* Claims that have just been decoded are not expired, if the token says   *)
(* when it expires; without an exp they are expired from the start; and a  *)
(* token that would not be decoded now has expired claims.                 *)
DecodedIsFresh ==
    \A exp \in Times \cup {None} : is_expired(exp, clock) <=> (exp = None \/ ~decode(exp))

-----------------------------------------------------------------------------
(* API keys: ApiKeyGenerator, InMemoryApiKeyStore, ApiKeyVerifier and        *)
(* ApiKeyHashUpgrade, which replaces bcrypt hashes by argon2 as keys are     *)
(* used.  A hash is modelled by its algorithm, its cost and the raw key.  The *)
(* store in memory never yields, so each call is one step.                   *)

CONSTANTS
    RawKeys,   \* 1.. ; the prefix that is the key_id is key_id(raw)
    MaxCost

VARIABLES
    argon2,   \* is argon2-cffi installed; never changes
    cost,     \* the cost ApiKeyHashUpgrade is configured with
    keys,     \* InMemoryApiKeyStore._store: per key_id an ApiKey or None
    now,
    issued,   \* history: per key_id the raw key handed out and its end, or None
    revoked   \* history: key_ids that were revoked

credential_vars == <<argon2, cost, keys, now, issued, revoked>>

key_id(raw) == raw % 2
KeyIds == {key_id(raw) : raw \in RawKeys}
Ends == Times \cup {None}
Hashes == [alg : {"bcrypt", "argon2"}, cost : 0..MaxCost, of : RawKeys]
ApiKeys == [key_hash : Hashes, expires_at : Ends, revoked : BOOLEAN]

ApiKeyTypeOK ==
    /\ argon2 \in BOOLEAN /\ cost \in 1..MaxCost /\ now \in Times
    /\ keys \in [KeyIds -> ApiKeys \cup {None}]
    /\ issued \in [KeyIds -> [raw : RawKeys, end : Ends] \cup {None}] /\ revoked \subseteq KeyIds

ApiKeyInit ==
    /\ argon2 \in BOOLEAN /\ cost = 1 /\ now = 0
    /\ keys = [i \in KeyIds |-> None] /\ issued = [i \in KeyIds |-> None] /\ revoked = {}

Ended(end) == IF end = None THEN FALSE ELSE now >= end
is_valid(record) == ~record.revoked /\ ~Ended(record.expires_at)

(* Plausible slips in the definitions below, used to test the properties. *)
Upgraded_without_expiry(record, raw) ==
    [key_hash |-> [alg |-> "argon2", cost |-> cost, of |-> raw], expires_at |-> None, revoked |-> record.revoked]
Hashed_argon2(raw) == [alg |-> IF argon2 THEN "argon2" ELSE "bcrypt", cost |-> 0, of |-> raw]

Hashed(raw) == [alg |-> "bcrypt", cost |-> 0, of |-> raw]
Matches(hash, raw) == hash.of = raw

(* generate and save; a key_id in use is not drawn again. *)
generate(raw, end) ==
    /\ keys[key_id(raw)] = None
    /\ keys' = [keys EXCEPT ![key_id(raw)] = [key_hash |-> Hashed(raw), expires_at |-> end, revoked |-> FALSE]]
    /\ issued' = [issued EXCEPT ![key_id(raw)] = [raw |-> raw, end |-> end]]
    /\ UNCHANGED <<argon2, cost, now, revoked>>

revoke(i) ==
    /\ keys[i] # None /\ keys' = [keys EXCEPT ![i].revoked = TRUE]
    /\ revoked' = revoked \cup {i} /\ UNCHANGED <<argon2, cost, now, issued>>

(* The record that replaces the old one: the fields are copied one by one. *)
Upgraded(record, raw) ==
    [key_hash |-> [alg |-> "argon2", cost |-> cost, of |-> raw],
     expires_at |-> record.expires_at, revoked |-> record.revoked]

(* Is the raw key taken by verify_and_upgrade?  Without the library an     *)
(* argon2 hash is never right.                                             *)
Accepts(raw) ==
    LET record == keys[key_id(raw)] IN
    /\ record # None
    /\ is_valid(record) /\ Matches(record.key_hash, raw)
    /\ record.key_hash.alg = "argon2" => argon2

(* The hash is replaced if it is bcrypt, or of another cost; a failure to  *)
(* make one (no library) is only logged.                                   *)
verify_and_upgrade(raw) ==
    /\ Accepts(raw) /\ argon2
    /\ LET record == keys[key_id(raw)] IN
        /\ record.key_hash.alg = "bcrypt" \/ record.key_hash.cost # cost
        /\ keys' = [keys EXCEPT ![key_id(raw)] = Upgraded(record, raw)]
    /\ UNCHANGED <<argon2, cost, now, issued, revoked>>

(* ApiKeyVerifier.verify_key: bcrypt refuses to read any other hash. *)
verify_key(raw) ==
    LET record == keys[key_id(raw)] IN
    IF record = None THEN "None"
    ELSE IF ~is_valid(record) THEN "None"
    ELSE IF record.key_hash.alg # "bcrypt" THEN "raises"
    ELSE IF Matches(record.key_hash, raw) THEN "record" ELSE "None"

later == now < MaxNow /\ now' = now + 1 /\ UNCHANGED <<argon2, cost, keys, issued, revoked>>
reconfigure == cost < MaxCost /\ cost' = cost + 1 /\ UNCHANGED <<argon2, keys, now, issued, revoked>>

ApiKeyNext ==
    \/ later \/ reconfigure \/ \E i \in KeyIds : revoke(i)
    \/ \E raw \in RawKeys : verify_and_upgrade(raw) \/ \E end \in Ends : generate(raw, end)

-----------------------------------------------------------------------------
(* However often its hash is replaced, a key is accepted exactly from its  *)
(* issue to its end or its revocation, and no other key is.                *)
AcceptedExactlyWhileValid ==
    \A raw \in RawKeys : LET i == key_id(raw) IN
        Accepts(raw) <=> /\ issued[i] # None
                         /\ issued[i].raw = raw /\ ~Ended(issued[i].end) /\ i \notin revoked

(* The two verifiers agree on every key that has not been upgraded; on one *)
(* that has, the plain one raises and never lets a wrong key in.           *)
VerifiersAgreeUntilUpgrade ==
    \A raw \in RawKeys :
        /\ verify_key(raw) = "record" => Accepts(raw)
        /\ Accepts(raw) /\ verify_key(raw) # "record" =>
            verify_key(raw) = "raises" /\ keys[key_id(raw)].key_hash.cost > 0

-----------------------------------------------------------------------------
TypeOK == ColumnTypeOK /\ SigningTypeOK /\ ApiKeyTypeOK
=============================================================================
