--------------------------- MODULE Configuration ----------------------------
(* Settings that change under a running program.                            *)
EXTENDS Naturals, FiniteSets

(* Configuration that changes under a running program: FileConfigSource and  *)
(* ConsulConfigSource with their watchers, and DynamicConfigRegistry with    *)
(* its cache.  Contents are versions.                                        *)

CONSTANTS
    Getters, None,
    ttl, MaxNow, MaxVersion

VARIABLES
    source,     \* "file" or "consul"; never changes
    clock,
    content,    \* version of what is stored
    stamp,      \* its mtime or Consul index
    cache,      \* [value, end] of the key in the registry, or None
    loading,    \* per getter: [value, stale], a load() under way, or None
    seen,       \* the watcher: _last_mtime or _consul_index
    told,       \* the version its callback was last given
    watching,   \* "on", "load" (between the stamp and the load) or "off" (it has raised)
    floor,      \* history: the version at the last invalidate()
    tainted,    \* history: the cached value was loaded across an invalidate()
    missed      \* history: a load of the watcher failed, or two writes shared a stamp

config_vars == <<source, clock, content, stamp, cache, loading, seen, told, watching, floor, tainted, missed>>

Versions == 0..MaxVersion
Stamps == 0..(MaxNow + MaxVersion)

ConfigTypeOK ==
    /\ source \in {"file", "consul"} /\ clock \in 0..MaxNow /\ content \in Versions /\ stamp \in Stamps
    /\ cache \in [value : Versions, end : 0..(MaxNow + ttl)] \cup {None}
    /\ loading \in [Getters -> [value : Versions, stale : BOOLEAN] \cup {None}]
    /\ seen \in Stamps /\ told \in Versions /\ watching \in {"on", "load", "off"}
    /\ floor \in Versions /\ tainted \in BOOLEAN /\ missed \in BOOLEAN

ConfigInit ==
    /\ source \in {"file", "consul"} /\ clock = 0 /\ content = 1 /\ stamp = 1 /\ cache = None
    /\ loading = [g \in Getters |-> None] /\ seen = 0 /\ told = 0 /\ watching = "on"
    /\ floor = 0 /\ tainted = FALSE /\ missed = FALSE

reg_vars == <<cache, loading, floor, tainted>>
watch_vars == <<seen, told, watching, missed>>

tick == clock < MaxNow /\ clock' = clock + 1 /\ UNCHANGED <<source, content, stamp, reg_vars, watch_vars>>

(* Somebody writes: a file gets the time as its mtime, Consul counts. *)
write ==
    /\ content < MaxVersion /\ content' = content + 1
    /\ stamp' = IF source = "file" THEN clock + 1 ELSE stamp + 1
    /\ missed' = (missed \/ stamp' = stamp)
    /\ UNCHANGED <<source, clock, reg_vars, seen, told, watching>>

(* Plausible slips in the definitions below, used to test the properties. *)
invalidate_keeping ==
    /\ cache # None /\ floor' = content
    /\ UNCHANGED <<source, clock, content, stamp, cache, loading, tainted, watch_vars>>
load_swallowing ==
    /\ watching = "load" /\ watching' = "on" /\ (told' = content \/ told' = told)
    /\ UNCHANGED <<source, clock, content, stamp, reg_vars, seen, missed>>

(* DynamicConfigRegistry.get: the cached value while it is fresh, else the *)
(* source is loaded; Consul answers later, a file at once.                 *)
Fresh == IF cache = None THEN FALSE ELSE clock < cache.end
get(g) ==
    /\ loading[g] = None /\ ~Fresh
    /\ IF source = "file"
       THEN cache' = [value |-> content, end |-> clock + ttl] /\ tainted' = FALSE /\ UNCHANGED loading
       ELSE loading' = [loading EXCEPT ![g] = [value |-> content, stale |-> FALSE]] /\ UNCHANGED <<cache, tainted>>
    /\ UNCHANGED <<source, clock, content, stamp, floor, watch_vars>>
loaded(g) ==
    /\ loading[g] # None /\ loading' = [loading EXCEPT ![g] = None]
    /\ \/ cache' = [value |-> loading[g].value, end |-> clock + ttl] /\ tainted' = loading[g].stale
       \/ UNCHANGED <<cache, tainted>>   \* load() has raised
    /\ UNCHANGED <<source, clock, content, stamp, floor, watch_vars>>

invalidate ==
    /\ cache # None /\ cache' = None /\ floor' = content /\ tainted' = FALSE
    /\ loading' = [g \in Getters |-> IF loading[g] = None THEN None ELSE [loading[g] EXCEPT !.stale = TRUE]]
    /\ UNCHANGED <<source, clock, content, stamp, watch_vars>>

(* watch(): the new stamp is kept first, then load() and the callback; an  *)
(* exception of either ends the watch.  watch() may be called again.       *)
poll ==
    /\ watching = "on" /\ seen # stamp /\ seen' = stamp /\ watching' = "load"
    /\ UNCHANGED <<source, clock, content, stamp, reg_vars, told, missed>>
load ==
    /\ watching = "load"
    /\ \/ told' = content /\ watching' = "on" /\ UNCHANGED missed
       \/ watching' = "off" /\ missed' = TRUE /\ UNCHANGED told
    /\ UNCHANGED <<source, clock, content, stamp, reg_vars, seen>>
watch ==
    /\ watching = "off" /\ watching' = "on"
    /\ UNCHANGED <<source, clock, content, stamp, reg_vars, seen, told, missed>>

ConfigNext == tick \/ write \/ invalidate \/ poll \/ load \/ watch \/ \E g \in Getters : get(g) \/ loaded(g)

-----------------------------------------------------------------------------
(* After invalidate() no older value is served than was stored then,       *)
(* unless it was being loaded at that moment: such a load puts it back     *)
(* into the cache.                                                         *)
InvalidatedIsGone == cache # None /\ cache.value < floor => tainted

(* A watcher that has nothing to do has told its callback the current      *)
(* content, unless one of its loads failed (the stamp is kept before the   *)
(* load) or two writes fell into one mtime.                                *)
ToldTheLatest == watching = "on" /\ seen = stamp /\ ~missed => told = content

-----------------------------------------------------------------------------
(* FeatureFlagClient over FlatFileProvider: a boolean flag with targeting    *)
(* rules and a rollout percentage, in a file that is read on the first use   *)
(* and by reload(), and that operators edit, or break, at any time.          *)

CONSTANTS
    Users,
    Targeted,  \* per user: the value of the rule for it, None if there is none
    Buckets    \* stands for the 100 percent

VARIABLES
    yaml,     \* what the file says: [pct, enabled], or None if it cannot be read
    flags,    \* FlatFileProvider._flags: as yaml, or None while not _loaded
    answers,  \* history: per user its last answer [said, pct], or None
    flags_loaded    \* history: the file has been read at some time

flag_vars == <<yaml, flags, answers, flags_loaded>>

Percentages == 0..Buckets \cup {None}
Definitions == [pct : Percentages, enabled : BOOLEAN]
Said == {"on", "off", "default"}

FlagTypeOK ==
    /\ yaml \in Definitions \cup {None} /\ flags \in Definitions \cup {None} /\ flags_loaded \in BOOLEAN
    /\ answers \in [Users -> [said : Said, pct : Percentages] \cup {None}]

FlagInit ==
    /\ yaml \in Definitions \cup {None} /\ flags = None
    /\ answers = [u \in Users |-> None] /\ flags_loaded = FALSE

(* A number from the hash of flag and user. *)
_percentage_bucket(u) == u % Buckets

(* Plausible slips in the definitions below, used to test the properties. *)
In_rollout_at_most(u, pct) == _percentage_bucket(u) <= pct
reload_first ==
    /\ flags' = yaml /\ flags_loaded' = (flags_loaded \/ yaml # None) /\ UNCHANGED <<yaml, answers>>

In_rollout(u, pct) == _percentage_bucket(u) < pct
(* The rule for the user, then the percentage, then `enabled`. *)
_evaluate_boolean(def, u) ==
    IF Targeted[u] # None THEN Targeted[u]
    ELSE IF def.pct # None THEN In_rollout(u, def.pct) ELSE def.enabled

Answer(u, said, pct) == answers' = [answers EXCEPT ![u] = [said |-> said, pct |-> pct]]

(* is_enabled: the file is read if it has not been; an exception gives the *)
(* default.                                                                *)
is_enabled(u) ==
    LET def == IF flags = None THEN yaml ELSE flags IN
    /\ flags' = def /\ flags_loaded' = (flags_loaded \/ def # None) /\ UNCHANGED yaml
    /\ IF def = None THEN Answer(u, "default", None)
       ELSE Answer(u, IF _evaluate_boolean(def, u) THEN "on" ELSE "off", def.pct)

(* reload(): an exception leaves the flags as they were. *)
reload ==
    /\ yaml # None /\ flags' = yaml /\ flags_loaded' = TRUE /\ UNCHANGED <<yaml, answers>>

edit(def) == def # yaml /\ yaml' = def /\ UNCHANGED <<flags, answers, flags_loaded>>

FlagNext == reload \/ (\E u \in Users : is_enabled(u)) \/ \E def \in Definitions \cup {None} : edit(def)

-----------------------------------------------------------------------------
(* A rollout only grows: who has once had the flag at some percentage has  *)
(* it at every higher one, after any reloads in between; 0 is nobody, all  *)
(* buckets are everybody, but for the users with a rule.                   *)
RolloutOnlyGrows ==
    flags # None => (flags.pct # None => \A u \in Users :
        /\ answers[u] # None => (answers[u].said = "on" /\ answers[u].pct # None =>
            (flags.pct >= answers[u].pct => _evaluate_boolean(flags, u)))
        /\ Targeted[u] = None =>
            (flags.pct = 0 => ~_evaluate_boolean(flags, u)) /\ (flags.pct = Buckets => _evaluate_boolean(flags, u)))

(* Once the file has been read, breaking it no longer changes an answer:   *)
(* the default is given only before.                                       *)
NoDefaultOnceLoaded ==
    [][flags_loaded => \A u \in Users : answers'[u] # answers[u] => answers'[u].said # "default"]_flag_vars

-----------------------------------------------------------------------------
TypeOK == ConfigTypeOK /\ FlagTypeOK
=============================================================================
