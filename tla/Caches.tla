------------------------------- MODULE Caches -------------------------------
(* The caches that load on a miss: with a lock per key, and without.        *)
EXTENDS Naturals, Sequences, FiniteSets, SequencesExt, FiniteSetsExt

(* CacheAsidePolicy.get_or_load, resilience/cache/aside.py, for one key:    *)
(* two reads of the cache, the second under the key's asyncio.Lock, then    *)
(* the loader and the cache's set.  The source of the value changes, and    *)
(* the entry is deleted or expires, between any two awaits.                 *)

CONSTANTS Callers, MaxVersion  \* the latter bounds the changes of the source

VARIABLES
    cache,   \* value: the version cached, 0 for a miss; source: the version
             \* the loader reads; lock: the key's lock, its holder first;
             \* raced (history): an update fell between a load and its set
    caller   \* per caller: where it is, what it loaded, what it was given,
             \* and (history) the source's version when it called

aside_vars == <<cache, caller>>

AsideTypeOK ==
    /\ cache \in [value : 0..MaxVersion, source : 1..MaxVersion,
                  lock : Seq(Callers), raced : BOOLEAN]
    /\ caller \in [Callers -> [at : {"start", "read", "lock", "load", "set", "end"},
                               loaded : 0..MaxVersion, given : 0..MaxVersion,
                               known : 0..MaxVersion]]

AsideInit ==
    /\ cache = [value |-> 0, source |-> 1, lock |-> <<>>, raced |-> FALSE]
    /\ caller = [c \in Callers |-> [at |-> "start", loaded |-> 0, given |-> 0, known |-> 0]]

Goto(c, p) == caller' = [caller EXCEPT ![c].at = p]
Return(c, v) == caller' = [caller EXCEPT ![c].at = "end", ![c].given = v]
Released(c) == SelectSeq(cache.lock, LAMBDA d : d # c)
Holds(c) == cache.lock # <<>> /\ Head(cache.lock) = c

call(c) ==
    /\ caller[c].at = "start"
    /\ caller' = [caller EXCEPT ![c].at = "read", ![c].known = cache.source]
    /\ UNCHANGED cache

(* Plausible slips in the definitions below, used to test the properties. *)
recheck_skipped(c) ==
    caller[c].at = "lock" /\ Holds(c) /\ Goto(c, "load") /\ UNCHANGED cache
load_fails_keeping_lock(c) ==
    caller[c].at = "load" /\ Goto(c, "end") /\ UNCHANGED cache
set_after_reading_again(c) ==
    /\ caller[c].at = "set"
    /\ cache' = [cache EXCEPT !.value = IF @ # 0 THEN @ ELSE caller[c].known, !.lock = Released(c)]
    /\ Return(c, cache'.value)

(* The first cache.get: a hit returns, a miss queues for the lock. *)
read(c) ==
    /\ caller[c].at = "read"
    /\ \/ cache.value # 0 /\ Return(c, cache.value) /\ UNCHANGED cache
       \/ /\ cache.value = 0 /\ Goto(c, "lock")
          /\ cache' = [cache EXCEPT !.lock = Append(@, c)]

(* The second cache.get, under the lock. *)
recheck(c) ==
    /\ caller[c].at = "lock" /\ Holds(c)
    /\ \/ /\ cache.value # 0 /\ Return(c, cache.value)
          /\ cache' = [cache EXCEPT !.lock = Released(c)]
       \/ cache.value = 0 /\ Goto(c, "load") /\ UNCHANGED cache

aside_load(c) ==
    /\ caller[c].at = "load"
    /\ caller' = [caller EXCEPT ![c].at = "set", ![c].loaded = cache.source]
    /\ UNCHANGED cache

(* The loader raises, or the caller is cancelled: `async with` lets go. *)
load_fails(c) ==
    /\ caller[c].at = "load" /\ Goto(c, "end")
    /\ cache' = [cache EXCEPT !.lock = Released(c)]

aside_set(c) ==
    /\ caller[c].at = "set" /\ Return(c, caller[c].loaded)
    /\ cache' = [cache EXCEPT !.value = caller[c].loaded, !.lock = Released(c)]

(* The source is updated and its writer deletes the cache entry. *)
UpdateAndDelete ==
    /\ cache.source < MaxVersion
    /\ cache' = [cache EXCEPT !.source = @ + 1, !.value = 0,
                              !.raced = @ \/ \E c \in Callers : caller[c].at = "set"]
    /\ UNCHANGED caller

(* The time to live runs out. *)
Expire == cache.value # 0 /\ cache' = [cache EXCEPT !.value = 0] /\ UNCHANGED caller

get_or_load(c) == read(c) \/ recheck(c) \/ aside_load(c) \/ load_fails(c) \/ aside_set(c)
AsideNext == UpdateAndDelete \/ Expire \/ \E c \in Callers : call(c) \/ get_or_load(c)

-----------------------------------------------------------------------------
(* "Stampede protection: only one coroutine loads per key" at a time, and  *)
(* nobody loads what a load that ended while it waited has put in place.   *)
OneLoader ==
    /\ Cardinality({c \in Callers : caller[c].at \in {"load", "set"}}) <= 1
    /\ \A c \in Callers : caller[c].at = "load" => cache.value = 0

(* No caller is given a value older than the one current when it called,   *)
(* unless an update fell between some load and its set: only then does the *)
(* policy put a value back that the writer had just deleted.               *)
StaleOnlyAfterRace ==
    cache.raced \/ \A c \in Callers : caller[c].given # 0 => caller[c].given >= caller[c].known

(* Every call ends: a loader that raises never leaves the key locked. *)
EveryCallEnds == \A c \in Callers : caller[c].at = "read" ~> caller[c].at = "end"

-----------------------------------------------------------------------------
(* The caches of application/cache that load on a miss without a lock:      *)
(* AsyncLRUCache.get_or_load (lru.py), the @cached decorator and            *)
(* CacheWarmupService over an InMemoryTaggedCacheStore (invalidation.py,    *)
(* tags.py).  The loader is awaited between get and set.                    *)

CONSTANTS
    Keys, Loaders, maxsize,
    Volatile    \* the keys whose origin changes

VARIABLES
    backend,   \* "lru" or "tagged"; never changes
    stored,    \* the entries [key, version], the least recently used first
    tagged,    \* _tags of the one tag in use: the keys it would remove
    origin,    \* per key: the version its loader reads
    loader,    \* per caller: "idle" or what it is loading and has loaded
    outdated,  \* history: the keys updated while being loaded, or warmed without a tag
    recent     \* history: the key of the LRU cache used last, in a set

caches_vars == <<backend, stored, tagged, origin, loader, outdated, recent>>

Idle == [at |-> "idle", key |-> CHOOSE k \in Keys : TRUE, version |-> 0, tags |-> TRUE]
Cached == {stored[i].key : i \in DOMAIN stored}
Version(k) == LET i == CHOOSE i \in DOMAIN stored : stored[i].key = k IN stored[i].version
Drop(k) == SelectSeq(stored, LAMBDA e : e.key # k)
Use(k) == recent' = {u \in {k} : backend = "lru"}

LoadingTypeOK ==
    /\ backend \in {"lru", "tagged"}
    /\ stored \in Seq([key : Keys, version : 1..MaxVersion])
    /\ tagged \subseteq Keys /\ outdated \subseteq Keys
    /\ origin \in [Keys -> 1..MaxVersion]
    /\ loader \in [Loaders -> [at : {"idle", "load", "set"}, key : Keys, version : 0..MaxVersion, tags : BOOLEAN]]
    /\ recent \subseteq Keys

LoadingInit ==
    /\ backend \in {"lru", "tagged"}
    /\ stored = <<>> /\ tagged = {} /\ outdated = {} /\ recent = {}
    /\ origin = [k \in Keys |-> 1]
    /\ loader = [l \in Loaders |-> Idle]

(* Plausible slips in the definitions below, used to test the properties. *)
Touched_in_place(k) == stored
Stored_unbounded(k, v) == Append(Drop(k), [key |-> k, version |-> v])
Invalidated_if_tagged(k) ==
    IF backend = "lru" THEN Drop(k) ELSE SelectSeq(stored, LAMBDA e : e.key \notin tagged \ {k})

(* move_to_end on a hit. *)
Touched(k) ==
    IF backend = "lru" THEN Append(Drop(k), [key |-> k, version |-> Version(k)]) ELSE stored

(* set: an LRU cache over its size drops its first entry. *)
Stored(k, v) ==
    LET s == Append(Drop(k), [key |-> k, version |-> v])
    IN  IF backend = "lru" /\ Len(s) > maxsize THEN Tail(s) ELSE s

(* delete(key) of the LRU cache, invalidate_tag of the tagged store. *)
Invalidated(k) ==
    IF backend = "lru" THEN Drop(k) ELSE SelectSeq(stored, LAMBDA e : e.key \notin tagged)

get(l, k) ==
    /\ loader[l].at = "idle"
    /\ IF k \in Cached
       THEN stored' = Touched(k) /\ Use(k) /\ UNCHANGED loader
       ELSE /\ loader' = [loader EXCEPT ![l] = [at |-> "load", key |-> k, version |-> 0, tags |-> TRUE]]
            /\ UNCHANGED <<stored, recent>>
    /\ UNCHANGED <<backend, tagged, origin, outdated>>

(* The loader has read the origin; its result is still on the way. *)
load(l) ==
    /\ loader[l].at = "load"
    /\ loader' = [loader EXCEPT ![l].at = "set", ![l].version = origin[loader[l].key]]
    /\ UNCHANGED <<backend, stored, tagged, origin, outdated, recent>>

set(l) ==
    /\ loader[l].at = "set"
    /\ stored' = Stored(loader[l].key, loader[l].version)
    /\ tagged' = tagged \cup {k \in {loader[l].key} : backend = "tagged" /\ loader[l].tags}
    /\ outdated' = outdated \cup {k \in {loader[l].key} \ tagged : ~loader[l].tags}
    /\ Use(loader[l].key)
    /\ loader' = [loader EXCEPT ![l] = Idle]
    /\ UNCHANGED <<backend, origin>>

(* CacheWarmupService.warm loads unconditionally and sets without tags. *)
warm(l, k) ==
    /\ backend = "tagged" /\ loader[l].at = "idle"
    /\ loader' = [loader EXCEPT ![l] = [at |-> "load", key |-> k, version |-> 0, tags |-> FALSE]]
    /\ UNCHANGED <<backend, stored, tagged, origin, outdated, recent>>

(* The origin of k changes and the writer invalidates. *)
update(k) ==
    /\ origin[k] < MaxVersion
    /\ origin' = [origin EXCEPT ![k] = @ + 1]
    /\ stored' = Invalidated(k)
    /\ tagged' = {}
    /\ outdated' = outdated \cup (IF \E l \in Loaders : loader[l].at = "set" /\ loader[l].key = k
                                  THEN {k} ELSE {})
    /\ UNCHANGED <<backend, loader, recent>>

clear ==
    /\ backend = "lru" /\ stored' = <<>>
    /\ UNCHANGED <<backend, tagged, origin, loader, outdated, recent>>

(* An entry is past its time to live when somebody looks: it is deleted. *)
expire(k) ==
    /\ backend = "lru" /\ k \in Cached
    /\ stored' = Drop(k)
    /\ UNCHANGED <<backend, tagged, origin, loader, outdated, recent>>

LoadingNext ==
    \/ \E l \in Loaders : load(l) \/ set(l) \/ \E k \in Keys : get(l, k) \/ warm(l, k)
    \/ clear
    \/ \E k \in Volatile : update(k)
    \/ \E k \in Keys : expire(k)

-----------------------------------------------------------------------------
(* A cached value is current, unless its origin changed while somebody was *)
(* loading that very key, or the warm-up stored it without the tag the     *)
(* writers invalidate: no other invalidation misses an entry.              *)
StaleOnlyIfOutdated ==
    \A k \in Cached \ outdated : Version(k) = origin[k]

(* The LRU cache holds at most maxsize entries, and the key used last is   *)
(* never the one evicted to make room for another.                         *)
KeepsMostRecent ==
    [][backend = "lru" =>
          /\ Len(stored') <= maxsize
          /\ Len(stored) = maxsize /\ Len(stored') = maxsize => recent \cap Cached \subseteq Cached']_caches_vars

-----------------------------------------------------------------------------
TypeOK == AsideTypeOK /\ LoadingTypeOK
=============================================================================
