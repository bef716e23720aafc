------------------------------ MODULE RedisLock ------------------------------
(* RedisLock, adapters/redis/lock.py: SET NX PX to acquire, a Lua script    *)
(* that compares the token to release.  One lock object per client.         *)
EXTENDS Naturals, FiniteSets

CONSTANTS Clients, ttl_ms  \* the latter in ticks

ASSUME LockAssumption == "nobody" \notin Clients /\ ttl_ms \in Nat

VARIABLES
    key,     \* the Redis key: owner, the client whose token it holds, or
             \* "nobody", and ticks left
    client   \* per client: "out", "in" its critical section, or "late" when
             \* the key ran out there; _token is the key's only while "in"

lock_vars == <<key, client>>

LockTypeOK ==
    /\ key \in [owner : Clients \cup {"nobody"}, left : 0..ttl_ms]
    /\ client \in [Clients -> {"out", "in", "late"}]

Free == [owner |-> "nobody", left |-> 0]
LockInit == key = Free /\ client = [c \in Clients |-> "out"]

(* Plausible slips in the definitions below, used to test the properties. *)
lock_release_unchecked(c) ==
    /\ client[c] \in {"in", "late"}
    /\ key' = Free
    /\ client' = [client EXCEPT ![c] = "out"]
lock_acquire_without_ttl(c) ==
    /\ client[c] = "out" /\ key = Free
    /\ key' = [owner |-> c, left |-> 0]
    /\ client' = [client EXCEPT ![c] = "in"]
lock_acquire_without_nx(c) ==
    /\ client[c] = "out"
    /\ key' = [owner |-> c, left |-> ttl_ms]
    /\ client' = [client EXCEPT ![c] = "in"]

(* A taken key makes acquire() return False, and __aenter__ raise. *)
lock_acquire(c) ==
    /\ client[c] = "out" /\ key = Free
    /\ key' = [owner |-> c, left |-> ttl_ms]
    /\ client' = [client EXCEPT ![c] = "in"]

(* The reply to SET is lost: the key is taken and nobody has its token. *)
lock_acquire_lost(c) ==
    /\ client[c] = "out" /\ key = Free
    /\ key' = [owner |-> c, left |-> ttl_ms]
    /\ UNCHANGED client

(* __aexit__ calls it on every way out of the block. *)
lock_release(c) ==
    /\ client[c] \in {"in", "late"}
    /\ key' = IF key.owner = c /\ client[c] = "in" THEN Free ELSE key
    /\ client' = [client EXCEPT ![c] = "out"]

(* The process dies in the block, or the EVAL fails: the key stays. *)
leave(c) == client[c] \in {"in", "late"} /\ client' = [client EXCEPT ![c] = "out"] /\ UNCHANGED key

LockTick ==
    /\ key.left > 0
    /\ key' = IF key.left = 1 THEN Free ELSE [key EXCEPT !.left = @ - 1]
    /\ client' = [c \in Clients |->
          IF key.left = 1 /\ key.owner = c /\ client[c] = "in" THEN "late" ELSE client[c]]

LockNext == LockTick \/ \E c \in Clients : lock_acquire(c) \/ lock_acquire_lost(c) \/ lock_release(c) \/ leave(c)
LockSpec == LockInit /\ [][LockNext]_lock_vars

-----------------------------------------------------------------------------
(* At most one client is in its critical section with time left, whatever  *)
(* late holders still do: those are the ones that outlived ttl_ms.  And    *)
(* the key is that client's: no release took it away, not even one of a    *)
(* late client whose key expired and was acquired by somebody else.        *)
OneHolder ==
    /\ Cardinality({c \in Clients : client[c] = "in"}) <= 1
    /\ \A c \in Clients : client[c] = "in" => key.owner = c

(* A holder that crashed, or whose reply was lost, does not keep the lock. *)
LockComesFree == []<>(key = Free)
=============================================================================
