-------------------------------- MODULE Inbox --------------------------------
(***************************************************************************)
(* InboxProcessor.process of application/inbox/processor.py, run by        *)
(* several consumers over one InboxStore.  Every store call and the        *)
(* dispatch are awaits, so the calls of two deliveries interleave at each  *)
(* of them.  The broker delivers a message up to MaxDeliveries times.      *)
(***************************************************************************)
EXTENDS Integers

CONSTANTS
    Consumers,
    Messages,       \* record ids
    MaxDeliveries,  \* bound on the deliveries of one message
    None

InboxAssumption ==
    /\ MaxDeliveries \in Nat \ {0}
    /\ None \notin Messages \cup {"PENDING", "PROCESSED", "FAILED", "DUPLICATE"}

VARIABLES
    store,       \* status of the stored InboxRecord of each id, None without one
    at,          \* per consumer: the id it processes, the status of its copy of
                 \*   the record, and the call it awaits
    deliveries,  \* how often each message has been delivered
    effects,     \* history: how often the handler of each message took effect
    disturbed    \* history: the messages delivered again while one delivery was
                 \*   under way, or whose processing was cut short by a crash

vars == <<store, at, deliveries, effects, disturbed>>

InboxStatus == {"PENDING", "PROCESSED", "FAILED", "DUPLICATE"}

Idle == [id |-> None, status |-> "PENDING", pc |-> "idle"]

TypeOK ==
    /\ store \in [Messages -> InboxStatus \cup {None}]
    /\ at \in [Consumers ->
                 [id : Messages \cup {None}, status : InboxStatus,
                  pc : {"idle", "is_duplicate", "save_pending", "dispatch", "save"}]]
    /\ deliveries \in [Messages -> 0 .. MaxDeliveries]
    /\ effects \in [Messages -> 0 .. MaxDeliveries]
    /\ disturbed \subseteq Messages

Init ==
    /\ store = [m \in Messages |-> None]
    /\ at = [c \in Consumers |-> Idle]
    /\ deliveries = [m \in Messages |-> 0]
    /\ effects = [m \in Messages |-> 0]
    /\ disturbed = {}

Goto(c, p) == at' = [at EXCEPT ![c].pc = p]

Saved(c) == [store EXCEPT ![at[c].id] = at[c].status]

-----------------------------------------------------------------------------
(* Plausible slips in the definitions below, used to test the properties.  *)

is_duplicate_of_any(c) ==
    /\ at[c].pc = "is_duplicate"
    /\ IF store[at[c].id] # None
       THEN at' = [at EXCEPT ![c].pc = "save", ![c].status = "DUPLICATE"]
       ELSE Goto(c, "save_pending")
    /\ UNCHANGED <<store, deliveries, effects, disturbed>>

is_duplicate_of_duplicate(c) ==
    /\ at[c].pc = "is_duplicate"
    /\ IF store[at[c].id] = "DUPLICATE"
       THEN at' = [at EXCEPT ![c].pc = "save", ![c].status = "DUPLICATE"]
       ELSE Goto(c, "save_pending")
    /\ UNCHANGED <<store, deliveries, effects, disturbed>>

save_misspelt(c) ==
    /\ at[c].pc = "save"
    /\ store' = [store EXCEPT ![at[c].id] = "DONE"]
    /\ at' = [at EXCEPT ![c] = Idle]
    /\ UNCHANGED <<deliveries, effects, disturbed>>

-----------------------------------------------------------------------------
deliver(c, m) ==
    /\ at[c].pc = "idle"
    /\ deliveries[m] < MaxDeliveries
    /\ at' = [at EXCEPT ![c] = [id |-> m, status |-> "PENDING",
                                pc |-> "is_duplicate"]]
    /\ deliveries' = [deliveries EXCEPT ![m] = @ + 1]
    /\ disturbed' = disturbed \cup (IF \E d \in Consumers : at[d].id = m THEN {m} ELSE {})
    /\ UNCHANGED <<store, effects>>

(* Only a record whose stored status is PROCESSED counts as a duplicate. *)
is_duplicate(c) ==
    /\ at[c].pc = "is_duplicate"
    /\ IF store[at[c].id] = "PROCESSED"
       THEN at' = [at EXCEPT ![c].pc = "save", ![c].status = "DUPLICATE"]
       ELSE Goto(c, "save_pending")
    /\ UNCHANGED <<store, deliveries, effects, disturbed>>

save_pending(c) ==
    /\ at[c].pc = "save_pending"
    /\ store' = Saved(c)
    /\ Goto(c, "dispatch")
    /\ UNCHANGED <<deliveries, effects, disturbed>>

(* The handler takes effect, or raises without one. *)
dispatch(c) ==
    /\ at[c].pc = "dispatch"
    /\ \/ /\ at' = [at EXCEPT ![c].pc = "save", ![c].status = "PROCESSED"]
          /\ effects' = [effects EXCEPT ![at[c].id] = @ + 1]
       \/ /\ at' = [at EXCEPT ![c].pc = "save", ![c].status = "FAILED"]
          /\ UNCHANGED effects
    /\ UNCHANGED <<store, deliveries, disturbed>>

(* The upsert at the end of process(), of a duplicate too. *)
save(c) ==
    /\ at[c].pc = "save"
    /\ store' = Saved(c)
    /\ at' = [at EXCEPT ![c] = Idle]
    /\ UNCHANGED <<deliveries, effects, disturbed>>

crash(c) ==
    /\ at[c].pc # "idle"
    /\ at' = [at EXCEPT ![c] = Idle]
    /\ disturbed' = disturbed \cup {at[c].id}
    /\ UNCHANGED <<store, deliveries, effects>>

Next ==
    \E c \in Consumers :
       \/ \E m \in Messages : deliver(c, m)
       \/ is_duplicate(c) \/ save_pending(c) \/ dispatch(c) \/ save(c) \/ crash(c)

Spec == Init /\ [][Next]_vars

-----------------------------------------------------------------------------
(* No message is swallowed: a record stored as PROCESSED or DUPLICATE, or  *)
(* about to be, belongs to a message whose handler took effect, however    *)
(* the deliveries interleave and wherever a consumer dies.                 *)
NeverSwallowed ==
    \A m \in Messages :
       \/ store[m] \in {"PROCESSED", "DUPLICATE"}
       \/ \E c \in Consumers :
             at[c].id = m /\ at[c].status \in {"PROCESSED", "DUPLICATE"}
       => effects[m] > 0

(* The first redelivery that follows an orderly processing is recognised:  *)
(* two deliveries, one after the other, take effect at most once, also     *)
(* when consumers process other messages meanwhile.                        *)
RedeliveryRecognised ==
    \A m \in Messages :
       m \notin disturbed /\ deliveries[m] <= 2 => effects[m] <= 1

(* A message the inbox calls processed or a duplicate has taken effect, and *)
(* one delivered again after that is recognised.                            *)
InboxRemembers == NeverSwallowed /\ RedeliveryRecognised

(* "Processes inbox records with exactly-once semantics": a message takes  *)
(* effect at most once, however often it is delivered one after the other. *)
ExactlyOnce == \A m \in Messages : m \notin disturbed => effects[m] <= 1
=============================================================================
