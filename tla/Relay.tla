------------------------------- MODULE Relay -------------------------------
(* From one service to another: the outbox of the first, its dispatchers and *)
(* the broker, and the consumers of the second with their inbox.  The two    *)
(* share the delivered records and nothing else.                             *)
EXTENDS Outbox

CONSTANTS Consumers, MaxDeliveries

VARIABLES
    inbox,      \* the store of Inbox
    consumer,   \* its `at`
    deliveries, effects, disturbed

Receiving == INSTANCE Inbox WITH Messages <- Records, store <- inbox, at <- consumer

ASSUME RelayAssumption == Receiving!InboxAssumption

receiving_vars == <<inbox, consumer, deliveries, effects, disturbed>>
relay_vars == <<vars, receiving_vars>>

RelayTypeOK == TypeOK /\ Receiving!TypeOK
RelayInit == Init /\ Receiving!Init

(* A record that has reached the broker is read by a consumer, again after *)
(* a crash or an entry published twice.                                    *)
read_entry(c, r) == r \in delivered /\ Receiving!deliver(c, r)
process(c) ==
    Receiving!is_duplicate(c) \/ Receiving!save_pending(c) \/ Receiving!dispatch(c) \/ Receiving!save(c)

Send == Next /\ UNCHANGED receiving_vars
Receive ==
    /\ \E c \in Consumers : process(c) \/ Receiving!crash(c) \/ \E r \in Records : read_entry(c, r)
    /\ UNCHANGED vars

RelayNext == Send \/ Receive
RelaySpec == RelayInit /\ [][RelayNext]_relay_vars

first_read(r) == deliveries[r] = 0 /\ (\E c \in Consumers : read_entry(c, r)) /\ UNCHANGED vars
processing(c) == process(c) /\ UNCHANGED vars
dispatching(d) == Handle(d) /\ UNCHANGED receiving_vars

-----------------------------------------------------------------------------
(* No effect without its cause, from one service's database to the other's *)
(* handler: over a store with transactions the second service has heard    *)
(* only of what the first one committed, wherever either of them crashes.  *)
EffectsHaveCauses ==
    store = "sql" => \A r \in Records : effects[r] > 0 \/ inbox[r] # None => tx[r] = "committed"

(* What InboxProcessor promises by itself, of the inbox of the second.     *)
InboxRemembers == Receiving!InboxRemembers

(* No cause without its effect: if the sender's statements work from some  *)
(* time on, a committed record takes effect in the other service, or one   *)
(* of the two tables says that it failed, or a consumer was cut short.     *)
(* (Over Redis Streams; Kafka's producer may lose what it has buffered.)   *)
CommittedTakesEffect ==
    <>[][Calm]_relay_vars =>
        \A r \in Records : tx[r] = "committed" ~>
            \/ effects[r] > 0 \/ status[r] = "FAILED" \/ inbox[r] = "FAILED"
            \/ r \in disturbed \/ broker = "kafka"
=============================================================================
