---------------------------- MODULE RelayProofs ----------------------------
(* Theorems about the outbox, the inbox, and the two services joined by     *)
(* them, and about the document and object stores, for every number of      *)
(* records, dispatchers and consumers, of writers, uploads and keys.        *)
EXTENDS Relay, DataStores, TLAPS

-----------------------------------------------------------------------------
(* The outbox.                                                              *)

Committed == {r \in Records : tx[r] = "committed"}

(* Over a broker whose answer is awaited, a dispatcher marks a record, in   *)
(* its session or in the table, only after the record has arrived.          *)
MarkedAfterArrival ==
    broker = "redis" =>
        /\ \A r \in Records : status[r] = "DISPATCHED" => r \in delivered
        /\ \A d \in Dispatchers :
              /\ pc[d] = "mark_dispatched" => current[d] \in delivered
              /\ \A r \in Records : session[d][r] = "DISPATCHED" => r \in delivered

(* Over a store with transactions, whatever has left the unit of work that  *)
(* wrote it - to the table, a dispatcher, the producer's buffer, the broker *)
(* - was committed there.                                                   *)
SeenIsCommitted ==
    store = "sql" =>
        /\ \A r \in Records : status[r] # None => r \in Committed
        /\ \A d \in Dispatchers :
              /\ batch[d] \subseteq Committed
              /\ current[d] # None => current[d] \in Committed
              /\ \A r \in Records : session[d][r] # None => r \in Committed
        /\ buffer \subseteq Committed
        /\ delivered \subseteq Committed

OutboxInv == TypeOK /\ MarkedAfterArrival /\ SeenIsCommitted

(* The statements of a dispatcher keep the types: Update, Continue and      *)
(* Abandon are what its actions are made of.                                *)
LEMMA UpdateTypes ==
    ASSUME TypeOK, NEW d \in Dispatchers, NEW r \in Records,
           NEW s \in {"DISPATCHED", "FAILED"}, Update(d, r, s)
    PROVE  /\ status' \in [Records -> OutboxStatus \cup {None}]
           /\ session' \in [Dispatchers -> [Records -> {"DISPATCHED", "FAILED", None}]]
<1>1. CASE store = "mongo"
  BY <1>1, Zenon DEF TypeOK, Update, OutboxStatus
<1>2. CASE store # "mongo"
  <2>1. session' = [session EXCEPT ![d] = [session[d] EXCEPT ![r] = s]]
    BY <1>2, Zenon DEF TypeOK, Update
  <2>2. [session[d] EXCEPT ![r] = s] \in [Records -> {"DISPATCHED", "FAILED", None}]
    BY Zenon DEF TypeOK
  <2>3. QED
    BY <1>2, <2>1, <2>2, Zenon DEF TypeOK, Update
<1>3. QED
  BY <1>1, <1>2, Zenon

(* Every step of the outbox keeps the types of its variables. *)
LEMMA OutboxTypes == TypeOK /\ [Next]_vars => TypeOK'
<1> SUFFICES ASSUME TypeOK, [Next]_vars
             PROVE  TypeOK'
  BY Zenon
<1> USE DEF deployment
<1>1. ASSUME NEW r \in Records, save(r)
      PROVE  TypeOK'
  BY <1>1, Zenon DEF TypeOK, save, OutboxStatus
<1>2. ASSUME NEW r \in Records, commit(r)
      PROVE  TypeOK'
  BY <1>2, Zenon DEF TypeOK, commit, OutboxStatus
<1>3. ASSUME NEW r \in Records, rollback(r)
      PROVE  TypeOK'
  BY <1>3, Zenon DEF TypeOK, rollback
<1>4. ASSUME NEW d \in Dispatchers, get_pending(d)
      PROVE  TypeOK'
  BY <1>4 DEF TypeOK, get_pending, Pending, kSubset
<1>5. ASSUME NEW d \in Dispatchers, publish(d)
      PROVE  TypeOK'
  BY <1>5 DEF TypeOK, publish, Deliver
<1>6. ASSUME NEW d \in Dispatchers, mark_dispatched(d)
      PROVE  TypeOK'
  <2>1. current[d] \in Records
    BY <1>6, Zenon DEF TypeOK, mark_dispatched
  <2>2. /\ status' \in [Records -> OutboxStatus \cup {None}]
        /\ session' \in [Dispatchers -> [Records -> {"DISPATCHED", "FAILED", None}]]
    BY <1>6, <2>1, UpdateTypes, Zenon DEF mark_dispatched
  <2>3. QED
    BY <1>6, <2>2, Zenon DEF TypeOK, mark_dispatched, Continue
<1>7. ASSUME NEW d \in Dispatchers, mark_dispatched_raises(d)
      PROVE  TypeOK'
  <2>1. CASE store = "mongo"
    <3>1. pc' \in [Dispatchers -> {"idle", "loop", "mark_dispatched", "mark_failed"}]
      BY <1>7, <2>1, Zenon DEF TypeOK, mark_dispatched_raises
    <3>2. \A e \in Dispatchers :
             current'[e] \in IF pc'[e] \in {"idle", "loop"} THEN {None} ELSE Records
      BY <1>7, <2>1, Zenon DEF TypeOK, mark_dispatched_raises
    <3>3. QED
      BY <1>7, <2>1, <3>1, <3>2, Zenon DEF TypeOK, mark_dispatched_raises
  <2>2. CASE store # "mongo"
    <3>1. Abandon(d)
      BY <1>7, <2>2, Zenon DEF mark_dispatched_raises
    <3>2. QED
      BY <1>7, <3>1, Zenon DEF TypeOK, mark_dispatched_raises, Abandon, NoUpdates
  <2>3. QED
    BY <2>1, <2>2, Zenon
<1>8. ASSUME NEW d \in Dispatchers, mark_failed(d)
      PROVE  TypeOK'
  <2>1. current[d] \in Records
    BY <1>8, Zenon DEF TypeOK, mark_failed
  <2>2. /\ status' \in [Records -> OutboxStatus \cup {None}]
        /\ session' \in [Dispatchers -> [Records -> {"DISPATCHED", "FAILED", None}]]
    BY <1>8, <2>1, UpdateTypes, Zenon DEF mark_failed
  <2>3. QED
    BY <1>8, <2>2, Zenon DEF TypeOK, mark_failed, Continue
<1>9. ASSUME NEW d \in Dispatchers, mark_failed_raises(d)
      PROVE  TypeOK'
  BY <1>9, Zenon DEF TypeOK, mark_failed_raises, Abandon, NoUpdates
<1>10. ASSUME NEW d \in Dispatchers, commit_dispatch(d)
       PROVE  TypeOK'
  BY <1>10 DEF TypeOK, commit_dispatch, NoUpdates, OutboxStatus
<1>11. ASSUME NEW d \in Dispatchers, crash(d)
       PROVE  TypeOK'
  BY <1>11, Zenon DEF TypeOK, crash, Abandon, NoUpdates
<1>12. ASSUME flush \/ undelivered
       PROVE  TypeOK'
  BY <1>12, Zenon DEF TypeOK, flush, undelivered, Deliver
<1>13. ASSUME UNCHANGED vars
       PROVE  TypeOK'
  BY <1>13, Zenon DEF TypeOK, vars
<1>14. QED
  BY <1>1, <1>2, <1>3, <1>4, <1>5, <1>6, <1>7, <1>8, <1>9, <1>10, <1>11, <1>12, <1>13, Zenon
     DEF Next, Handle

(* Before the broker answers, no step marks a record as dispatched. *)
LEMMA OutboxArrival == TypeOK /\ MarkedAfterArrival /\ [Next]_vars => MarkedAfterArrival'
<1> SUFFICES ASSUME TypeOK, MarkedAfterArrival, [Next]_vars, broker' = "redis"
             PROVE  MarkedAfterArrival'
  BY Zenon DEF MarkedAfterArrival
<1> USE OutboxAssumption DEF deployment, MarkedAfterArrival
<1>0. [Next]_vars => broker' = broker
  BY Zenon DEF Next, Handle, vars, save, commit, rollback, get_pending, publish, mark_dispatched,
         mark_dispatched_raises, mark_failed, mark_failed_raises, commit_dispatch, crash,
         flush, undelivered
<1>1. ASSUME NEW r \in Records, save(r) \/ commit(r) \/ rollback(r)
      PROVE  MarkedAfterArrival'
  BY <1>0, <1>1 DEF TypeOK, save, commit, rollback
<1>2. ASSUME NEW d \in Dispatchers, get_pending(d)
      PROVE  MarkedAfterArrival'
  BY <1>0, <1>2, Zenon DEF TypeOK, get_pending
<1>3. ASSUME NEW d \in Dispatchers, publish(d)
      PROVE  MarkedAfterArrival'
  BY <1>0, <1>3 DEF TypeOK, publish, Deliver
<1>4. ASSUME NEW d \in Dispatchers, mark_dispatched(d)
      PROVE  MarkedAfterArrival'
  <2>1. current[d] \in Records /\ current[d] \in delivered
    BY <1>0, <1>4, Zenon DEF TypeOK, mark_dispatched
  <2>2. CASE store = "mongo"
    BY <1>0, <1>4, <2>1, <2>2, Zenon DEF TypeOK, mark_dispatched, Update, Continue
  <2>3. CASE store # "mongo"
    BY <1>0, <1>4, <2>1, <2>3 DEF TypeOK, mark_dispatched, Update, Continue
  <2>4. QED
    BY <2>2, <2>3, Zenon
<1>5. ASSUME NEW d \in Dispatchers, mark_dispatched_raises(d)
      PROVE  MarkedAfterArrival'
  BY <1>0, <1>5 DEF TypeOK, mark_dispatched_raises, Abandon, NoUpdates
<1>6. ASSUME NEW d \in Dispatchers, mark_failed(d)
      PROVE  MarkedAfterArrival'
  <2>1. current[d] \in Records
    BY <1>0, <1>6, Zenon DEF TypeOK, mark_failed
  <2>2. CASE store = "mongo"
    BY <1>0, <1>6, <2>1, <2>2, Zenon DEF TypeOK, mark_failed, Update, Continue
  <2>3. CASE store # "mongo"
    BY <1>0, <1>6, <2>1, <2>3 DEF TypeOK, mark_failed, Update, Continue
  <2>4. QED
    BY <2>2, <2>3, Zenon
<1>7. ASSUME NEW d \in Dispatchers, mark_failed_raises(d) \/ crash(d)
      PROVE  MarkedAfterArrival'
  BY <1>0, <1>7 DEF TypeOK, mark_failed_raises, crash, Abandon, NoUpdates
<1>8. ASSUME NEW d \in Dispatchers, commit_dispatch(d)
      PROVE  MarkedAfterArrival'
  BY <1>0, <1>8, Zenon DEF TypeOK, commit_dispatch, NoUpdates
<1>9. ASSUME flush \/ undelivered
      PROVE  MarkedAfterArrival'
  BY <1>0, <1>9, Zenon DEF TypeOK, flush, undelivered, Deliver
<1>10. ASSUME UNCHANGED vars
       PROVE  MarkedAfterArrival'
  BY <1>0, <1>10, Zenon DEF vars
<1>11. QED
  BY <1>1, <1>2, <1>3, <1>4, <1>5, <1>6, <1>7, <1>8, <1>9, <1>10, Zenon DEF Next, Handle

(* No step shows a record to anybody before its unit of work has committed. *)
LEMMA OutboxCommitted == TypeOK /\ SeenIsCommitted /\ [Next]_vars => SeenIsCommitted'
<1> SUFFICES ASSUME TypeOK, SeenIsCommitted, [Next]_vars, store' = "sql"
             PROVE  SeenIsCommitted'
  BY Zenon DEF SeenIsCommitted
<1> USE OutboxAssumption DEF deployment, SeenIsCommitted, Committed
<1>0. store = "sql"
  BY Zenon DEF Next, Handle, vars, save, commit, rollback, get_pending, publish, mark_dispatched,
         mark_dispatched_raises, mark_failed, mark_failed_raises, commit_dispatch, crash,
         flush, undelivered
<1>1. ASSUME NEW r \in Records, save(r) \/ commit(r) \/ rollback(r)
      PROVE  SeenIsCommitted'
  BY <1>0, <1>1 DEF TypeOK, save, commit, rollback
<1>2. ASSUME NEW d \in Dispatchers, get_pending(d)
      PROVE  SeenIsCommitted'
  <2>1. Pending \subseteq Committed
    BY <1>0, Zenon DEF Pending
  <2>2. QED
    BY <1>0, <1>2, <2>1 DEF TypeOK, get_pending, kSubset
<1>3. ASSUME NEW d \in Dispatchers, publish(d)
      PROVE  SeenIsCommitted'
  BY <1>0, <1>3 DEF TypeOK, publish, Deliver
<1>4. ASSUME NEW d \in Dispatchers, mark_dispatched(d) \/ mark_failed(d)
      PROVE  SeenIsCommitted'
  <2>1. current[d] \in Records /\ current[d] \in Committed
    BY <1>0, <1>4 DEF TypeOK, mark_dispatched, mark_failed
  <2>2. \A e \in Dispatchers, r \in Records :
           session'[e][r] # None => session[e][r] # None \/ r = current[d]
    BY <1>0, <1>4, <2>1 DEF TypeOK, mark_dispatched, mark_failed, Update
  <2>3. QED
    BY <1>0, <1>4, <2>2 DEF TypeOK, mark_dispatched, mark_failed, Update, Continue
<1>5. ASSUME NEW d \in Dispatchers,
             mark_dispatched_raises(d) \/ mark_failed_raises(d) \/ crash(d)
      PROVE  SeenIsCommitted'
  BY <1>0, <1>5 DEF TypeOK, mark_dispatched_raises, mark_failed_raises, crash, Abandon, NoUpdates
<1>6. ASSUME NEW d \in Dispatchers, commit_dispatch(d)
      PROVE  SeenIsCommitted'
  BY <1>0, <1>6, Zenon DEF TypeOK, commit_dispatch, NoUpdates
<1>7. ASSUME flush \/ undelivered
      PROVE  SeenIsCommitted'
  BY <1>0, <1>7 DEF TypeOK, flush, undelivered, Deliver
<1>8. ASSUME UNCHANGED vars
      PROVE  SeenIsCommitted'
  BY <1>0, <1>8, Zenon DEF vars
<1>9. QED
  BY <1>1, <1>2, <1>3, <1>4, <1>5, <1>6, <1>7, <1>8, Zenon DEF Next, Handle

(* The initial states of the outbox satisfy its invariant. *)
LEMMA OutboxInit == Init => OutboxInv
  BY OutboxAssumption
     DEF Init, OutboxInv, TypeOK, MarkedAfterArrival, SeenIsCommitted, Committed,
         NoUpdates, OutboxStatus

(* The invariant of the outbox is inductive. *)
LEMMA OutboxStep == OutboxInv /\ [Next]_vars => OutboxInv'
  BY OutboxTypes, OutboxArrival, OutboxCommitted, Zenon DEF OutboxInv

(* A record that is DISPATCHED, so that no dispatcher looks at it again,    *)
(* has reached a broker whose answer RedisStreamOutboxDispatcher awaits,    *)
(* whatever crashed or raised between publish and mark_dispatched.          *)
THEOREM AtLeastOnceHolds == Spec => []AtLeastOnce
<1>1. OutboxInv => AtLeastOnce
  BY Zenon DEF OutboxInv, MarkedAfterArrival, AtLeastOnce
<1>2. QED
  BY <1>1, OutboxInit, OutboxStep, PTL DEF Spec

(* With SqlAlchemyOutboxRepository in the handler's unit of work, the       *)
(* broker never sees a record whose unit of work did not commit.            *)
THEOREM NoPhantomEventsHolds == Spec => []NoPhantomEvents
<1>1. OutboxInv => NoPhantomEvents
  BY Zenon DEF OutboxInv, SeenIsCommitted, Committed, NoPhantomEvents
<1>2. QED
  BY <1>1, OutboxInit, OutboxStep, PTL DEF Spec

-----------------------------------------------------------------------------
(* The inbox, as the instance Receiving.                                    *)

Working == {"is_duplicate", "save_pending", "dispatch", "save"}

(* The types of the inbox, with the effects not yet bounded; a consumer has *)
(* a message exactly while it is in process().                              *)
InboxTypes ==
    /\ inbox \in [Records -> Receiving!InboxStatus \cup {None}]
    /\ consumer \in [Consumers ->
                       [id : Records \cup {None}, status : Receiving!InboxStatus,
                        pc : {"idle"} \cup Working]]
    /\ \A c \in Consumers : consumer[c].pc = "idle" <=> consumer[c].id = None
    /\ deliveries \in [Records -> Nat]
    /\ effects \in [Records -> Nat]
    /\ disturbed \subseteq Records

(* An empty inbox is well typed. *)
LEMMA InboxTypesInit == ASSUME Receiving!InboxAssumption PROVE Receiving!Init => InboxTypes
  BY DEF Receiving!InboxAssumption, Receiving!Init, Receiving!Idle, Receiving!InboxStatus,
         InboxTypes, Working

(* Every step of a consumer keeps the types. *)
LEMMA InboxTypesStep ==
    ASSUME Receiving!InboxAssumption
    PROVE  InboxTypes /\ [Receiving!Next]_receiving_vars => InboxTypes'
<1> SUFFICES ASSUME InboxTypes, [Receiving!Next]_receiving_vars
             PROVE  InboxTypes'
  BY Zenon
<1> USE DEF Receiving!InboxAssumption, InboxTypes, Working, Receiving!InboxStatus
<1>1. ASSUME NEW c \in Consumers, NEW m \in Records, Receiving!deliver(c, m)
      PROVE  InboxTypes'
  BY <1>1 DEF Receiving!deliver
<1>2. ASSUME NEW c \in Consumers, Receiving!is_duplicate(c)
      PROVE  InboxTypes'
  BY <1>2 DEF Receiving!is_duplicate, Receiving!Goto
<1>3. ASSUME NEW c \in Consumers, Receiving!save_pending(c)
      PROVE  InboxTypes'
  BY <1>3 DEF Receiving!save_pending, Receiving!Goto, Receiving!Saved
<1>4. ASSUME NEW c \in Consumers, Receiving!dispatch(c)
      PROVE  InboxTypes'
  BY <1>4 DEF Receiving!dispatch
<1>5. ASSUME NEW c \in Consumers, Receiving!save(c)
      PROVE  InboxTypes'
  BY <1>5, Zenon DEF Receiving!save, Receiving!Saved, Receiving!Idle
<1>6. ASSUME NEW c \in Consumers, Receiving!crash(c)
      PROVE  InboxTypes'
  BY <1>6, Zenon DEF Receiving!crash, Receiving!Idle
<1>7. ASSUME UNCHANGED receiving_vars
      PROVE  InboxTypes'
  BY <1>7, Zenon DEF receiving_vars
<1>8. QED
  BY <1>1, <1>2, <1>3, <1>4, <1>5, <1>6, <1>7, Zenon DEF Receiving!Next

At(m) == {c \in Consumers : consumer[c].id = m}

(* What one orderly delivery leaves behind, and the second one finds.  A    *)
(* message that was never disturbed is with one consumer at a time; it has  *)
(* not taken effect before its delivery, or in its first delivery before    *)
(* dispatch(), and a first delivery that took effect is remembered as       *)
(* PROCESSED, which the second one looks up.                                *)
OrderlySoFar(m) ==
    /\ \A c, d \in At(m) : c = d
    /\ deliveries[m] = 0 => effects[m] = 0 /\ At(m) = {}
    /\ deliveries[m] = 1 /\ At(m) = {} /\ effects[m] > 0 => inbox[m] = "PROCESSED"
    /\ deliveries[m] <= 2 => effects[m] <= 1
    /\ \A c \in At(m) :
          /\ deliveries[m] = 1 /\ consumer[c].pc # "save" => effects[m] = 0
          /\ deliveries[m] = 1 /\ consumer[c].pc = "save" /\ effects[m] > 0
                => consumer[c].status = "PROCESSED"
          /\ deliveries[m] = 2 /\ consumer[c].pc = "is_duplicate" /\ effects[m] > 0
                => inbox[m] = "PROCESSED"
          /\ deliveries[m] = 2 /\ consumer[c].pc \in {"save_pending", "dispatch"}
                => effects[m] = 0

Orderly == \A m \in Records \ disturbed : OrderlySoFar(m)

InboxInv == InboxTypes /\ Receiving!NeverSwallowed /\ Orderly

(* No step marks a message processed, or a duplicate, that took no effect. *)
LEMMA SwallowedStep ==
    ASSUME Receiving!InboxAssumption
    PROVE  InboxTypes /\ Receiving!NeverSwallowed /\ [Receiving!Next]_receiving_vars
              => Receiving!NeverSwallowed'
<1> SUFFICES ASSUME InboxTypes, Receiving!NeverSwallowed, [Receiving!Next]_receiving_vars
             PROVE  Receiving!NeverSwallowed'
  BY Zenon
<1> USE DEF Receiving!InboxAssumption, InboxTypes, Working, Receiving!NeverSwallowed
<1>1. ASSUME NEW c \in Consumers, NEW m \in Records, Receiving!deliver(c, m)
      PROVE  Receiving!NeverSwallowed'
  BY <1>1, Zenon DEF Receiving!deliver
<1>2. ASSUME NEW c \in Consumers, Receiving!is_duplicate(c)
      PROVE  Receiving!NeverSwallowed'
  BY <1>2 DEF Receiving!is_duplicate, Receiving!Goto
<1>3. ASSUME NEW c \in Consumers, Receiving!save_pending(c)
      PROVE  Receiving!NeverSwallowed'
  BY <1>3 DEF Receiving!save_pending, Receiving!Goto, Receiving!Saved
<1>4. ASSUME NEW c \in Consumers, Receiving!dispatch(c)
      PROVE  Receiving!NeverSwallowed'
  <2>1. consumer[c].id \in Records
    BY <1>4, Zenon DEF Receiving!dispatch
  <2>2. \A m \in Records : effects'[m] \in Nat /\ effects'[m] >= effects[m]
    BY <1>4, <2>1 DEF Receiving!dispatch
  <2>3. \A d \in Consumers \ {c} : consumer'[d] = consumer[d]
    BY <1>4, Zenon DEF Receiving!dispatch
  <2>4. /\ consumer'[c].id = consumer[c].id
        /\ \/ consumer'[c].status = "FAILED"
           \/ effects'[consumer[c].id] > 0
    BY <1>4, <2>1 DEF Receiving!dispatch
  <2>5. inbox' = inbox
    BY <1>4, Zenon DEF Receiving!dispatch
  <2>6. QED
    BY <2>2, <2>3, <2>4, <2>5
<1>5. ASSUME NEW c \in Consumers, Receiving!save(c)
      PROVE  Receiving!NeverSwallowed'
  BY <1>5, Zenon DEF Receiving!save, Receiving!Saved, Receiving!Idle
<1>6. ASSUME NEW c \in Consumers, Receiving!crash(c)
      PROVE  Receiving!NeverSwallowed'
  BY <1>6, Zenon DEF Receiving!crash, Receiving!Idle
<1>7. ASSUME UNCHANGED receiving_vars
      PROVE  Receiving!NeverSwallowed'
  BY <1>7, Zenon DEF receiving_vars
<1>8. QED
  BY <1>1, <1>2, <1>3, <1>4, <1>5, <1>6, <1>7, Zenon DEF Receiving!Next

(* No step of a consumer makes an undisturbed message disorderly. *)
LEMMA OrderlyStep ==
    ASSUME Receiving!InboxAssumption
    PROVE  InboxTypes /\ Orderly /\ [Receiving!Next]_receiving_vars => Orderly'
<1> SUFFICES ASSUME InboxTypes, Orderly, [Receiving!Next]_receiving_vars,
                    NEW n \in Records, n \notin disturbed'
             PROVE  OrderlySoFar(n)'
  BY Zenon DEF Orderly
<1> USE DEF Receiving!InboxAssumption, InboxTypes, Working, OrderlySoFar, At
<1>0. n \notin disturbed /\ OrderlySoFar(n)
  BY Zenon DEF Orderly, Receiving!Next, receiving_vars, Receiving!deliver, Receiving!is_duplicate,
         Receiving!save_pending, Receiving!dispatch, Receiving!save, Receiving!crash
<1>1. ASSUME NEW c \in Consumers, NEW m \in Records, Receiving!deliver(c, m)
      PROVE  OrderlySoFar(n)'
  BY <1>0, <1>1 DEF Receiving!deliver
<1>2. ASSUME NEW c \in Consumers, Receiving!is_duplicate(c)
      PROVE  OrderlySoFar(n)'
  BY <1>0, <1>2 DEF Receiving!is_duplicate, Receiving!Goto
<1>3. ASSUME NEW c \in Consumers, Receiving!save_pending(c)
      PROVE  OrderlySoFar(n)'
  BY <1>0, <1>3 DEF Receiving!save_pending, Receiving!Goto, Receiving!Saved
<1>4. ASSUME NEW c \in Consumers, Receiving!dispatch(c)
      PROVE  OrderlySoFar(n)'
  BY <1>0, <1>4 DEF Receiving!dispatch
<1>5. ASSUME NEW c \in Consumers, Receiving!save(c)
      PROVE  OrderlySoFar(n)'
  BY <1>0, <1>5 DEF Receiving!save, Receiving!Saved, Receiving!Idle
<1>6. ASSUME NEW c \in Consumers, Receiving!crash(c)
      PROVE  OrderlySoFar(n)'
  BY <1>0, <1>6 DEF Receiving!crash, Receiving!Idle
<1>7. ASSUME UNCHANGED receiving_vars
      PROVE  OrderlySoFar(n)'
  BY <1>0, <1>7, Zenon DEF receiving_vars
<1>8. QED
  BY <1>1, <1>2, <1>3, <1>4, <1>5, <1>6, <1>7, Zenon DEF Receiving!Next

(* An empty inbox satisfies its invariant. *)
LEMMA InboxInit == ASSUME Receiving!InboxAssumption PROVE Receiving!Init => InboxInv
<1> SUFFICES ASSUME Receiving!Init
             PROVE  InboxInv
  BY Zenon
<1>1. InboxTypes
  BY InboxTypesInit, Zenon
<1>2. Receiving!NeverSwallowed
  BY Zenon DEF Receiving!InboxAssumption, Receiving!Init, Receiving!Idle, Receiving!NeverSwallowed
<1>3. Orderly
  BY DEF Receiving!InboxAssumption, Receiving!Init, Receiving!Idle, Orderly, OrderlySoFar, At
<1>4. QED
  BY <1>1, <1>2, <1>3, Zenon DEF InboxInv

(* The invariant of the inbox is inductive. *)
LEMMA InboxStep ==
    ASSUME Receiving!InboxAssumption
    PROVE  InboxInv /\ [Receiving!Next]_receiving_vars => InboxInv'
  BY InboxTypesStep, SwallowedStep, OrderlyStep, Zenon DEF InboxInv

(* However the deliveries of InboxProcessor.process interleave and wherever *)
(* a consumer dies: a message recorded as PROCESSED or DUPLICATE has taken  *)
(* effect, and the redelivery that follows one orderly processing does not  *)
(* take effect again.                                                       *)
THEOREM InboxAlone == Receiving!Spec => []Receiving!InboxRemembers
<1>1. InboxInv => Receiving!InboxRemembers
  <2>1. InboxInv => Receiving!RedeliveryRecognised
    BY Zenon DEF InboxInv, Orderly, OrderlySoFar, Receiving!RedeliveryRecognised
  <2>2. QED
    BY <2>1, Zenon DEF InboxInv, Receiving!InboxRemembers
<1>2. Receiving!Init => InboxInv
  BY InboxInit, RelayAssumption, Zenon
<1>3. InboxInv /\ [Receiving!Next]_Receiving!vars => InboxInv'
  BY InboxStep, RelayAssumption, Zenon DEF receiving_vars, Receiving!vars
<1>4. QED
  BY <1>1, <1>2, <1>3, PTL DEF Receiving!Spec

-----------------------------------------------------------------------------
(* The two services together.                                               *)

(* Each service, in the composition, does what it does alone: a step of the *)
(* relay is a step of one of the two, and the other stands still.           *)
THEOREM RelayImplementsBoth == RelaySpec => Spec /\ Receiving!Spec
<1>1. RelayInit => Init /\ Receiving!Init
  BY Zenon DEF RelayInit
<1>2. [RelayNext]_relay_vars => [Next]_vars
  BY Zenon DEF RelayNext, Send, Receive, relay_vars
<1>3. [RelayNext]_relay_vars => [Receiving!Next]_Receiving!vars
  BY Zenon DEF RelayNext, Send, Receive, relay_vars, receiving_vars, Receiving!vars, Receiving!Next,
         process, read_entry
<1>4. QED
  BY <1>1, <1>2, <1>3, PTL DEF RelaySpec, Spec, Receiving!Spec

(* So the inbox of the second service keeps, behind the outbox of the       *)
(* first, what InboxProcessor promises by itself.                           *)
THEOREM InboxRemembersHolds == RelaySpec => []InboxRemembers
  BY RelayImplementsBoth, InboxAlone, PTL DEF InboxRemembers

(* Over a store with transactions, what the second service has read, works  *)
(* on, or has recorded is committed in the first.                           *)
HeardIsCommitted ==
    store = "sql" =>
        /\ \A c \in Consumers : consumer[c].id # None => consumer[c].id \in Committed
        /\ \A r \in Records : effects[r] > 0 \/ inbox[r] # None => r \in Committed

RelayInv == OutboxInv /\ InboxTypes /\ HeardIsCommitted

(* No step of either service lets the second hear of what the first has not *)
(* committed: a reading takes a record from the broker, and those are       *)
(* committed by SeenIsCommitted.                                            *)
LEMMA HeardStep ==
    ASSUME Receiving!InboxAssumption
    PROVE  RelayInv /\ [RelayNext]_relay_vars => HeardIsCommitted'
<1> SUFFICES ASSUME RelayInv, [RelayNext]_relay_vars
             PROVE  HeardIsCommitted'
  BY Zenon
<1> USE DEF Receiving!InboxAssumption, RelayInv, HeardIsCommitted, InboxTypes, Working
<1>1. CASE Send
  <2>1. Committed \subseteq Committed' /\ store' = store
    BY <1>1 DEF Send, Next, Handle, Committed, OutboxInv, TypeOK, deployment, save, commit, rollback,
           get_pending, publish, mark_dispatched, mark_dispatched_raises, mark_failed,
           mark_failed_raises, commit_dispatch, crash, flush, undelivered
  <2>2. QED
    BY <1>1, <2>1, Zenon DEF Send, receiving_vars
<1>2. CASE Receive
  <2>1. Committed' = Committed /\ store' = store /\ delivered' = delivered
    BY <1>2, Zenon DEF Receive, vars, deployment, Committed
  <2>2. ASSUME NEW c \in Consumers, NEW r \in Records, read_entry(c, r)
        PROVE  HeardIsCommitted'
    BY <2>1, <2>2, Zenon DEF read_entry, Receiving!deliver, OutboxInv, SeenIsCommitted
  <2>3. ASSUME NEW c \in Consumers, Receiving!is_duplicate(c)
        PROVE  HeardIsCommitted'
    BY <2>1, <2>3 DEF Receiving!is_duplicate, Receiving!Goto
  <2>4. ASSUME NEW c \in Consumers, Receiving!save_pending(c)
        PROVE  HeardIsCommitted'
    BY <2>1, <2>4 DEF Receiving!save_pending, Receiving!Goto, Receiving!Saved
  <2>5. ASSUME NEW c \in Consumers, Receiving!dispatch(c)
        PROVE  HeardIsCommitted'
    <3>1. consumer[c].id \in Records /\ inbox' = inbox
      BY <2>5, Zenon DEF Receiving!dispatch
    <3>2. \A d \in Consumers : consumer'[d].id = consumer[d].id
      BY <2>5 DEF Receiving!dispatch
    <3>3. \A r \in Records : r # consumer[c].id => effects'[r] = effects[r]
      BY <2>5, Zenon DEF Receiving!dispatch
    <3>4. store = "sql" => consumer[c].id \in Committed
      BY <2>5, <3>1, Zenon
    <3>5. QED
      BY <2>1, <3>1, <3>2, <3>3, <3>4, Zenon
  <2>6. ASSUME NEW c \in Consumers, Receiving!save(c)
        PROVE  HeardIsCommitted'
    BY <2>1, <2>6 DEF Receiving!save, Receiving!Saved, Receiving!Idle
  <2>7. ASSUME NEW c \in Consumers, Receiving!crash(c)
        PROVE  HeardIsCommitted'
    BY <2>1, <2>7, Zenon DEF Receiving!crash, Receiving!Idle
  <2>8. QED
    BY <1>2, <2>2, <2>3, <2>4, <2>5, <2>6, <2>7, Zenon DEF Receive, process
<1>3. CASE UNCHANGED relay_vars
  BY <1>3, Zenon DEF relay_vars, vars, deployment, receiving_vars, Committed
<1>4. QED
  BY <1>1, <1>2, <1>3, Zenon DEF RelayNext

(* Wherever either service crashes, the handlers of the second one run, and *)
(* its inbox has records, only for what the first one committed.            *)
THEOREM EffectsHaveCausesHolds == RelaySpec => []EffectsHaveCauses
<1>1. RelayInit => RelayInv
  <2>1. RelayInit => HeardIsCommitted
    BY DEF RelayInit, Receiving!Init, Receiving!Idle, HeardIsCommitted
  <2>2. QED
    BY <2>1, OutboxInit, InboxTypesInit, RelayAssumption, Zenon DEF RelayInit, RelayInv
<1>2. RelayInv /\ [RelayNext]_relay_vars => RelayInv'
  <2>1. [RelayNext]_relay_vars => [Next]_vars /\ [Receiving!Next]_receiving_vars
    BY Zenon DEF RelayNext, Send, Receive, relay_vars, Receiving!Next, process, read_entry
  <2>2. QED
    BY <2>1, OutboxStep, InboxTypesStep, HeardStep, RelayAssumption, Zenon DEF RelayInv
<1>3. RelayInv => EffectsHaveCauses
  BY Zenon DEF RelayInv, HeardIsCommitted, Committed, EffectsHaveCauses
<1>4. QED
  BY <1>1, <1>2, <1>3, PTL DEF RelaySpec

-----------------------------------------------------------------------------
(* The documents.                                                           *)

(* That an edit is lost only by an overlap is inductive with the types: a   *)
(* save drops what its writer had not read and notes it.                    *)
DocInv == DocTypeOK /\ LostOnlyByOverlap

(* There is a new edit while not all are made. *)
LEMMA NextEdit ==
    ASSUME DocTypeOK, Made # Edits
    PROVE  (CHOOSE new \in Edits : new \notin Made) \in Edits
<1>1. Made \subseteq Edits
  BY DEF DocTypeOK, Made, Documents
<1>2. QED
  BY <1>1

(* A save keeps the invariant. *)
LEMMA SaveStep ==
    ASSUME DocInv, NEW w \in Writers, Save(w)
    PROVE  DocInv'
<1> DEFINE i == copy[w][1]
           e == CHOOSE new \in Edits : new \notin Made
           before == IF table[i] = Missing THEN {} ELSE table[i]
           doc == copy[w][2] \cup {e}
<1>1. copy[w] \in Ids \X Documents /\ Made # Edits
  BY Zenon DEF DocInv, DocTypeOK, Save
<1>2. i \in Ids /\ copy[w][2] \in Documents
  BY <1>1, Zenon
<1>3. e \in Edits
  BY <1>1, NextEdit, Zenon DEF DocInv
<1>4. doc \in Documents /\ doc # Missing
  BY <1>2, <1>3, DocumentsAssumption, Zenon DEF Documents
<1>5. /\ table' = [table EXCEPT ![i] = doc]
      /\ visible' = [visible EXCEPT ![i] = IF engine \in SearchEngines THEN @ ELSE doc]
      /\ edits' = [edits EXCEPT ![i] = @ \cup {e}]
      /\ overlapped' = overlapped \cup (before \ copy[w][2])
      /\ copy' = [copy EXCEPT ![w] = Missing]
      /\ engine' = engine /\ deleted' = deleted
  BY Zenon DEF Save, Stored
<1> HIDE DEF i, e, doc
<1>6. DocTypeOK'
  <2>1. before \subseteq Edits
    BY <1>2, Zenon DEF DocInv, DocTypeOK, Documents
  <2>2. table' \in [Ids -> Documents \cup {Missing}] /\ visible' \in [Ids -> Documents \cup {Missing}]
    BY <1>2, <1>4, <1>5, Zenon DEF DocInv, DocTypeOK
  <2>3. copy' \in [Writers -> (Ids \X Documents) \cup {Missing}]
    BY <1>5, Zenon DEF DocInv, DocTypeOK
  <2>4. edits' \in [Ids -> Documents] /\ overlapped' \subseteq Edits /\ deleted' \subseteq Edits
    BY <1>2, <1>3, <1>5, <2>1, Zenon DEF DocInv, DocTypeOK, Documents
  <2>5. engine' \in Engines
    BY <1>5, Zenon DEF DocInv, DocTypeOK
  <2>6. QED
    BY <2>2, <2>3, <2>4, <2>5, Zenon DEF DocTypeOK
<1>7. LostOnlyByOverlap'
  <2> SUFFICES ASSUME NEW j \in Ids, NEW d \in edits'[j], d \notin overlapped', d \notin deleted'
               PROVE  table'[j] # Missing /\ d \in table'[j]
    BY Zenon DEF LostOnlyByOverlap
  <2>1. d \notin overlapped /\ d \notin deleted
    BY <1>5, Zenon
  <2>2. CASE j # i
    BY <1>5, <2>1, <2>2, Zenon DEF DocInv, DocTypeOK, LostOnlyByOverlap
  <2>3. CASE j = i
    <3>1. edits'[j] = edits[i] \cup {e} /\ table'[j] = doc
      BY <1>2, <1>5, <2>3, Zenon DEF DocInv, DocTypeOK
    <3>2. d \in edits[i] => d \in copy[w][2]
      <4>1. d \in edits[i] => table[i] # Missing /\ d \in table[i]
        BY <1>2, <2>1, Zenon DEF DocInv, LostOnlyByOverlap
      <4>2. QED
        BY <1>5, <4>1, Zenon
    <3>3. QED
      BY <1>4, <3>1, <3>2, Zenon DEF doc
  <2>4. QED
    BY <2>2, <2>3, Zenon
<1>8. QED
  BY <1>6, <1>7, Zenon DEF DocInv

(* Every step of the writers and the engine keeps it. *)
LEMMA DocStep == DocInv /\ [DocNext]_doc_vars => DocInv'
<1> SUFFICES ASSUME DocInv, [DocNext]_doc_vars
             PROVE  DocInv'
  BY Zenon
<1>1. ASSUME NEW w \in Writers,
             put_dynamodb(w) \/ save_cassandra(w) \/ save_mongodb(w)
                \/ save_elasticsearch(w) \/ save_opensearch(w)
      PROVE  DocInv'
  <2>1. Save(w)
    BY <1>1, Zenon DEF put_dynamodb, save_cassandra, save_mongodb, save_elasticsearch, save_opensearch
  <2>2. QED
    BY <2>1, SaveStep, Zenon
<1>2. ASSUME NEW w \in Writers, NEW i \in Ids, get(w, i)
      PROVE  DocInv'
  <2>1. (IF table[i] = Missing THEN {} ELSE table[i]) \in Documents
    BY Zenon DEF DocInv, DocTypeOK, Documents
  <2>2. DocTypeOK'
    BY <1>2, <2>1, Zenon DEF get, DocInv, DocTypeOK
  <2>3. LostOnlyByOverlap'
    BY <1>2, Zenon DEF get, DocInv, LostOnlyByOverlap
  <2>4. QED
    BY <2>2, <2>3, Zenon DEF DocInv
<1>3. ASSUME NEW i \in Ids, delete(i)
      PROVE  DocInv'
  <2>1. table[i] \in Documents
    BY <1>3, Zenon DEF delete, DocInv, DocTypeOK
  <2>2. DocTypeOK'
    BY <1>3, <2>1, Zenon DEF delete, DocInv, DocTypeOK, Documents
  <2>3. LostOnlyByOverlap'
    <3> SUFFICES ASSUME NEW j \in Ids, NEW d \in edits'[j], d \notin overlapped', d \notin deleted'
                 PROVE  table'[j] # Missing /\ d \in table'[j]
      BY Zenon DEF LostOnlyByOverlap
    <3>1. table[j] # Missing /\ d \in table[j] /\ d \notin table[i]
      BY <1>3, Zenon DEF delete, DocInv, LostOnlyByOverlap
    <3>2. QED
      BY <1>3, <3>1, Zenon DEF delete, DocInv, DocTypeOK
  <2>4. QED
    BY <2>2, <2>3, Zenon DEF DocInv
<1>4. CASE refresh
  <2>1. DocTypeOK'
    BY <1>4, Zenon DEF refresh, DocInv, DocTypeOK
  <2>2. LostOnlyByOverlap'
    BY <1>4, Zenon DEF refresh, DocInv, LostOnlyByOverlap
  <2>3. QED
    BY <2>1, <2>2, Zenon DEF DocInv
<1>5. CASE UNCHANGED doc_vars
  BY <1>5, Zenon DEF doc_vars, DocInv, DocTypeOK, LostOnlyByOverlap
<1>6. QED
  BY <1>1, <1>2, <1>3, <1>4, <1>5, Zenon DEF DocNext

-----------------------------------------------------------------------------
(* The objects.                                                             *)

(* What FileValidator lets pass. *)
Declared(f) == f.size_bytes <= max_size /\ (f.streamed \/ f.size_bytes = f.real)

(* An upload that was let in was declared within the limit; what is stored  *)
(* under a key was put there by an upload to it; and what is reported is    *)
(* stored or was erased.                                                    *)
ObjectInv ==
    /\ ObjectTypeOK
    /\ \A u \in Uploads : upload_at[u] \in {"read", "put", "done", "failed"} =>
          file[u] \in Files /\ Declared(file[u])
    /\ \A k \in Keys : blobs[k] # Missing =>
          upload_at[blobs[k]] \in {"done", "failed"} /\ file[blobs[k]].key = k
    /\ \A u \in Uploads : \A known \in BOOLEAN : <<u, known>> \in uploaded =>
          upload_at[u] = "done" /\ (u \in erased \/ blobs[file[u].key] = u)

(* Before the first upload there is nothing to keep. *)
LEMMA ObjectStarts == ObjectInit => ObjectInv
<1> SUFFICES ASSUME ObjectInit
             PROVE  ObjectInv
  BY Zenon
<1>1. ObjectTypeOK
  BY Zenon DEF ObjectInit, ObjectTypeOK
<1>2. /\ \A u \in Uploads : upload_at[u] = "new"
      /\ \A k \in Keys : blobs[k] = Missing
      /\ uploaded = {}
  BY Zenon DEF ObjectInit
<1>3. QED
  BY <1>1, <1>2, Zenon DEF ObjectInv

(* A file that is let in is declared within the limit. *)
LEMMA UploadStep ==
    ASSUME ObjectInv, NEW u \in Uploads, NEW f \in Files, upload(u, f)
    PROVE  ObjectInv'
<1>1. /\ upload_at[u] = "new" /\ file' = [file EXCEPT ![u] = f]
      /\ medium' = medium /\ blobs' = blobs /\ uploaded' = uploaded /\ erased' = erased
  BY Zenon DEF upload
<1>2. \E p \in {"rejected", "read", "put"} :
         upload_at' = [upload_at EXCEPT ![u] = p] /\ (p # "rejected" => f.size_bytes <= max_size)
  BY Zenon DEF upload, MovesTo, validate
<1>3. f.streamed \/ f.size_bytes = f.real
  BY Zenon DEF upload
<1>4. PICK p \in {"rejected", "read", "put"} :
         upload_at' = [upload_at EXCEPT ![u] = p] /\ (p # "rejected" => f.size_bytes <= max_size)
  BY <1>2, Zenon
<1>5. p # "rejected" => Declared(f)
  BY <1>3, <1>4, Zenon DEF Declared
<1>6. /\ file \in [Uploads -> Files \cup {Missing}]
      /\ upload_at \in [Uploads -> {"new", "read", "put", "done", "rejected", "failed"}]
      /\ blobs \in [Keys -> Uploads \cup {Missing}]
  BY Zenon DEF ObjectInv, ObjectTypeOK
<1>7. /\ file' \in [Uploads -> Files \cup {Missing}]
      /\ upload_at' \in [Uploads -> {"new", "read", "put", "done", "rejected", "failed"}]
      /\ file'[u] = f /\ upload_at'[u] = p
      /\ \A v \in Uploads : v # u => file'[v] = file[v] /\ upload_at'[v] = upload_at[v]
  BY <1>1, <1>4, <1>6, Zenon
<1>8. ObjectTypeOK'
  BY <1>1, <1>7, Zenon DEF ObjectInv, ObjectTypeOK
<1>9. \A v \in Uploads : upload_at'[v] \in {"read", "put", "done", "failed"} =>
          file'[v] \in Files /\ Declared(file'[v])
  <2> SUFFICES ASSUME NEW v \in Uploads, upload_at'[v] \in {"read", "put", "done", "failed"}
               PROVE  file'[v] \in Files /\ Declared(file'[v])
    BY Zenon
  <2>1. CASE v = u
    <3>1. p # "rejected"
      BY <1>7, <2>1, Zenon
    <3>2. QED
      BY <1>5, <1>7, <2>1, <3>1, Zenon
  <2>2. CASE v # u
    BY <1>7, <2>2, Zenon DEF ObjectInv
  <2>3. QED
    BY <2>1, <2>2, Zenon
<1>10. \A k \in Keys : blobs'[k] # Missing =>
          upload_at'[blobs'[k]] \in {"done", "failed"} /\ file'[blobs'[k]].key = k
  BY <1>1, <1>6, <1>7 DEF ObjectInv
<1>11. \A v \in Uploads : \A known \in BOOLEAN : <<v, known>> \in uploaded' =>
          upload_at'[v] = "done" /\ (v \in erased' \/ blobs'[file'[v].key] = v)
  BY <1>1, <1>7 DEF ObjectInv
<1>12. QED
  BY <1>8, <1>9, <1>10, <1>11, Zenon DEF ObjectInv

(* What a put changes: the upload has ended, the blob under its key is its  *)
(* own or what it was, and it is reported only if it was stored.            *)
LEMMA PutEffect ==
    ASSUME ObjectInv, NEW u \in Uploads, Put(u)
    PROVE  /\ upload_at[u] = "put" /\ medium' = medium /\ file' = file
           /\ \E p \in {"done", "failed"} : upload_at' = [upload_at EXCEPT ![u] = p]
           /\ \/ Replace(file[u].key, u) /\ upload_at' = [upload_at EXCEPT ![u] = "done"]
                   /\ uploaded' = uploaded \cup {<<u, medium = "memory">>}
              \/ Replace(file[u].key, u) /\ uploaded' = uploaded
              \/ blobs' = blobs /\ erased' = erased /\ uploaded' = uploaded
  BY Zenon DEF Put, MovesTo

(* Whoever's blob is replaced by another's, or deleted, is erased. *)
LEMMA ReplaceEffect ==
    ASSUME ObjectInv, NEW k \in Keys, NEW v \in Uploads \cup {Missing}, Replace(k, v)
    PROVE  /\ blobs' \in [Keys -> Uploads \cup {Missing}] /\ erased' \subseteq Uploads
           /\ erased \subseteq erased' /\ blobs'[k] = v
           /\ \A j \in Keys : j # k => blobs'[j] = blobs[j]
           /\ \A u \in Uploads : blobs[k] = u /\ u # v => u \in erased'
<1>1. blobs \in [Keys -> Uploads \cup {Missing}] /\ erased \subseteq Uploads
  BY Zenon DEF ObjectInv, ObjectTypeOK
<1>2. blobs' = [blobs EXCEPT ![k] = v] /\ erased' = erased \cup (({blobs[k]} \ {Missing}) \ {v})
  BY Zenon DEF Replace
<1>3. QED
  BY <1>1, <1>2, ObjectsAssumption, Zenon

(* A put keeps the invariant, whether it stores the bytes, stores them and  *)
(* fails, or only fails.                                                    *)
LEMMA PutStep ==
    ASSUME ObjectInv, NEW u \in Uploads, Put(u)
    PROVE  ObjectInv'
<1>1. /\ upload_at[u] = "put" /\ medium' = medium /\ file' = file
      /\ \E p \in {"done", "failed"} : upload_at' = [upload_at EXCEPT ![u] = p]
      /\ \/ Replace(file[u].key, u) /\ upload_at' = [upload_at EXCEPT ![u] = "done"]
              /\ uploaded' = uploaded \cup {<<u, medium = "memory">>}
         \/ Replace(file[u].key, u) /\ uploaded' = uploaded
         \/ blobs' = blobs /\ erased' = erased /\ uploaded' = uploaded
  BY PutEffect, Zenon
<1>2. file[u] \in Files /\ Declared(file[u])
  BY <1>1, Zenon DEF ObjectInv
<1>3. file[u].key \in Keys
  BY <1>2, Zenon DEF Files
<1>4. /\ upload_at \in [Uploads -> {"new", "read", "put", "done", "rejected", "failed"}]
      /\ blobs \in [Keys -> Uploads \cup {Missing}] /\ uploaded \subseteq Uploads \X BOOLEAN
      /\ file \in [Uploads -> Files \cup {Missing}] /\ medium \in Media /\ erased \subseteq Uploads
  BY Zenon DEF ObjectInv, ObjectTypeOK
<1>5. /\ upload_at' \in [Uploads -> {"new", "read", "put", "done", "rejected", "failed"}]
      /\ upload_at'[u] \in {"done", "failed"}
      /\ \A v \in Uploads : v # u => upload_at'[v] = upload_at[v]
  BY <1>1, <1>4, Zenon
<1>6. \A v \in Uploads : upload_at'[v] \in {"read", "put", "done", "failed"} =>
          file'[v] \in Files /\ Declared(file'[v])
  <2> SUFFICES ASSUME NEW v \in Uploads, upload_at'[v] \in {"read", "put", "done", "failed"}
               PROVE  file'[v] \in Files /\ Declared(file'[v])
    BY Zenon
  <2>1. CASE v = u
    BY <1>1, <1>2, <2>1, Zenon
  <2>2. CASE v # u
    BY <1>1, <1>5, <2>2, Zenon DEF ObjectInv
  <2>3. QED
    BY <2>1, <2>2, Zenon
<1>7. \A v \in Uploads : \A known \in BOOLEAN : <<v, known>> \in uploaded =>
          v # u /\ upload_at'[v] = "done" /\ (v \in erased \/ blobs[file[v].key] = v)
  BY <1>1, <1>5 DEF ObjectInv
<1>8. \A v \in Uploads : \A known \in BOOLEAN : <<v, known>> \in uploaded => file[v].key \in Keys
  <2> SUFFICES ASSUME NEW v \in Uploads, NEW known \in BOOLEAN, <<v, known>> \in uploaded
               PROVE  file[v].key \in Keys
    BY Zenon
  <2>1. upload_at[v] = "done"
    BY Zenon DEF ObjectInv
  <2>2. file[v] \in Files
    BY <2>1, Zenon DEF ObjectInv
  <2>3. QED
    BY <2>2, Zenon DEF Files
<1>9. CASE Replace(file[u].key, u)
  <2>1. /\ blobs' \in [Keys -> Uploads \cup {Missing}] /\ erased' \subseteq Uploads
        /\ erased \subseteq erased' /\ blobs'[file[u].key] = u
        /\ \A j \in Keys : j # file[u].key => blobs'[j] = blobs[j]
        /\ \A v \in Uploads : blobs[file[u].key] = v /\ v # u => v \in erased'
    BY <1>3, <1>9, ReplaceEffect, Zenon
  <2>2. (medium = "memory") \in BOOLEAN
    BY Zenon
  <2>3. \/ uploaded' = uploaded
        \/ uploaded' = uploaded \cup {<<u, medium = "memory">>} /\ upload_at' = [upload_at EXCEPT ![u] = "done"]
    BY <1>1, Zenon
  <2>4. uploaded' \subseteq Uploads \X BOOLEAN
    <3>1. <<u, medium = "memory">> \in Uploads \X BOOLEAN
      BY <2>2, Zenon
    <3>2. QED
      BY <1>4, <2>3, <3>1, Zenon
  <2>5. ObjectTypeOK'
    BY <1>1, <1>4, <1>5, <2>1, <2>4, Zenon DEF ObjectTypeOK
  <2>6. \A k \in Keys : blobs'[k] # Missing =>
            upload_at'[blobs'[k]] \in {"done", "failed"} /\ file'[blobs'[k]].key = k
    <3> SUFFICES ASSUME NEW k \in Keys, blobs'[k] # Missing
                 PROVE  upload_at'[blobs'[k]] \in {"done", "failed"} /\ file'[blobs'[k]].key = k
      BY Zenon
    <3>1. CASE k = file[u].key
      BY <1>1, <1>5, <2>1, <3>1, Zenon
    <3>2. CASE k # file[u].key
      <4>1. blobs'[k] = blobs[k] /\ blobs[k] \in Uploads
        BY <1>4, <2>1, <3>2, Zenon
      <4>2. upload_at[blobs[k]] \in {"done", "failed"} /\ file[blobs[k]].key = k
        BY <4>1, Zenon DEF ObjectInv
      <4>3. blobs[k] # u
        BY <1>1, <4>2, Zenon
      <4>4. QED
        BY <1>1, <1>5, <4>1, <4>2, <4>3, Zenon
    <3>3. QED
      BY <3>1, <3>2, Zenon
  <2>7. \A v \in Uploads : \A known \in BOOLEAN : <<v, known>> \in uploaded' =>
            upload_at'[v] = "done" /\ (v \in erased' \/ blobs'[file'[v].key] = v)
    <3> SUFFICES ASSUME NEW v \in Uploads, NEW known \in BOOLEAN, <<v, known>> \in uploaded'
                 PROVE  upload_at'[v] = "done" /\ (v \in erased' \/ blobs'[file'[v].key] = v)
      BY Zenon
    <3>1. CASE <<v, known>> \in uploaded
      <4>1. /\ v # u /\ upload_at'[v] = "done" /\ file[v].key \in Keys
            /\ v \in erased \/ blobs[file[v].key] = v
        BY <1>7, <1>8, <3>1, Zenon
      <4>2. QED
        BY <1>1, <2>1, <4>1, Zenon
    <3>2. CASE <<v, known>> \notin uploaded
      <4>1. <<v, known>> = <<u, medium = "memory">> /\ upload_at' = [upload_at EXCEPT ![u] = "done"]
        BY <2>3, <3>2, Zenon
      <4>2. v = u
        BY <4>1, Zenon
      <4>3. upload_at'[u] = "done"
        BY <1>4, <4>1
      <4>4. QED
        BY <1>1, <2>1, <4>2, <4>3, Zenon
    <3>3. QED
      BY <3>1, <3>2, Zenon
  <2>8. QED
    BY <1>6, <2>5, <2>6, <2>7, Zenon DEF ObjectInv
<1>10. CASE blobs' = blobs /\ erased' = erased /\ uploaded' = uploaded
  <2>1. ObjectTypeOK'
    BY <1>1, <1>4, <1>5, <1>10, Zenon DEF ObjectTypeOK
  <2>2. \A k \in Keys : blobs'[k] # Missing =>
            upload_at'[blobs'[k]] \in {"done", "failed"} /\ file'[blobs'[k]].key = k
    BY <1>1, <1>4, <1>5, <1>10 DEF ObjectInv
  <2>3. \A v \in Uploads : \A known \in BOOLEAN : <<v, known>> \in uploaded' =>
            upload_at'[v] = "done" /\ (v \in erased' \/ blobs'[file'[v].key] = v)
    BY <1>1, <1>7, <1>10, Zenon
  <2>4. QED
    BY <1>6, <2>1, <2>2, <2>3, Zenon DEF ObjectInv
<1>11. QED
  BY <1>1, <1>9, <1>10, Zenon

(* Every step of an upload and of a deletion keeps the invariant. *)
LEMMA ObjectStep == ObjectInv /\ [ObjectNext]_object_vars => ObjectInv'
<1> SUFFICES ASSUME ObjectInv, [ObjectNext]_object_vars
             PROVE  ObjectInv'
  BY Zenon
<1>0. /\ upload_at \in [Uploads -> {"new", "read", "put", "done", "rejected", "failed"}]
      /\ blobs \in [Keys -> Uploads \cup {Missing}] /\ uploaded \subseteq Uploads \X BOOLEAN
      /\ file \in [Uploads -> Files \cup {Missing}] /\ medium \in Media /\ erased \subseteq Uploads
  BY Zenon DEF ObjectInv, ObjectTypeOK
<1>1. ASSUME NEW u \in Uploads, read(u)
      PROVE  ObjectInv'
  <2>1. /\ upload_at[u] = "read" /\ medium' = medium /\ file' = file /\ blobs' = blobs
        /\ uploaded' = uploaded /\ erased' = erased
        /\ \E p \in {"put", "failed"} : upload_at' = [upload_at EXCEPT ![u] = p]
    BY <1>1, Zenon DEF read, MovesTo
  <2>2. /\ upload_at' \in [Uploads -> {"new", "read", "put", "done", "rejected", "failed"}]
        /\ \A v \in Uploads : v # u => upload_at'[v] = upload_at[v]
    BY <1>0, <2>1, Zenon
  <2>3. ObjectTypeOK'
    BY <1>0, <2>1, <2>2, Zenon DEF ObjectTypeOK
  <2>4. file[u] \in Files /\ Declared(file[u])
    BY <2>1, Zenon DEF ObjectInv
  <2>5. \A v \in Uploads : upload_at'[v] \in {"read", "put", "done", "failed"} =>
            file'[v] \in Files /\ Declared(file'[v])
    BY <2>1, <2>2, <2>4, Zenon DEF ObjectInv
  <2>6. \A k \in Keys : blobs'[k] # Missing =>
            upload_at'[blobs'[k]] \in {"done", "failed"} /\ file'[blobs'[k]].key = k
    BY <1>0, <2>1, <2>2 DEF ObjectInv
  <2>7. \A v \in Uploads : \A known \in BOOLEAN : <<v, known>> \in uploaded' =>
            upload_at'[v] = "done" /\ (v \in erased' \/ blobs'[file'[v].key] = v)
    BY <2>1, <2>2, Zenon DEF ObjectInv
  <2>8. QED
    BY <2>3, <2>5, <2>6, <2>7, Zenon DEF ObjectInv
<1>2. ASSUME NEW u \in Uploads, put_memory(u) \/ put_s3(u) \/ put_gcs(u) \/ put_azure(u)
      PROVE  ObjectInv'
  BY <1>2, PutStep, Zenon DEF put_memory, put_s3, put_gcs, put_azure
<1>3. ASSUME NEW u \in Uploads, NEW f \in Files, upload(u, f)
      PROVE  ObjectInv'
  BY <1>3, UploadStep, Zenon
<1>4. ASSUME NEW k \in Keys, delete_object(k)
      PROVE  ObjectInv'
  <2>1. /\ blobs[k] # Missing /\ Replace(k, Missing) /\ medium' = medium /\ file' = file
        /\ upload_at' = upload_at /\ uploaded' = uploaded
    BY <1>4, Zenon DEF delete_object
  <2>2. /\ blobs' \in [Keys -> Uploads \cup {Missing}] /\ erased' \subseteq Uploads
        /\ erased \subseteq erased' /\ blobs'[k] = Missing
        /\ \A j \in Keys : j # k => blobs'[j] = blobs[j]
        /\ \A v \in Uploads : blobs[k] = v /\ v # Missing => v \in erased'
    BY <2>1, ReplaceEffect, Zenon
  <2>3. ObjectTypeOK'
    BY <1>0, <2>1, <2>2, Zenon DEF ObjectTypeOK
  <2>4. \A j \in Keys : blobs'[j] # Missing =>
            upload_at'[blobs'[j]] \in {"done", "failed"} /\ file'[blobs'[j]].key = j
    BY <2>1, <2>2, Zenon DEF ObjectInv
  <2>5. \A v \in Uploads : \A known \in BOOLEAN : <<v, known>> \in uploaded' =>
            upload_at'[v] = "done" /\ (v \in erased' \/ blobs'[file'[v].key] = v)
    <3> SUFFICES ASSUME NEW v \in Uploads, NEW known \in BOOLEAN, <<v, known>> \in uploaded
                 PROVE  upload_at[v] = "done" /\ (v \in erased' \/ blobs'[file[v].key] = v)
      BY <2>1, Zenon
    <3>1. upload_at[v] = "done" /\ (v \in erased \/ blobs[file[v].key] = v)
      BY Zenon DEF ObjectInv
    <3>2. file[v] \in Files
      BY <3>1, Zenon DEF ObjectInv
    <3>3. file[v].key \in Keys
      BY <3>2, Zenon DEF Files
    <3>4. QED
      BY <2>2, <3>1, <3>3, ObjectsAssumption, Zenon
  <2>6. QED
    BY <2>1, <2>3, <2>4, <2>5, Zenon DEF ObjectInv
<1>5. CASE UNCHANGED object_vars
  <2>1. /\ medium' = medium /\ file' = file /\ upload_at' = upload_at /\ blobs' = blobs
        /\ uploaded' = uploaded /\ erased' = erased
    BY <1>5, Zenon DEF object_vars
  <2>2. QED
    BY <2>1, Zenon DEF ObjectInv, ObjectTypeOK
<1>6. QED
  BY <1>1, <1>2, <1>3, <1>4, <1>5, Zenon DEF ObjectNext, Step

(* For any number of writers, documents, uploads and keys: an edit is lost  *)
(* only to a save that overlapped it, what is reported as uploaded is       *)
(* stored until erased and within the size that was declared, and what a    *)
(* store calls absent is.                                                   *)
THEOREM StoredIsKeptHolds == DocSpec /\ ObjectSpec => []StoredIsKept
<1>1. DocInit => DocInv
  BY Zenon DEF DocInit, DocInv, DocTypeOK, LostOnlyByOverlap, Documents
<1>2. DocInv /\ ObjectInv => StoredIsKept
  <2> SUFFICES ASSUME DocInv, ObjectInv
               PROVE  StoredIsKept
    BY Zenon
  <2>1. blobs \in [Keys -> Uploads \cup {Missing}]
    BY Zenon DEF ObjectInv, ObjectTypeOK
  <2>2. UploadedMeansStored
    BY Zenon DEF ObjectInv, UploadedMeansStored
  <2>3. OversizedOnlyIfMisdeclared
    <3> SUFFICES ASSUME NEW k \in Keys, blobs[k] # Missing, file[blobs[k]].real > max_size
                 PROVE  file[blobs[k]].streamed /\ file[blobs[k]].size_bytes < file[blobs[k]].real
      BY Zenon DEF OversizedOnlyIfMisdeclared
    <3>1. blobs[k] \in Uploads /\ upload_at[blobs[k]] \in {"done", "failed"}
      BY <2>1 DEF ObjectInv
    <3>2. file[blobs[k]] \in Files /\ Declared(file[blobs[k]])
      BY <3>1, Zenon DEF ObjectInv
    <3>3. file[blobs[k]].size_bytes \in Nat /\ file[blobs[k]].real \in Nat
      BY <3>2, ObjectsAssumption DEF Files, Sizes
    <3>4. file[blobs[k]].size_bytes <= max_size
      BY <3>2, Zenon DEF Declared
    <3>5. file[blobs[k]].size_bytes < file[blobs[k]].real /\ file[blobs[k]].size_bytes # file[blobs[k]].real
      BY <3>3, <3>4, ObjectsAssumption
    <3>6. QED
      BY <3>2, <3>5, Zenon DEF Declared
  <2>4. AbsentMeansAbsent
    BY Zenon DEF AbsentMeansAbsent, Errors, get_object, exists, NotThere
  <2>5. QED
    BY <2>2, <2>3, <2>4, Zenon DEF StoredIsKept, StoresTypeOK, DocInv, ObjectInv
<1>3. QED
  BY <1>1, <1>2, DocStep, ObjectStarts, ObjectStep, PTL DEF DocSpec, ObjectSpec
=============================================================================
