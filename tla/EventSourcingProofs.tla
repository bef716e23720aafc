-------------------------- MODULE EventSourcingProofs --------------------------
(***************************************************************************)
(* Proofs about the event store: StoredAsSaved for every number of writers *)
(* and events, and the refinement of the append-only log of EventLog.      *)
(***************************************************************************)
EXTENDS EventStoreSteps, FiniteSetTheorems

(* The size of an interval. *)
LEMMA IntervalSize ==
    ASSUME NEW a \in Nat, NEW n \in Nat
    PROVE  Cardinality((a + 1)..(a + n)) = n /\ Cardinality(1..n) = n
<1>1. Cardinality((a + 1)..(a + n)) = n
  BY FS_Interval
<1>2. Cardinality(1..n) = n
  BY FS_Interval
<1>3. QED
  BY <1>1, <1>2, Zenon

(* The empty sequence has no elements. *)
LEMMA NothingInEmpty == Range(<<>>) = {}
  BY DEF Range

(* Events appended at the end of the stream. *)
LEMMA ExtendAtEnd ==
    ASSUME StreamInv, NEW s \in Seq(Events), stream' = Extend(stream, Count, s)
    PROVE  /\ Count' = Count + Len(s) /\ DOMAIN stream' = 1..(Count + Len(s))
           /\ \A v \in 1..Count : stream'[v] = stream[v]
           /\ \A i \in 1..Len(s) : stream'[Count + i] = s[i]
           /\ Stored(stream') = Stored(stream) \cup Range(s)
<1> DEFINE n == Count
<1>1. n \in Nat /\ DOMAIN stream = 1..n /\ Len(s) \in Nat /\ DOMAIN s = 1..Len(s)
  BY SeqElements, Zenon DEF StreamInv
<1>2. {n + i : i \in DOMAIN s} = (n + 1)..(n + Len(s))
  <2>1. \A x \in (n + 1)..(n + Len(s)) : x - n \in 1..Len(s) /\ x = n + (x - n)
    BY <1>1
  <2>2. \A i \in 1..Len(s) : n + i \in (n + 1)..(n + Len(s))
    BY <1>1
  <2> HIDE DEF n
  <2>3. QED
    BY <1>1, <2>1, <2>2, Zenon
<1>3. stream' = [u \in DOMAIN stream \cup {n + i : i \in DOMAIN s} |->
                    IF u \in DOMAIN stream THEN stream[u] ELSE s[u - n]]
  BY Zenon DEF Extend
<1> HIDE DEF n
<1>4. DOMAIN stream' = 1..(n + Len(s))
  <2>1. 1..n \cup (n + 1)..(n + Len(s)) = 1..(n + Len(s))
    BY <1>1
  <2>2. QED
    BY <1>1, <1>2, <1>3, <2>1, Zenon
<1>5. \A v \in 1..n : stream'[v] = stream[v]
  BY <1>1, <1>3, Zenon
<1>6. \A i \in 1..Len(s) : stream'[n + i] = s[i]
  <2> SUFFICES ASSUME NEW i \in 1..Len(s)
               PROVE  stream'[n + i] = s[i]
    BY Zenon
  <2>1. n + i \in (n + 1)..(n + Len(s)) /\ n + i \notin 1..n /\ n + i - n = i
    BY <1>1
  <2>2. QED
    BY <1>1, <1>2, <1>3, <2>1
<1>7. Cardinality(DOMAIN stream') = n + Len(s)
  BY <1>1, <1>4, IntervalSize
<1>8. Stored(stream') = Stored(stream) \cup Range(s)
  <2>1. Stored(stream') \subseteq Stored(stream) \cup Range(s)
    <3> SUFFICES ASSUME NEW v \in 1..(n + Len(s))
                 PROVE  stream'[v] \in Stored(stream) \cup Range(s)
      BY <1>4, Zenon DEF Stored
    <3>1. CASE v \in 1..n
      BY <1>1, <1>5, <3>1, Zenon DEF Stored
    <3>2. CASE v \notin 1..n
      <4>1. v - n \in 1..Len(s) /\ v = n + (v - n)
        BY <1>1, <3>2
      <4>2. stream'[v] = s[v - n]
        BY <1>6, <4>1, Zenon
      <4>3. QED
        BY <1>1, <4>1, <4>2, Zenon DEF Range
    <3>3. QED
      BY <3>1, <3>2, Zenon
  <2>2. Stored(stream) \subseteq Stored(stream')
    <3>1. \A v \in 1..n : v \in DOMAIN stream' /\ stream'[v] = stream[v]
      BY <1>1, <1>4, <1>5
    <3>2. QED
      BY <1>1, <3>1, Zenon DEF Stored
  <2>3. Range(s) \subseteq Stored(stream')
    <3>1. \A i \in 1..Len(s) : n + i \in DOMAIN stream' /\ stream'[n + i] = s[i]
      BY <1>1, <1>4, <1>6
    <3>2. QED
      BY <1>1, <3>1, Zenon DEF Stored, Range
  <2>4. QED
    BY <2>1, <2>2, <2>3, Zenon
<1>9. QED
  BY <1>4, <1>5, <1>6, <1>7, <1>8, Zenon DEF n, Count

-----------------------------------------------------------------------------
(* The first n events of a batch follow the version it was built on: the   *)
(* history up to any of them is what the batch was built on and the events *)
(* before it.                                                               *)
Placed(w, n) ==
    /\ n \in 1..Len(batch[w]) /\ expected[w] + n = Count'
    /\ \A i \in 1..n : stream'[expected[w] + i] = batch[w][i]

(* With n events of the batch placed, the first expected + k versions hold
   what was there before and the first k events of the batch, k <= n. *)
LEMMA PlacedHistory ==
    ASSUME StoreInv, NEW w \in Writers, Appends(w), expected[w] <= Count,
           NEW n \in Nat, Placed(w, n), NEW k \in 0..n
    PROVE  {stream'[u] : u \in 1..(expected[w] + k)}
               = History(expected[w]) \cup {batch[w][i] : i \in 1..k}
<1> DEFINE x == expected[w]
<1>1. x \in Nat /\ Count \in Nat /\ x <= Count
  BY Zenon DEF StoreInv, TypesInv, StreamInv
<1>2. \A u \in 1..x : u \in 1..Count /\ stream'[u] = stream[u]
  BY <1>1 DEF Appends
<1>3. \A i \in 1..k : stream'[x + i] = batch[w][i]
  BY DEF Placed
<1> HIDE DEF x
<1>4. {stream'[u] : u \in 1..(x + k)} = {stream[u] : u \in 1..x} \cup {batch[w][i] : i \in 1..k}
  <2>1. \A u \in 1..(x + k) : u \in 1..x \/ (u - x \in 1..k /\ u = x + (u - x))
    BY <1>1
  <2>2. {stream'[u] : u \in 1..(x + k)} \subseteq {stream[u] : u \in 1..x} \cup {batch[w][i] : i \in 1..k}
    BY <1>2, <1>3, <2>1
  <2>3. \A u \in 1..x : u \in 1..(x + k)
    BY <1>1
  <2>4. \A i \in 1..k : x + i \in 1..(x + k)
    BY <1>1
  <2>5. {stream[u] : u \in 1..x} \cup {batch[w][i] : i \in 1..k} \subseteq {stream'[u] : u \in 1..(x + k)}
    BY <1>2, <1>3, <2>3, <2>4
  <2>6. QED
    BY <2>2, <2>5, Zenon
<1>5. QED
  BY <1>4, Zenon DEF History, x

(* How a stream grows: by the next events of one batch. *)
Growth(w) ==
    \/ stream' = stream
    \/ /\ pc[w] \in InFlight /\ expected[w] <= Count /\ Appends(w)
       /\ \E n \in Nat : Placed(w, n)

(* What the invariant says of a writer's last call. *)
LEMMA BatchFacts ==
    ASSUME StoreInv, NEW w \in Writers
    PROVE  /\ batch[w] \in Seq(Events) /\ Len(batch[w]) \in Nat /\ expected[w] \in Nat
           /\ version[w] \in Nat /\ Count \in Nat /\ DOMAIN stream = 1..Count
           /\ Range(batch[w]) = {batch[w][i] : i \in 1..Len(batch[w])}
           /\ \A e \in Range(batch[w]) : e[1] = w
           /\ pc[w] \in InFlight =>
                 /\ pending[w] = <<>> /\ Len(batch[w]) # 0 /\ outcome[w] = None
                 /\ version[w] = expected[w] + Len(batch[w])
<1>1. batch[w] \in Seq(Events) /\ expected[w] \in Nat /\ version[w] \in Nat
  BY Zenon DEF StoreInv, TypesInv
<1>2. Len(batch[w]) \in Nat /\ Range(batch[w]) = {batch[w][i] : i \in 1..Len(batch[w])}
  BY <1>1, SeqElements, Zenon
<1>3. Len(batch[w]) = 0 => batch[w] = <<>>
  BY <1>1
<1>4. OwnEvents(w) /\ SaveState(w) /\ StreamInv
  BY Zenon DEF StoreInv, WriterInv
<1>5. QED
  BY <1>1, <1>2, <1>3, <1>4, Zenon DEF OwnEvents, SaveState, StreamInv

(* An append() or a COMMIT that stores the whole batch at the end. *)
LEMMA WholeBatch ==
    ASSUME StoreInv, NEW w \in Writers, pc[w] \in InFlight, expected[w] = Count,
           stream' = Extend(stream, expected[w], batch[w])
    PROVE  Appends(w) /\ Placed(w, Len(batch[w])) /\ Stored(stream') = Stored(stream) \cup Range(batch[w])
<1>1. StreamInv
  BY Zenon DEF StoreInv
<1>2. /\ batch[w] \in Seq(Events) /\ Len(batch[w]) \in Nat /\ Len(batch[w]) # 0
      /\ Count \in Nat
      /\ Range(batch[w]) = {batch[w][i] : i \in 1..Len(batch[w])}
  BY BatchFacts, Zenon
<1>3. /\ Count' = Count + Len(batch[w]) /\ DOMAIN stream' = 1..(Count + Len(batch[w]))
      /\ \A v \in 1..Count : stream'[v] = stream[v]
      /\ \A i \in 1..Len(batch[w]) : stream'[Count + i] = batch[w][i]
      /\ Stored(stream') = Stored(stream) \cup Range(batch[w])
  BY <1>1, <1>2, ExtendAtEnd, Zenon
<1>4. Placed(w, Len(batch[w]))
  BY <1>2, <1>3 DEF Placed
<1>5. \A v \in (Count + 1)..Count' : stream'[v] \in Range(batch[w])
  <2> SUFFICES ASSUME NEW v \in (Count + 1)..Count'
               PROVE  stream'[v] \in Range(batch[w])
    BY Zenon
  <2>1. v - Count \in 1..Len(batch[w]) /\ v = Count + (v - Count)
    BY <1>2, <1>3
  <2>2. stream'[v] = batch[w][v - Count]
    BY <1>3, <2>1, Zenon
  <2>3. QED
    BY <1>2, <2>1, <2>2, Zenon
<1>6. Appends(w)
  BY <1>2, <1>3, <1>5 DEF Appends
<1>7. QED
  BY <1>3, <1>4, <1>6, Zenon

(* A save() that returns once its last event is in place. *)
LEMMA Finished ==
    ASSUME StoreInv, NEW w \in Writers, pc[w] \in InFlight, expected[w] <= Count,
           Appends(w), Placed(w, Len(batch[w])),
           pc'[w] = "ready", outcome'[w] = "saved", DOMAIN session'[w] = {},
           version' = version, pending' = pending, view' = view, raised' = raised,
           batch' = batch, expected' = expected, unsynced' = unsynced, backend' = backend
    PROVE  WriterInv(w)'
<1>1. /\ Len(batch[w]) \in Nat /\ pending[w] = <<>> /\ version[w] = expected[w] + Len(batch[w])
      /\ Range(batch[w]) = {batch[w][i] : i \in 1..Len(batch[w])}
      /\ expected[w] \in Nat /\ version[w] \in Nat
  BY BatchFacts, Zenon
<1>2. OwnEvents(w)'
  <2>1. OwnEvents(w) /\ Range(pending[w]) = {}
    BY <1>1 DEF StoreInv, WriterInv, Range
  <2>2. QED
    BY <2>1, Zenon DEF OwnEvents
<1>3. SaveState(w)' /\ DocumentState(w)' /\ SessionState(w)'
  BY Zenon DEF SaveState, DocumentState, SessionState, InFlight, Failed
<1>4. ViewState(w)'
  <2> SUFFICES ASSUME w \notin unsynced
               PROVE  /\ version[w] - Len(pending[w]) <= Count'
                      /\ view[w] = {stream'[u] : u \in 1..(version[w] - Len(pending[w]))}
                                       \cup Range(pending[w])
    BY Zenon DEF ViewState, InFlight, History
  <2>1. version[w] - Len(pending[w]) = expected[w] + Len(batch[w]) /\ Range(pending[w]) = {}
    BY <1>1 DEF Range
  <2>2. view[w] = History(expected[w]) \cup Range(batch[w])
    BY Zenon DEF StoreInv, WriterInv, ViewState
  <2>3. {stream'[u] : u \in 1..(expected[w] + Len(batch[w]))}
            = History(expected[w]) \cup {batch[w][i] : i \in 1..Len(batch[w])}
    <3>1. Len(batch[w]) \in 0..Len(batch[w])
      <4>1. Len(batch[w]) \in Nat
        BY <1>1, Zenon
      <4>2. QED
        BY <4>1
    <3>2. QED
      BY <1>1, <3>1, PlacedHistory, Zenon
  <2>4. version[w] - Len(pending[w]) <= Count'
    BY <1>1, <2>1 DEF Placed
  <2>5. QED
    BY <1>1, <2>1, <2>2, <2>3, <2>4, Zenon
<1>5. QED
  BY <1>2, <1>3, <1>4, Zenon DEF WriterInv

(* Return() and what surrounds it leave the types as they are. *)
LEMMA ReturnTypes ==
    ASSUME StoreInv, NEW w \in Writers, NEW o \in {"saved"} \cup Failed, Return(w, o),
           UNCHANGED <<backend, agg>>, DOMAIN session' = DOMAIN session,
           \A x \in Writers \ {w} : session'[x] = session[x], unsynced' = unsynced
    PROVE  /\ TypesInv' /\ OnlyMoves(w) /\ pc'[w] = "ready" /\ outcome'[w] = o
           /\ version' = version /\ pending' = pending /\ view' = view /\ raised' = raised
           /\ batch' = batch /\ expected' = expected
<1>1. /\ pc' \in [Writers -> {"new", "ready"} \cup InFlight] /\ outcome' \in [Writers -> {None, "saved"} \cup Failed]
      /\ pc'[w] = "ready" /\ outcome'[w] = o
      /\ \A x \in Writers \ {w} : pc'[x] = pc[x] /\ outcome'[x] = outcome[x]
  BY Zenon DEF Return, Goto, StoreInv, TypesInv
<1>2. /\ version' = version /\ pending' = pending /\ view' = view /\ raised' = raised
      /\ batch' = batch /\ expected' = expected
  BY Zenon DEF Return, agg
<1>3. raised[w] \in Int
  BY DEF StoreInv, TypesInv
<1>4. TypesInv'
  BY <1>1, <1>2, Zenon DEF StoreInv, TypesInv
<1>5. OnlyMoves(w)
  BY <1>1, <1>2, <1>3 DEF OnlyMoves
<1>6. QED
  BY <1>1, <1>2, <1>4, <1>5, Zenon

(* append of the memory store, and the version check of the other two, keep
   the invariant. *)
LEMMA AppendStep ==
    ASSUME StoreInv, NEW w \in Writers, append(w)
    PROVE  StoreInv' /\ Growth(w)
<1>1. /\ pc[w] = "append" /\ pc[w] \in InFlight /\ backend' = backend /\ session' = session
      /\ unsynced' = unsynced /\ DOMAIN session[w] = {}
      /\ UNCHANGED <<backend, agg>>
  BY Quiet, Zenon DEF append, InFlight
<1>2. CASE Count # expected[w]
  <2>1. Return(w, "conflict") /\ stream' = stream
    BY <1>2, Zenon DEF append
  <2>2. /\ TypesInv' /\ OnlyMoves(w) /\ pc'[w] = "ready" /\ outcome'[w] = "conflict"
        /\ version' = version /\ pending' = pending /\ view' = view /\ raised' = raised
        /\ batch' = batch /\ expected' = expected
    BY <1>1, <2>1, ReturnTypes, Zenon DEF Failed
  <2>3. Appends(w) /\ Count' = Count
    BY <2>1, NothingAppended, Zenon
  <2>4. WriterInv(w)'
    <3>1. OwnEvents(w) /\ SaveState(w)
      BY Zenon DEF StoreInv, WriterInv
    <3>2. OwnEvents(w)' /\ SaveState(w)'
      BY <1>1, <2>1, <2>2, <3>1, Zenon DEF OwnEvents, SaveState, InFlight, Atomic
    <3>3. SessionState(w)' /\ DocumentState(w)' /\ ViewState(w)'
      BY <1>1, <2>2, Zenon DEF SessionState, DocumentState, ViewState, InFlight, Failed
    <3>4. QED
      BY <3>2, <3>3, Zenon DEF WriterInv
  <2>5. QED
    BY <1>1, <2>1, <2>2, <2>3, <2>4, WriterStep, Zenon DEF Growth
<1>3. CASE Count = expected[w] /\ backend = "memory"
  <2>1. Return(w, "saved") /\ stream' = Extend(stream, expected[w], batch[w])
    BY <1>3, Zenon DEF append
  <2>2. /\ TypesInv' /\ OnlyMoves(w) /\ pc'[w] = "ready" /\ outcome'[w] = "saved"
        /\ version' = version /\ pending' = pending /\ view' = view /\ raised' = raised
        /\ batch' = batch /\ expected' = expected
    BY <1>1, <2>1, ReturnTypes, Zenon
  <2>3. Appends(w) /\ Placed(w, Len(batch[w]))
    BY <1>1, <1>3, <2>1, WholeBatch, Zenon
  <2>4. expected[w] <= Count /\ Len(batch[w]) \in Nat
    BY <1>3, BatchFacts
  <2>5. WriterInv(w)'
    BY <1>1, <2>2, <2>3, <2>4, Finished, Zenon
  <2>6. \A o \in Writers \ {w} : DOMAIN session[o] = {}
    BY <1>3, Zenon DEF StoreInv, WriterInv, SessionState
  <2>7. QED
    BY <1>1, <2>2, <2>3, <2>4, <2>5, <2>6, WriterStep, Zenon DEF Growth
<1>4. CASE Count = expected[w] /\ backend # "memory"
  <2>1. Goto(w, "insert") /\ stream' = stream /\ batch' = batch /\ expected' = expected /\ outcome' = outcome
    BY <1>4, Zenon DEF append, call
  <2>2. /\ version' = version /\ pending' = pending /\ view' = view /\ raised' = raised
        /\ pc'[w] = "insert" /\ \A o \in Writers \ {w} : pc'[o] = pc[o]
        /\ pc' \in [Writers -> {"new", "ready"} \cup InFlight]
    BY <1>1, <2>1, Zenon DEF agg, Goto, InFlight, StoreInv, TypesInv
  <2>3. raised[w] \in Int
    BY DEF StoreInv, TypesInv
  <2>4. TypesInv' /\ OnlyMoves(w)
    <3>1. TypesInv'
      BY <1>1, <2>1, <2>2, Zenon DEF StoreInv, TypesInv
    <3>2. OnlyMoves(w)
      BY <1>1, <2>1, <2>2, <2>3 DEF OnlyMoves
    <3>3. QED
      BY <3>1, <3>2, Zenon
  <2>5. Appends(w) /\ Count' = Count
    BY <2>1, NothingAppended, Zenon
  <2>6. /\ OwnEvents(w) /\ SaveState(w) /\ ViewState(w)
        /\ Len(batch[w]) \in Nat /\ Len(batch[w]) # 0 /\ expected[w] \in Nat /\ Count \in Nat
    BY <1>1, BatchFacts, Zenon DEF StoreInv, WriterInv
  <2>7. OwnEvents(w)' /\ SaveState(w)' /\ ViewState(w)'
    <3>1. OwnEvents(w)'
      BY <2>1, <2>2, <2>6, Zenon DEF OwnEvents
    <3>2. SaveState(w)'
      BY <1>1, <2>1, <2>2, <2>6, Zenon DEF SaveState, InFlight, Atomic
    <3>3. ViewState(w)'
      BY <1>1, <2>1, <2>2, <2>5, <2>6, Zenon DEF ViewState, InFlight, History
    <3>4. QED
      BY <3>1, <3>2, <3>3, Zenon
  <2>8. SessionState(w)'
    <3>1. (expected[w] + 1)..(expected[w] + 0) = {} /\ 0 < Len(batch[w])
      BY <2>6
    <3>2. QED
      <4>1. /\ pc'[w] = "insert" /\ DOMAIN session'[w] = {} /\ backend' # "memory"
            /\ expected'[w] = expected[w] /\ Len(batch'[w]) = Len(batch[w])
        BY <1>1, <1>4, <2>1, <2>2, Zenon
      <4>2. expected'[w] <= Count'
        BY <1>4, <2>1, <2>5, <2>6
      <4>3. 0 \in Nat /\ 0 < Len(batch'[w]) /\ Rows(w, 0)'
        BY <3>1, <4>1, Zenon DEF Rows
      <4>4. QED
        BY <4>1, <4>2, <4>3, Zenon DEF SessionState
  <2>9. DocumentState(w)'
    <3>1. {v \in DOMAIN stream : stream[v] \in Range(batch[w])} = {}
      BY <1>1, <2>6, Zenon DEF SaveState, Stored
    <3>2. (expected[w] + 1)..(expected[w] + 0) = {} /\ 0 < Len(batch[w]) /\ expected[w] + 0 <= Count
      BY <1>4, <2>6
    <3>3. Inserted(w, 0)'
      BY <2>1, <2>5, <3>1, <3>2 DEF Inserted
    <3>4. QED
      BY <2>1, <3>2, <3>3, Zenon DEF DocumentState
  <2>10. WriterInv(w)'
    BY <2>7, <2>8, <2>9, Zenon DEF WriterInv
  <2>11. QED
    BY <1>1, <2>1, <2>4, <2>5, <2>10, WriterStep, Zenon DEF Growth
<1>5. QED
  BY <1>2, <1>3, <1>4, Zenon

(* The rows of two sessions would begin with the same key. *)
LEMMA OneSession ==
    ASSUME StoreInv, NEW w \in Writers, DOMAIN session[w] # {}
    PROVE  /\ backend = "sql" /\ expected[w] = Count /\ Count + 1 \in DOMAIN session[w]
           /\ \A o \in Writers \ {w} : DOMAIN session[o] = {}
<1>1. /\ SessionState(w) /\ Len(batch[w]) \in Nat /\ expected[w] \in Nat /\ Count \in Nat
  BY BatchFacts, Zenon DEF StoreInv, WriterInv
<1>2. pc[w] \in {"insert", "commit"} /\ backend = "sql"
  BY <1>1, Zenon DEF SessionState
<1>3. PICK m \in Nat : DOMAIN session[w] = (expected[w] + 1)..(expected[w] + m)
  BY <1>1, <1>2, Zenon DEF SessionState, Rows
<1>4. m # 0
  BY <1>1, <1>3
<1>5. expected[w] = Count
  BY <1>1, Zenon DEF SessionState
<1>6. Count + 1 \in DOMAIN session[w]
  BY <1>1, <1>3, <1>4, <1>5
<1>7. QED
  BY <1>1, <1>2, <1>5, <1>6, Zenon DEF SessionState

(* The commit of an SQL session keeps the invariant: all rows or none. *)
LEMMA CommitStep ==
    ASSUME StoreInv, NEW w \in Writers, commit(w)
    PROVE  StoreInv' /\ Growth(w) /\ backend = "sql" /\ expected[w] = Count
<1>1. /\ pc[w] = "commit" /\ pc[w] \in InFlight /\ UNCHANGED <<backend, agg>> /\ backend' = backend
      /\ stream' = Extend(stream, expected[w], batch[w]) /\ Return(w, "saved")
      /\ session' = [session EXCEPT ![w] = <<>>] /\ unsynced' = unsynced
  BY Zenon DEF commit, InFlight
<1>2. /\ DOMAIN session' = DOMAIN session /\ DOMAIN session'[w] = {}
      /\ \A o \in Writers \ {w} : session'[o] = session[o]
  BY <1>1 DEF StoreInv, TypesInv
<1>3. /\ TypesInv' /\ OnlyMoves(w) /\ pc'[w] = "ready" /\ outcome'[w] = "saved"
      /\ version' = version /\ pending' = pending /\ view' = view /\ raised' = raised
      /\ batch' = batch /\ expected' = expected
  BY <1>1, <1>2, ReturnTypes, Zenon
<1>4. Len(batch[w]) \in Nat /\ Len(batch[w]) # 0 /\ expected[w] \in Nat
  BY <1>1, BatchFacts, Zenon
<1>5. DOMAIN session[w] # {}
  <2>1. DOMAIN session[w] = (expected[w] + 1)..(expected[w] + Len(batch[w]))
    BY <1>1, Zenon DEF StoreInv, WriterInv, SessionState, Rows
  <2>2. expected[w] + 1 \in (expected[w] + 1)..(expected[w] + Len(batch[w]))
    BY <1>4
  <2>3. QED
    BY <2>1, <2>2, Zenon
<1>6. /\ backend = "sql" /\ expected[w] = Count
      /\ \A o \in Writers \ {w} : DOMAIN session[o] = {}
  BY <1>5, OneSession, Zenon
<1>7. Appends(w) /\ Placed(w, Len(batch[w])) /\ expected[w] <= Count
  <2>1. expected[w] \in Nat /\ expected[w] = Count
    BY <1>4, <1>6, Zenon
  <2>2. Appends(w) /\ Placed(w, Len(batch[w]))
    BY <1>1, <1>6, WholeBatch, Zenon
  <2>3. QED
    BY <2>1, <2>2
<1>8. WriterInv(w)'
  BY <1>1, <1>2, <1>3, <1>7, Finished, Zenon
<1>9. QED
  BY <1>1, <1>3, <1>4, <1>6, <1>7, <1>8, WriterStep, Zenon DEF Growth

(* A row or a document more. *)
LEMMA OneMoreRow ==
    ASSUME NEW f, NEW a \in Nat, NEW m \in Nat, NEW e, DOMAIN f = (a + 1)..(a + m)
    PROVE  DOMAIN Extend(f, a + m, <<e>>) = (a + 1)..(a + (m + 1))
<1>1. DOMAIN <<e>> = {1}
  OBVIOUS
<1>2. {a + m + i : i \in {1}} = {a + m + 1}
  BY Zenon
<1>3. DOMAIN Extend(f, a + m, <<e>>) = DOMAIN f \cup {a + m + i : i \in DOMAIN <<e>>}
  BY Zenon DEF Extend
<1>4. (a + 1)..(a + m) \cup {a + m + 1} = (a + 1)..(a + (m + 1))
  OBVIOUS
<1>5. QED
  BY <1>1, <1>2, <1>3, <1>4, Zenon

(* An INSERT in an SQL session keeps the invariant: no two sessions hold rows. *)
LEMMA InsertRowStep ==
    ASSUME StoreInv, NEW w \in Writers, insert_row(w)
    PROVE  StoreInv' /\ Growth(w) /\ stream' = stream /\ batch' = batch
<1> DEFINE k == NextRow(w, DOMAIN session[w])
<1>1. /\ pc[w] = "insert" /\ pc[w] \in InFlight /\ UNCHANGED <<backend, agg>> /\ backend' = backend
      /\ backend = "sql" /\ unsynced' = unsynced /\ stream' = stream
      /\ \A o \in Writers \ {w} : k \notin DOMAIN session[o]
  BY Zenon DEF insert_row, InFlight
<1>2. Appends(w) /\ Count' = Count
  BY <1>1, NothingAppended, Zenon
<1>3. /\ Len(batch[w]) \in Nat /\ expected[w] \in Nat /\ Count \in Nat /\ DOMAIN stream = 1..Count
      /\ OwnEvents(w) /\ SaveState(w) /\ SessionState(w) /\ ViewState(w)
  BY BatchFacts, Zenon DEF StoreInv, WriterInv
<1>4. PICK m \in Nat : m < Len(batch[w]) /\ DOMAIN session[w] = (expected[w] + 1)..(expected[w] + m)
  BY <1>1, <1>3, Zenon DEF SessionState, Rows
<1>9. Len(batch[w]) \in Nat /\ expected[w] \in Nat /\ Count \in Nat
  BY <1>3, Zenon
<1>5. k = expected[w] + m + 1
  <2>1. Cardinality(DOMAIN session[w]) = m
    BY <1>4, <1>9, IntervalSize
  <2>2. QED
    BY <2>1, Zenon DEF NextRow
<1>6. CASE k \in DOMAIN stream
  <2>1. Return(w, "integrity_error") /\ session' = [session EXCEPT ![w] = <<>>]
    BY <1>6, Zenon DEF insert_row
  <2>2. /\ DOMAIN session' = DOMAIN session /\ DOMAIN session'[w] = {}
        /\ \A o \in Writers \ {w} : session'[o] = session[o]
    BY <2>1 DEF StoreInv, TypesInv
  <2>3. /\ TypesInv' /\ OnlyMoves(w) /\ pc'[w] = "ready" /\ outcome'[w] = "integrity_error"
        /\ version' = version /\ pending' = pending /\ view' = view /\ raised' = raised
        /\ batch' = batch /\ expected' = expected
    BY <1>1, <2>1, <2>2, ReturnTypes, Zenon DEF Failed
  <2>4. OwnEvents(w)' /\ SaveState(w)'
    BY <1>1, <1>3, <2>3, Zenon DEF OwnEvents, SaveState, InFlight, Atomic
  <2>5. SessionState(w)' /\ DocumentState(w)' /\ ViewState(w)'
    BY <2>2, <2>3, Zenon DEF SessionState, DocumentState, ViewState, InFlight, Failed
  <2>6. WriterInv(w)'
    BY <2>4, <2>5, Zenon DEF WriterInv
  <2>7. QED
    BY <1>1, <1>2, <2>2, <2>3, <2>6, WriterStep, Zenon DEF Growth
<1>7. CASE k \notin DOMAIN stream
  <2> DEFINE e == batch[w][k - expected[w]]
             p == IF k = expected[w] + Len(batch[w]) THEN "commit" ELSE "insert"
  <2>1. /\ session' = [session EXCEPT ![w] = Extend(session[w], k - 1, <<e>>)]
        /\ Goto(w, p) /\ batch' = batch /\ expected' = expected /\ outcome' = outcome
    BY <1>7, Zenon DEF insert_row, call
  <2>2. /\ version' = version /\ pending' = pending /\ view' = view /\ raised' = raised
        /\ pc'[w] = p /\ \A o \in Writers \ {w} : pc'[o] = pc[o] /\ session'[o] = session[o]
        /\ pc' \in [Writers -> {"new", "ready"} \cup InFlight]
        /\ session'[w] = Extend(session[w], k - 1, <<e>>) /\ DOMAIN session' = Writers
    BY <1>1, <2>1, Zenon DEF agg, Goto, InFlight, StoreInv, TypesInv
  <2> HIDE DEF e
  <2>3. k - 1 = expected[w] + m
    <3> HIDE DEF k
    <3>1. QED
      BY <1>5, <1>9
  <2>4. DOMAIN session'[w] = (expected[w] + 1)..(expected[w] + (m + 1))
    <3>1. expected[w] \in Nat /\ session'[w] = Extend(session[w], expected[w] + m, <<e>>)
      BY <1>3, <2>2, <2>3, Zenon
    <3>2. DOMAIN session[w] = (expected[w] + 1)..(expected[w] + m)
      BY <1>4, Zenon
    <3>3. DOMAIN Extend(session[w], expected[w] + m, <<e>>) = (expected[w] + 1)..(expected[w] + (m + 1))
      <4> DEFINE a == expected[w]
                 f == session[w]
      <4>1. a \in Nat /\ DOMAIN f = (a + 1)..(a + m)
        BY <3>1, <3>2, Zenon
      <4> HIDE DEF a, f
      <4>2. DOMAIN Extend(f, a + m, <<e>>) = (a + 1)..(a + (m + 1))
        BY <4>1, OneMoreRow
      <4>3. QED
        BY <4>2, Zenon DEF a, f
    <3>4. QED
      BY <3>1, <3>3, Zenon
  <2>5. expected[w] = Count /\ \A o \in Writers \ {w} : DOMAIN session[o] = {}
    <3>1. CASE m = 0
      <4>1. expected[w] <= Count /\ k = expected[w] + 1
        <5>1. expected[w] <= Count
          BY <1>1, <1>3, Zenon DEF SessionState
        <5> HIDE DEF k
        <5>2. QED
          BY <1>5, <1>9, <3>1, <5>1
      <4>2. expected[w] = Count /\ k = Count + 1
        <5>1. k \notin 1..Count
          BY <1>3, <1>7, Zenon
        <5> HIDE DEF k
        <5>2. QED
          BY <1>9, <4>1, <5>1
      <4>3. ASSUME NEW o \in Writers \ {w}, DOMAIN session[o] # {}
            PROVE  FALSE
        BY <1>1, <4>2, <4>3, OneSession, Zenon
      <4>4. QED
        BY <4>2, <4>3, Zenon
    <3>2. CASE m # 0
      <4>1. expected[w] + 1 \in DOMAIN session[w]
        BY <1>3, <1>4, <3>2
      <4>2. QED
        BY <4>1, OneSession, Zenon
    <3>3. QED
      BY <3>1, <3>2, Zenon
  <2>6. raised[w] \in Int
    BY DEF StoreInv, TypesInv
  <2>7. TypesInv' /\ OnlyMoves(w)
    <3>1. TypesInv'
      BY <1>1, <2>1, <2>2, Zenon DEF StoreInv, TypesInv
    <3>2. OnlyMoves(w)
      BY <1>1, <2>1, <2>2, <2>6 DEF OnlyMoves
    <3>3. QED
      BY <3>1, <3>2, Zenon
  <2>8. OwnEvents(w)' /\ SaveState(w)' /\ ViewState(w)' /\ DocumentState(w)'
    <3>1. OwnEvents(w)'
      BY <1>1, <1>3, <2>1, <2>2, Zenon DEF OwnEvents
    <3>2. SaveState(w)'
      BY <1>1, <1>3, <2>1, <2>2, Zenon DEF SaveState, InFlight, Atomic
    <3>3. ViewState(w)'
      <4>1. w \notin unsynced => expected[w] <= Count /\ view[w] = History(expected[w]) \cup Range(batch[w])
        BY <1>1, <1>3, Zenon DEF ViewState
      <4>2. /\ pc'[w] # "ready" /\ unsynced' = unsynced /\ expected'[w] = expected[w] /\ stream' = stream
            /\ view'[w] = view[w] /\ batch'[w] = batch[w] /\ Count' = Count
        BY <1>1, <1>2, <2>1, <2>2, Zenon
      <4>3. QED
        BY <4>1, <4>2, Zenon DEF ViewState, History, Range
    <3>4. DocumentState(w)'
      BY <1>1, Zenon DEF DocumentState
    <3>5. QED
      BY <3>1, <3>2, <3>3, <3>4, Zenon
  <2>9. SessionState(w)'
    <3>1. p = "commit" => Rows(w, Len(batch[w]))'
      BY <1>3, <1>4, <1>5, <2>1, <2>4 DEF Rows
    <3>2. p = "insert" => m + 1 < Len(batch[w]) /\ Rows(w, m + 1)'
      <4>1. p = "insert" => m + 1 < Len(batch[w])
        <5>1. p = "insert" => k # expected[w] + Len(batch[w])
          BY Zenon
        <5>2. m < Len(batch[w])
          BY <1>4, Zenon
        <5> HIDE DEF k, p
        <5>3. QED
          BY <1>5, <1>9, <5>1, <5>2
      <4>2. Rows(w, m + 1)'
        BY <2>1, <2>4, Zenon DEF Rows
      <4>3. QED
        BY <4>1, <4>2, Zenon
    <3>3. m + 1 \in Nat /\ p \in {"commit", "insert"}
      OBVIOUS
    <3>4. pc'[w] = "insert" => \E n \in Nat : n < Len(batch'[w]) /\ Rows(w, n)'
      BY <2>1, <2>2, <3>2, <3>3, Zenon
    <3>5. \A o \in Writers \ {w} : DOMAIN session'[o] = {}
      BY <2>2, <2>5, Zenon
    <3>6. expected'[w] = Count' /\ expected'[w] <= Count'
      BY <1>2, <1>3, <2>1, <2>5
    <3>7. QED
      BY <1>1, <2>1, <2>2, <3>1, <3>3, <3>4, <3>5, <3>6, Zenon DEF SessionState
  <2>10. WriterInv(w)'
    BY <2>8, <2>9, Zenon DEF WriterInv
  <2>11. StoreInv'
    BY <1>2, <2>5, <2>7, <2>10, WriterStep, Zenon
  <2>12. QED
    BY <1>1, <2>1, <2>11, Zenon DEF Growth
<1>8. QED
  BY <1>6, <1>7, Zenon

(* An insert of MongoDB keeps the invariant: it is stored at once. *)
LEMMA InsertDocumentStep ==
    ASSUME StoreInv, NEW w \in Writers, insert_document(w)
    PROVE  StoreInv' /\ Growth(w) /\ ~Atomic
<1> DEFINE mine == {v \in DOMAIN stream : stream[v] \in Range(batch[w])}
           k == NextRow(w, mine)
<1>1. /\ pc[w] = "insert" /\ pc[w] \in InFlight /\ UNCHANGED <<backend, agg>> /\ backend' = backend
      /\ backend = "mongo" /\ unsynced' = unsynced /\ session' = session
  BY Zenon DEF insert_document, InFlight
<1>2. /\ batch[w] \in Seq(Events) /\ Len(batch[w]) \in Nat /\ expected[w] \in Nat
      /\ Count \in Nat /\ DOMAIN stream = 1..Count
      /\ Range(batch[w]) = {batch[w][i] : i \in 1..Len(batch[w])}
      /\ OwnEvents(w) /\ SaveState(w) /\ SessionState(w) /\ ViewState(w) /\ DocumentState(w) /\ StreamInv
  BY BatchFacts, Zenon DEF StoreInv, WriterInv
<1>3. \A o \in Writers : DOMAIN session[o] = {}
  BY <1>1, Zenon DEF StoreInv, WriterInv, SessionState
<1>4. PICK m \in Nat : m < Len(batch[w]) /\ Inserted(w, m)
  BY <1>1, <1>2, Zenon DEF DocumentState
<1>5. /\ expected[w] + m <= Count /\ mine = (expected[w] + 1)..(expected[w] + m)
      /\ \A i \in 1..m : stream[expected[w] + i] = batch[w][i]
  BY <1>4, Zenon DEF Inserted
<1>6. k = expected[w] + m + 1
  <2>1. Cardinality(mine) = m
    <3>1. expected[w] \in Nat
      BY <1>2, Zenon
    <3>2. Cardinality((expected[w] + 1)..(expected[w] + m)) = m
      BY <3>1, IntervalSize, Zenon
    <3>3. QED
      BY <1>5, <3>2, Zenon
  <2>2. QED
    BY <2>1, Zenon DEF NextRow
<1>7. ~Atomic
  BY <1>1, Zenon DEF Atomic
<1>11. /\ Len(batch[w]) \in Nat /\ expected[w] \in Nat /\ Count \in Nat
       /\ m < Len(batch[w]) /\ expected[w] + m <= Count
  BY <1>2, <1>4, <1>5, Zenon
<1>8. CASE k \in DOMAIN stream
  <2>1. Return(w, "conflict") /\ stream' = stream
    BY <1>8, Zenon DEF insert_document
  <2>2. /\ TypesInv' /\ OnlyMoves(w) /\ pc'[w] = "ready" /\ outcome'[w] = "conflict"
        /\ version' = version /\ pending' = pending /\ view' = view /\ raised' = raised
        /\ batch' = batch /\ expected' = expected
    BY <1>1, <2>1, ReturnTypes, Zenon DEF Failed
  <2>3. Appends(w) /\ Count' = Count
    BY <2>1, NothingAppended, Zenon
  <2>4. OwnEvents(w)' /\ SaveState(w)'
    BY <1>1, <1>2, <2>1, <2>2, Zenon DEF OwnEvents, SaveState, InFlight, Atomic
  <2>5. SessionState(w)' /\ DocumentState(w)' /\ ViewState(w)'
    BY <1>1, <1>3, <2>2, Zenon DEF SessionState, DocumentState, ViewState, InFlight, Failed
  <2>6. WriterInv(w)'
    BY <2>4, <2>5, Zenon DEF WriterInv
  <2>7. QED
    BY <1>1, <1>3, <1>7, <2>1, <2>2, <2>3, <2>6, WriterStep, Zenon DEF Growth
<1>9. CASE k \notin DOMAIN stream
  <2> DEFINE e == batch[w][k - expected[w]]
  <2>1. /\ stream' = Extend(stream, k - 1, <<e>>)
        /\ IF k = expected[w] + Len(batch[w]) THEN Return(w, "saved") ELSE UNCHANGED <<pc, call>>
    BY <1>9, Zenon DEF insert_document
  <2>2. k - 1 = Count /\ expected[w] + m = Count /\ k - expected[w] = m + 1 /\ m + 1 \in 1..Len(batch[w])
    <3>1. k \notin 1..Count
      BY <1>2, <1>9, Zenon
    <3> HIDE DEF k
    <3>2. QED
      BY <1>6, <1>11, <3>1
  <2>3. e = batch[w][m + 1] /\ e \in Range(batch[w]) /\ e \in Events
    BY <1>2, <2>2, SeqElements, Zenon
  <2> HIDE DEF e
  <2>4. <<e>> \in Seq(Events) /\ Len(<<e>>) = 1 /\ <<e>>[1] = e
    BY <2>3
  <2>5. stream' = Extend(stream, Count, <<e>>)
    BY <2>1, <2>2, Zenon
  <2>6. /\ Count' = Count + 1 /\ DOMAIN stream' = 1..(Count + 1)
        /\ \A v \in 1..Count : stream'[v] = stream[v]
        /\ stream'[Count + 1] = e
        /\ Stored(stream') = Stored(stream) \cup Range(<<e>>)
    <3>1. /\ Count' = Count + Len(<<e>>) /\ DOMAIN stream' = 1..(Count + Len(<<e>>))
          /\ \A v \in 1..Count : stream'[v] = stream[v]
          /\ \A i \in 1..Len(<<e>>) : stream'[Count + i] = <<e>>[i]
          /\ Stored(stream') = Stored(stream) \cup Range(<<e>>)
      BY <1>2, <2>4, <2>5, ExtendAtEnd, Zenon
    <3>2. QED
      <4>1. 1 \in 1..Len(<<e>>)
        BY <2>4
      <4>2. stream'[Count + 1] = e
        BY <2>4, <3>1, <4>1, Zenon
      <4>3. QED
        BY <2>4, <3>1, <4>2, Zenon
  <2>7. Appends(w)
    <3>1. Count + 1 \in Nat /\ Count <= Count + 1 /\ (Count + 1)..(Count + 1) = {Count + 1}
      BY <1>11
    <3>2. QED
      BY <2>3, <2>6, <3>1, Zenon DEF Appends
  <2>8. Placed(w, m + 1)
    <3>1. expected[w] + (m + 1) = Count'
      <4>1. Count' = Count + 1 /\ expected[w] + m = Count
        BY <2>2, <2>6, Zenon
      <4>2. QED
        BY <1>11, <4>1
    <3>2. ASSUME NEW i \in 1..(m + 1)
          PROVE  stream'[expected[w] + i] = batch[w][i]
      <4>1. CASE i = m + 1
        <5>1. expected[w] + i = Count + 1
          <6>1. expected[w] + m = Count
            BY <2>2, Zenon
          <6>2. QED
            BY <1>11, <4>1, <6>1
        <5>2. QED
          BY <2>3, <2>6, <4>1, <5>1, Zenon
      <4>2. CASE i \in 1..m
        <5>1. expected[w] + i \in 1..Count
          <6>1. expected[w] + m = Count
            BY <2>2, Zenon
          <6>2. QED
            BY <1>11, <4>2, <6>1
        <5>2. QED
          BY <1>5, <2>6, <4>2, <5>1, Zenon
      <4>3. QED
        <5>1. i = m + 1 \/ i \in 1..m
          OBVIOUS
        <5>2. QED
          BY <4>1, <4>2, <5>1, Zenon
    <3>3. QED
      BY <2>2, <3>1, <3>2, Zenon DEF Placed
  <2>9. expected[w] <= Count /\ m + 1 \in Nat
    BY <1>11
  <2>10. Growth(w)
    BY <1>1, <2>7, <2>8, <2>9, Zenon DEF Growth
  <2>11. CASE k = expected[w] + Len(batch[w])
    <3>1. Return(w, "saved") /\ m + 1 = Len(batch[w])
      <4>1. Return(w, "saved")
        BY <2>1, <2>11, Zenon
      <4> HIDE DEF k
      <4>2. m + 1 = Len(batch[w])
        BY <1>6, <1>11, <2>11
      <4>3. QED
        BY <4>1, <4>2, Zenon
    <3>2. /\ TypesInv' /\ OnlyMoves(w) /\ pc'[w] = "ready" /\ outcome'[w] = "saved"
          /\ version' = version /\ pending' = pending /\ view' = view /\ raised' = raised
          /\ batch' = batch /\ expected' = expected
      BY <1>1, <3>1, ReturnTypes, Zenon
    <3>3. Placed(w, Len(batch[w])) /\ DOMAIN session'[w] = {}
      BY <1>1, <1>3, <2>8, <3>1, Zenon
    <3>4. WriterInv(w)'
      BY <1>1, <2>7, <2>9, <3>2, <3>3, Finished, Zenon
    <3>5. QED
      BY <1>3, <1>7, <2>7, <2>10, <3>2, <3>4, WriterStep
  <2>12. CASE k # expected[w] + Len(batch[w])
    <3>1. /\ pc' = pc /\ batch' = batch /\ expected' = expected /\ outcome' = outcome
          /\ version' = version /\ pending' = pending /\ view' = view /\ raised' = raised
      BY <1>1, <2>1, <2>12, Zenon DEF call, agg
    <3>2. m + 1 < Len(batch[w])
      <4> HIDE DEF k
      <4>1. QED
        BY <1>6, <1>11, <2>12
    <3>3. raised[w] \in Int
      BY DEF StoreInv, TypesInv
    <3>4. TypesInv' /\ OnlyMoves(w)
      <4>1. TypesInv'
        BY <1>1, <3>1, Zenon DEF StoreInv, TypesInv
      <4>2. OnlyMoves(w)
        BY <1>1, <3>1, <3>3 DEF OnlyMoves
      <4>3. QED
        BY <4>1, <4>2, Zenon
    <3>5. OwnEvents(w)' /\ SaveState(w)'
      <4>1. pending[w] = <<>>
        BY <1>1, <1>2, Zenon DEF SaveState
      <4>2. QED
        <5>1. OwnEvents(w) /\ SaveState(w) /\ Range(pending[w]) = {}
          BY <1>2, <4>1, NothingInEmpty, Zenon
        <5>2. OwnEvents(w)'
          BY <3>1, <5>1, Zenon DEF OwnEvents
        <5>3. SaveState(w)'
          BY <1>1, <3>1, <5>1, Zenon DEF SaveState, Atomic
        <5>4. QED
          BY <5>2, <5>3, Zenon
    <3>6. SessionState(w)'
      <4>1. SessionState(w) /\ DOMAIN session'[w] = {}
        BY <1>1, <1>2, <1>3, Zenon
      <4>2. expected[w] <= Count'
        <5>1. Count' = Count + 1
          BY <2>6, Zenon
        <5>2. QED
          BY <1>11, <2>9, <5>1
      <4>3. QED
        BY <1>1, <3>1, <4>1, <4>2, Zenon DEF SessionState
    <3>7. ViewState(w)'
      <4>1. \A u \in 1..expected[w] : stream'[u] = stream[u]
        <5>1. \A u \in 1..expected[w] : u \in 1..Count
          BY <1>11, <2>9
        <5>2. QED
          BY <2>6, <5>1, Zenon
      <4>2. expected[w] <= Count'
        <5>1. Count' = Count + 1
          BY <2>6, Zenon
        <5>2. QED
          BY <1>11, <2>9, <5>1
      <4>3. History(expected[w]) = {stream'[u] : u \in 1..expected[w]}
        BY <4>1, Zenon DEF History
      <4>4. QED
        BY <1>1, <1>2, <3>1, <4>2, <4>3 DEF ViewState, History
    <3>8. DocumentState(w)'
      <4>1. {v \in DOMAIN stream' : stream'[v] \in Range(batch[w])} = (expected[w] + 1)..(expected[w] + (m + 1))
        <5>1. {v \in DOMAIN stream' : stream'[v] \in Range(batch[w])} = mine \cup {Count + 1}
          <6>1. \A v \in 1..(Count + 1) : v \in 1..Count \/ v = Count + 1
            BY <1>11
          <6>2. \A v \in 1..Count : v \in 1..(Count + 1)
            BY <1>11
          <6>3. Count + 1 \in 1..(Count + 1)
            BY <1>2
          <6>4. QED
            BY <1>2, <2>3, <2>6, <6>1, <6>2, <6>3
        <5>2. (expected[w] + 1)..(expected[w] + m) \cup {expected[w] + m + 1}
                  = (expected[w] + 1)..(expected[w] + (m + 1))
          BY <1>2
        <5>3. QED
          BY <1>5, <2>2, <5>1, <5>2, Zenon
      <4>2. Inserted(w, m + 1)'
        <5>1. /\ expected[w] + (m + 1) = Count'
              /\ \A i \in 1..(m + 1) : stream'[expected[w] + i] = batch[w][i]
          BY <2>8, Zenon DEF Placed
        <5>2. expected'[w] = expected[w] /\ batch'[w] = batch[w]
          BY <3>1, Zenon
        <5>3. expected[w] + (m + 1) <= Count'
          <6>1. expected[w] + (m + 1) = Count' /\ expected[w] \in Nat
            BY <1>11, <5>1, Zenon
          <6>2. QED
            BY <6>1
        <5>4. QED
          BY <4>1, <5>1, <5>2, <5>3, Zenon DEF Inserted
      <4>3. QED
        BY <2>9, <3>1, <3>2, <4>2, Zenon DEF DocumentState
    <3>9. WriterInv(w)'
      BY <3>5, <3>6, <3>7, <3>8, Zenon DEF WriterInv
    <3>10. QED
      BY <1>3, <1>7, <2>7, <2>10, <3>4, <3>9, WriterStep, Zenon
  <2>13. QED
    BY <2>11, <2>12, Zenon
<1>10. QED
  BY <1>8, <1>9, Zenon

-----------------------------------------------------------------------------
(* The empty store satisfies the invariant. *)
LEMMA StoreInitInv == Init => StoreInv
<1> SUFFICES ASSUME Init
             PROVE  StoreInv
  BY Zenon
<1>1. DOMAIN stream = {} /\ Count = 0
  BY FS_EmptySet DEF Init, Count
<1>2. TypesInv
  BY EventSourcingAssumption DEF Init, TypesInv
<1>3. StreamInv
  BY <1>1 DEF StreamInv
<1>4. ASSUME NEW w \in Writers
      PROVE  WriterInv(w)
  BY <1>1, EventSourcingAssumption, Zenon
  DEF Init, WriterInv, OwnEvents, SaveState, SessionState, DocumentState, ViewState, InFlight, Failed, Range
<1>5. QED
  BY <1>2, <1>3, <1>4, Zenon DEF StoreInv

(* Every step keeps the invariant, and lets the stream grow only by the     *)
(* next events of one batch.                                                *)
LEMMA StoreStep ==
    ASSUME StoreInv, NEW w \in Writers,
           load(w) \/ raise_event(w) \/ save(w) \/ save_nothing(w) \/ append(w)
              \/ insert_row(w) \/ commit(w) \/ insert_document(w) \/ crash(w)
    PROVE  StoreInv' /\ Growth(w)
<1>1. CASE load(w) \/ raise_event(w) \/ save(w) \/ save_nothing(w) \/ crash(w)
  <2>1. StoreInv'
    BY <1>1, LoadStep, RaiseStep, SaveStep, SaveNothingStep, CrashStep, Zenon
  <2>2. stream' = stream
    BY <1>1, Zenon DEF load, raise_event, save, save_nothing, crash
  <2>3. QED
    BY <2>1, <2>2, Zenon DEF Growth
<1>2. QED
  BY <1>1, AppendStep, InsertRowStep, CommitStep, InsertDocumentStep, Zenon

(* A step that changes nothing keeps the invariant. *)
LEMMA StoreStutters == StoreInv /\ UNCHANGED vars => StoreInv'
<1> SUFFICES ASSUME StoreInv, UNCHANGED vars
             PROVE  StoreInv'
  BY Zenon
<1>1. /\ backend' = backend /\ stream' = stream /\ session' = session /\ pc' = pc
      /\ version' = version /\ pending' = pending /\ view' = view /\ raised' = raised
      /\ batch' = batch /\ expected' = expected /\ outcome' = outcome /\ unsynced' = unsynced
  BY Zenon DEF vars, agg, call
<1>2. Count' = Count
  BY <1>1, Zenon DEF Count
<1>3. TypesInv' /\ StreamInv'
  BY <1>1, <1>2, Zenon DEF StoreInv, TypesInv, StreamInv
<1>4. ASSUME NEW w \in Writers
      PROVE  WriterInv(w)'
  <2>1. OwnEvents(w) /\ SaveState(w) /\ SessionState(w) /\ DocumentState(w) /\ ViewState(w)
    BY Zenon DEF StoreInv, WriterInv
  <2>2. OwnEvents(w)' /\ SaveState(w)'
    BY <1>1, <2>1, Zenon DEF OwnEvents, SaveState, Atomic
  <2>3. SessionState(w)'
    BY <1>1, <1>2, <2>1, Zenon DEF SessionState, Rows
  <2>4. DocumentState(w)'
    BY <1>1, <1>2, <2>1, Zenon DEF DocumentState, Inserted
  <2>5. ViewState(w)'
    BY <1>1, <1>2, <2>1 DEF ViewState, History
  <2>6. QED
    BY <2>2, <2>3, <2>4, <2>5, Zenon DEF WriterInv
<1>5. QED
  BY <1>3, <1>4, Zenon DEF StoreInv

(* The invariant of the event store, in every reachable state. *)
THEOREM StoreInvariant == Spec => []StoreInv
<1>1. StoreInv /\ [Next]_vars => StoreInv'
  BY StoreStep, StoreStutters, Zenon DEF Next
<1>2. QED
  BY <1>1, StoreInitInv, PTL DEF Spec

(* The events that a step stores were built on the history below them. *)
LEMMA GrowthIsFresh ==
    ASSUME StoreInv, NEW w \in Writers, Growth(w), NEW v \in DOMAIN stream' \ DOMAIN stream,
           stream'[v][1] \notin unsynced
    PROVE  {stream'[u] : u \in 1..(v - 1)}
               \cup {batch[stream'[v][1]][j] :
                        j \in (v - expected[stream'[v][1]])..Len(batch[stream'[v][1]])}
             = view[stream'[v][1]]
<1>1. pc[w] \in InFlight /\ expected[w] <= Count /\ Appends(w)
  BY Zenon DEF Growth
<1>2. PICK n \in Nat : Placed(w, n)
  BY Zenon DEF Growth
<1>3. /\ Len(batch[w]) \in Nat /\ expected[w] \in Nat /\ Count \in Nat /\ DOMAIN stream = 1..Count
      /\ Range(batch[w]) = {batch[w][i] : i \in 1..Len(batch[w])}
      /\ \A e \in Range(batch[w]) : e[1] = w
  BY BatchFacts, Zenon
<1>4. /\ n \in 1..Len(batch[w]) /\ expected[w] + n = Count'
      /\ \A i \in 1..n : stream'[expected[w] + i] = batch[w][i]
  BY <1>2, Zenon DEF Placed
<1>5. v \in (Count + 1)..Count' /\ Count' \in Nat
  BY <1>1, <1>3 DEF Appends
<1> DEFINE k == v - expected[w]
<1>6. k \in 1..n /\ v = expected[w] + k /\ k - 1 \in 0..n /\ v - 1 = expected[w] + (k - 1)
  <2>1. /\ expected[w] \in Nat /\ Count \in Nat /\ expected[w] <= Count
        /\ expected[w] + n = Count' /\ v \in (Count + 1)..Count' /\ Count' \in Nat
    BY <1>1, <1>3, <1>4, <1>5, Zenon
  <2>2. QED
    BY <2>1
<1>7. stream'[v][1] = w
  <2>1. stream'[v] = batch[w][k] /\ k \in 1..Len(batch[w])
    <3> HIDE DEF k
    <3>1. n \in 1..Len(batch[w]) /\ Len(batch[w]) \in Nat /\ k \in 1..n
      BY <1>3, <1>4, <1>6, Zenon
    <3>2. k \in 1..Len(batch[w])
      BY <3>1
    <3>3. stream'[expected[w] + k] = batch[w][k]
      BY <1>4, <1>6, Zenon
    <3>4. QED
      BY <1>6, <3>2, <3>3, Zenon
  <2> HIDE DEF k
  <2>2. QED
    BY <1>3, <2>1, Zenon
<1>8. view[w] = History(expected[w]) \cup Range(batch[w])
  BY <1>1, <1>7, Zenon DEF StoreInv, WriterInv, ViewState
<1> HIDE DEF k
<1>9. {stream'[u] : u \in 1..(expected[w] + (k - 1))}
          = History(expected[w]) \cup {batch[w][i] : i \in 1..(k - 1)}
  BY <1>1, <1>2, <1>6, PlacedHistory, Zenon
<1>10. Range(batch[w]) = {batch[w][i] : i \in 1..(k - 1)} \cup {batch[w][j] : j \in k..Len(batch[w])}
  <2>1. k \in Nat /\ k \in 1..Len(batch[w])
    BY <1>3, <1>4, <1>6
  <2>2. 1..Len(batch[w]) = 1..(k - 1) \cup k..Len(batch[w])
    BY <1>3, <2>1
  <2>3. QED
    BY <1>3, <2>2, Zenon
<1>11. {stream'[u] : u \in 1..(v - 1)} \cup {batch[w][j] : j \in k..Len(batch[w])} = view[w]
  BY <1>6, <1>8, <1>9, <1>10, Zenon
<1>12. QED
  BY <1>7, <1>11, Zenon DEF k

(* The event store of the application keeps its promises, whatever the     *)
(* backend and however many writers: versions without gaps, a save() that  *)
(* returned is stored as a whole, one that raised stored nothing (memory   *)
(* and SQL), and no event is stored on a history its aggregate has not     *)
(* seen.                                                                    *)
THEOREM StoredAsSavedHolds == Spec => StoredAsSaved
<1>1. StoreInv => GapFree
  BY Zenon DEF StoreInv, StreamInv, GapFree
<1>2. StoreInv => SavedMeansStored
  <2> SUFFICES ASSUME StoreInv, NEW w \in Writers \ unsynced, outcome[w] = "saved", pending[w] = <<>>
               PROVE  view[w] \subseteq Stored(stream)
    BY Zenon DEF SavedMeansStored
  <2>1. SaveState(w) /\ ViewState(w) /\ Count \in Nat /\ DOMAIN stream = 1..Count /\ version[w] \in Nat
    BY BatchFacts, Zenon DEF StoreInv, WriterInv
  <2>2. pc[w] = "ready"
    <3>1. pc[w] \in {"new", "ready"} \cup InFlight /\ None # "saved"
      BY EventSourcingAssumption, Zenon DEF StoreInv, TypesInv
    <3>2. QED
      BY <2>1, <3>1, Zenon DEF SaveState
  <2>3. version[w] - Len(pending[w]) = version[w] /\ Range(pending[w]) = {}
    <3>1. version[w] \in Nat
      BY <2>1, Zenon
    <3>2. QED
      BY <3>1 DEF Range
  <2>4. version[w] <= Count /\ view[w] = History(version[w])
    BY <2>1, <2>2, <2>3, Zenon DEF ViewState, Failed
  <2>5. \A u \in 1..version[w] : u \in 1..Count
    <3>1. version[w] \in Nat /\ Count \in Nat /\ version[w] <= Count
      BY <2>1, <2>4, Zenon
    <3>2. QED
      BY <3>1
  <2>6. QED
    BY <2>1, <2>4, <2>5, Zenon DEF History, Stored
<1>3. StoreInv => FailureStoresNothing
  BY Zenon DEF StoreInv, WriterInv, SaveState, FailureStoresNothing, Failed, Atomic
<1>4. StoreInv /\ [Next]_vars =>
        [\A v \in DOMAIN stream' \ DOMAIN stream :
            LET w == stream'[v][1]
                k == v - expected[w]
            IN  w \notin unsynced =>
                   {stream'[u] : u \in 1..(v - 1)} \cup {batch[w][j] : j \in k..Len(batch[w])}
                      = view[w]]_vars
  <2> SUFFICES ASSUME StoreInv, Next, NEW v \in DOMAIN stream' \ DOMAIN stream,
                      stream'[v][1] \notin unsynced
               PROVE  {stream'[u] : u \in 1..(v - 1)}
                          \cup {batch[stream'[v][1]][j] :
                                   j \in (v - expected[stream'[v][1]])..Len(batch[stream'[v][1]])}
                        = view[stream'[v][1]]
    BY Zenon
  <2>1. PICK w \in Writers : Growth(w)
    BY StoreStep, Zenon DEF Next
  <2>2. QED
    BY <2>1, GrowthIsFresh, Zenon
<1>5. QED
  BY <1>1, <1>2, <1>3, <1>4, StoreInvariant, PTL DEF Spec, StoredAsSaved, NoStaleAppend

-----------------------------------------------------------------------------
(* The refinement: the log is the stream, and what a writer proposes is its *)
(* batch.                                                                   *)
AtomicLog == IF Atomic THEN [v \in 1..Count |-> stream[v]] ELSE <<>>
AtomicProposals == IF Atomic THEN batch ELSE [w \in Writers |-> <<>>]

(* The abstract log is a function of the backend and the stream. *)
LEMMA LogUnchanged ==
    ASSUME backend' = backend, stream' = stream
    PROVE  AtomicLog' = AtomicLog
<1>1. Count' = Count
  BY Zenon DEF Count
<1>2. QED
  BY <1>1, Zenon DEF AtomicLog, Atomic

(* The whole batch at the end of the stream is the batch at the end of the  *)
(* log.                                                                     *)
LEMMA LogGrows ==
    ASSUME StoreInv, NEW w \in Writers, pc[w] \in InFlight, expected[w] = Count, Atomic,
           backend' = backend, stream' = Extend(stream, expected[w], batch[w])
    PROVE  AtomicLog' = AtomicLog \o batch[w]
<1> DEFINE log == [v \in 1..Count |-> stream[v]]
           b == batch[w]
           after == [v \in 1..Count' |-> stream'[v]]
<1>1. /\ b \in Seq(Events) /\ Len(b) \in Nat /\ Count \in Nat /\ StreamInv
  BY BatchFacts, Zenon DEF StoreInv
<1>2. /\ Count' = Count + Len(b)
      /\ \A v \in 1..Count : stream'[v] = stream[v]
      /\ \A i \in 1..Len(b) : stream'[Count + i] = b[i]
  BY <1>1, ExtendAtEnd, Zenon
<1>3. log \in Seq(Events) /\ Len(log) = Count
  <2>1. log \in [1..Count -> Events]
    BY <1>1, Zenon DEF StreamInv
  <2>2. QED
    BY <1>1, <2>1, FunctionIsSeq
<1>4. /\ AtomicLog = log /\ AtomicLog' = after
  BY Zenon DEF AtomicLog, Atomic
<1>5. /\ log \o b \in Seq(Events) /\ Len(log \o b) = Count + Len(b)
      /\ DOMAIN (log \o b) = 1..(Count + Len(b))
  BY <1>1, <1>3, OneAfterTheOther
<1>6. \A v \in 1..(Count + Len(b)) : (log \o b)[v] = IF v <= Count THEN log[v] ELSE b[v - Count]
  <2> HIDE DEF log, b
  <2>1. QED
    BY <1>1, <1>3
<1>7. \A v \in 1..(Count + Len(b)) : (log \o b)[v] = stream'[v]
  <2> SUFFICES ASSUME NEW v \in 1..(Count + Len(b))
               PROVE  (log \o b)[v] = stream'[v]
    BY Zenon
  <2>1. CASE v \in 1..Count
    <3>1. log[v] = stream[v] /\ v <= Count
      BY <1>1, <2>1
    <3> HIDE DEF log, b
    <3>2. QED
      BY <1>2, <1>6, <2>1, <3>1, Zenon
  <2>2. CASE v \notin 1..Count
    <3> HIDE DEF log, b
    <3>1. v - Count \in 1..Len(b) /\ v = Count + (v - Count) /\ ~(v <= Count)
      BY <1>1, <2>2
    <3>2. QED
      BY <1>2, <1>6, <3>1, Zenon
  <2>3. QED
    BY <2>1, <2>2, Zenon
<1>8. after = log \o b
  <2>1. after = [v \in 1..(Count + Len(b)) |-> stream'[v]]
    BY <1>2, Zenon
  <2> HIDE DEF after, log, b
  <2>2. log \o b \in [1..(Count + Len(b)) -> Events]
    BY <1>5, SeqIsFunction, Zenon
  <2>3. QED
    BY <1>7, <2>1, <2>2, Zenon
<1>9. QED
  BY <1>4, <1>8, Zenon

(* Every step of a writer is a step of the log, or changes nothing of it. *)
LEMMA StepOfLog ==
    ASSUME StoreInv, StoreInv', [Next]_vars
    PROVE  [Log!Next]_<<AtomicLog, AtomicProposals>>
<1>1. CASE UNCHANGED vars
  <2>1. backend' = backend /\ stream' = stream /\ batch' = batch
    BY <1>1, Zenon DEF vars, call
  <2>2. AtomicLog' = AtomicLog /\ AtomicProposals' = AtomicProposals
    BY <2>1, LogUnchanged, Zenon DEF AtomicProposals, Atomic
  <2>3. QED
    BY <2>2, Zenon
<1>2. CASE Next
  <2>1. PICK w \in Writers :
            load(w) \/ raise_event(w) \/ save(w) \/ save_nothing(w) \/ append(w)
              \/ insert_row(w) \/ commit(w) \/ insert_document(w) \/ crash(w)
    BY <1>2, Zenon DEF Next
  <2>2. backend' = backend
    BY <2>1, Zenon DEF load, raise_event, save, save_nothing, append, insert_row, commit, insert_document, crash
  <2>3. CASE ~Atomic
    BY <2>2, <2>3, Zenon DEF AtomicLog, AtomicProposals, Atomic
  <2>4. CASE Atomic /\ stream' = stream /\ batch' = batch
    BY <2>2, <2>4, LogUnchanged, Zenon DEF AtomicProposals, Atomic
  <2>5. CASE Atomic /\ (save(w) \/ crash(w))
    <3>1. stream' = stream /\ batch' = [batch EXCEPT ![w] = batch'[w]] /\ batch'[w] \in Seq(Events)
      <4>1. stream' = stream
        BY <2>5, Zenon DEF save, crash
      <4>2. batch \in [Writers -> Seq(Events)] /\ batch' \in [Writers -> Seq(Events)]
        BY Zenon DEF StoreInv, TypesInv
      <4>3. batch' = [batch EXCEPT ![w] = batch'[w]]
        BY <2>5, <4>2, Zenon DEF save, crash
      <4>4. QED
        BY <4>1, <4>2, <4>3, Zenon
    <3>2. AtomicLog' = AtomicLog /\ AtomicProposals = batch /\ AtomicProposals' = batch'
      BY <2>2, <2>5, <3>1, LogUnchanged, Zenon DEF AtomicProposals, Atomic
    <3>3. Log!Propose(w)
      BY <3>1, <3>2, Zenon DEF Log!Propose, AtomicLog, AtomicProposals
    <3>4. QED
      BY <3>3, Zenon DEF Log!Next
  <2>6. CASE /\ Atomic /\ pc[w] \in InFlight /\ expected[w] = Count /\ batch' = batch
             /\ stream' = Extend(stream, expected[w], batch[w])
    <3>1. AtomicLog' = AtomicLog \o batch[w]
      BY <2>2, <2>6, LogGrows, Zenon
    <3>2. AtomicProposals = batch /\ AtomicProposals' = AtomicProposals
      BY <2>2, <2>6, Zenon DEF AtomicProposals, Atomic
    <3>3. Range(batch[w]) \cap Range(AtomicLog) = {}
      <4>1. Range(batch[w]) \cap Stored(stream) = {}
        BY <2>6, Zenon DEF StoreInv, WriterInv, SaveState
      <4>2. Range(AtomicLog) = Stored(stream)
        BY <2>6, Zenon DEF AtomicLog, Range, Stored, StoreInv, StreamInv
      <4>3. QED
        BY <4>1, <4>2, Zenon
    <3>4. Log!Append_(w)
      <4>1. /\ Range(AtomicProposals[w]) \cap Range(AtomicLog) = {}
            /\ AtomicLog' = AtomicLog \o AtomicProposals[w]
            /\ AtomicProposals' = AtomicProposals
        BY <3>1, <3>2, <3>3, Zenon
      <4>2. QED
        BY <4>1, Zenon DEF Log!Append_, Log!Range, Range, AtomicLog, AtomicProposals
    <3>5. QED
      BY <3>4, Zenon DEF Log!Next
  <2>7. CASE load(w) \/ raise_event(w) \/ save_nothing(w)
    BY <2>3, <2>4, <2>7, Zenon DEF load, raise_event, save_nothing, Return, call
  <2>8. CASE append(w)
    <3>1. pc[w] \in InFlight
      BY <2>8, Zenon DEF append, InFlight
    <3>2. batch' = batch
      BY <2>8, Zenon DEF append, Return, call
    <3>3. stream' = stream \/ (expected[w] = Count /\ stream' = Extend(stream, expected[w], batch[w]))
      BY <2>8, Zenon DEF append
    <3>4. QED
      BY <2>3, <2>4, <2>6, <3>1, <3>2, <3>3, Zenon
  <2>9. CASE insert_row(w)
    BY <2>3, <2>4, <2>9, InsertRowStep, Zenon
  <2>10. CASE commit(w)
    <3>1. expected[w] = Count
      BY <2>10, CommitStep, Zenon
    <3>2. pc[w] \in InFlight /\ batch' = batch /\ stream' = Extend(stream, expected[w], batch[w])
      BY <2>10, Zenon DEF commit, InFlight, Return
    <3>3. QED
      BY <2>3, <2>6, <3>1, <3>2, Zenon
  <2>11. CASE insert_document(w)
    BY <2>3, <2>11, InsertDocumentStep, Zenon
  <2>12. QED
    BY <2>1, <2>3, <2>5, <2>7, <2>8, <2>9, <2>10, <2>11
<1>3. QED
  BY <1>1, <1>2, Zenon

(* The in-memory and the SQL event store implement the append-only log of   *)
(* EventLog: each save adds all its events at once, in order, at most once. *)
THEOREM ImplementsEventLogHolds == Spec => ImplementsEventLog
<1>1. Init => Log!Init
  <2> SUFFICES ASSUME Init
               PROVE  Log!Init
    BY Zenon
  <2>1. Count = 0
    BY FS_EmptySet DEF Init, Count
  <2>2. [v \in 1..Count |-> stream[v]] = <<>>
    BY <2>1
  <2>3. batch = [w \in Writers |-> <<>>]
    BY Zenon DEF Init
  <2>4. QED
    BY <2>2, <2>3, Zenon DEF Log!Init
<1>2. StoreInv /\ StoreInv' /\ [Next]_vars => [Log!Next]_<<AtomicLog, AtomicProposals>>
  BY StepOfLog, Zenon
<1>3. QED
  BY <1>1, <1>2, StoreInvariant, PTL
  DEF Spec, ImplementsEventLog, Log!Spec, AtomicLog, AtomicProposals

=============================================================================
