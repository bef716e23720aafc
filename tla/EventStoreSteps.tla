---------------------------- MODULE EventStoreSteps ----------------------------
(***************************************************************************)
(* The invariant of the event store, and the steps of a writer that do not *)
(* touch the stream: loading, raising events, beginning a save, going away. *)
(***************************************************************************)
EXTENDS EventSourcing, TLAPS

Failed == {"conflict", "integrity_error"}
InFlight == {"append", "insert", "commit"}

TypesInv ==
    /\ backend \in {"memory", "sql", "mongo"}
    /\ pending \in [Writers -> Seq(Events)] /\ batch \in [Writers -> Seq(Events)]
    /\ raised \in [Writers -> 0..MaxEvents]
    /\ version \in [Writers -> Nat] /\ expected \in [Writers -> Nat]
    /\ view \in [Writers -> SUBSET Events] /\ DOMAIN session = Writers
    /\ pc \in [Writers -> {"new", "ready"} \cup InFlight]
    /\ outcome \in [Writers -> {None, "saved"} \cup Failed]
    /\ \A w \in Writers : Len(pending[w]) <= version[w]

(* The stream has no gap, and its events have been raised. *)
StreamInv ==
    /\ Count \in Nat /\ DOMAIN stream = 1..Count
    /\ \A v \in 1..Count : stream[v] \in Events /\ stream[v][2] <= raised[stream[v][1]]

(* What a writer holds are events of its own; those it has not yet asked to *)
(* store are not stored.                                                    *)
OwnEvents(w) ==
    /\ \A e \in Range(pending[w]) \cup Range(batch[w]) : e[1] = w /\ e[2] <= raised[w]
    /\ Range(pending[w]) \cap Stored(stream) = {}

(* A save that is under way, or failed, in a store with atomic appends has  *)
(* stored nothing.                                                          *)
SaveState(w) ==
    /\ pc[w] \in InFlight =>
          /\ pending[w] = <<>> /\ batch[w] # <<>> /\ outcome[w] = None
          /\ version[w] = expected[w] + Len(batch[w])
    /\ pc[w] = "new" => outcome[w] = None
    /\ pc[w] = "append" \/ (Atomic /\ (pc[w] \in InFlight \/ outcome[w] \in Failed)) =>
          Range(batch[w]) \cap Stored(stream) = {}

(* Uncommitted rows: the first of them is the one after the last committed, *)
(* which is why no two sessions have any.                                   *)
Rows(w, m) == DOMAIN session[w] = (expected[w] + 1)..(expected[w] + m)

SessionState(w) ==
    /\ pc[w] \in {"insert", "commit"} => backend # "memory" /\ expected[w] <= Count
    /\ pc[w] = "commit" => backend = "sql" /\ Rows(w, Len(batch[w]))
    /\ pc[w] = "insert" /\ backend = "sql" => \E m \in Nat : m < Len(batch[w]) /\ Rows(w, m)
    /\ pc[w] \notin {"insert", "commit"} \/ backend # "sql" => DOMAIN session[w] = {}
    /\ DOMAIN session[w] # {} =>
          expected[w] = Count /\ \A o \in Writers \ {w} : DOMAIN session[o] = {}

(* The documents of an insert_many() that has come as far as the m-th. *)
Inserted(w, m) ==
    /\ expected[w] + m <= Count
    /\ {v \in DOMAIN stream : stream[v] \in Range(batch[w])} = (expected[w] + 1)..(expected[w] + m)
    /\ \A i \in 1..m : stream[expected[w] + i] = batch[w][i]

DocumentState(w) ==
    backend = "mongo" /\ pc[w] = "insert" => \E m \in Nat : m < Len(batch[w]) /\ Inserted(w, m)

(* The aggregate of a caller that reloads after a failure: the stored       *)
(* events it was built from, and those it has not stored yet.               *)
History(v) == {stream[u] : u \in 1..v}

ViewState(w) ==
    w \notin unsynced =>
        /\ pc[w] = "ready" /\ outcome[w] \notin Failed =>
              /\ version[w] - Len(pending[w]) <= Count
              /\ view[w] = History(version[w] - Len(pending[w])) \cup Range(pending[w])
        /\ pc[w] \in InFlight =>
              /\ expected[w] <= Count
              /\ view[w] = History(expected[w]) \cup Range(batch[w])

WriterInv(w) == OwnEvents(w) /\ SaveState(w) /\ SessionState(w) /\ DocumentState(w) /\ ViewState(w)

StoreInv == TypesInv /\ StreamInv /\ \A w \in Writers : WriterInv(w)

-----------------------------------------------------------------------------
(* A step of one writer leaves what the others hold alone ... *)
OnlyMoves(w) ==
    /\ backend' = backend
    /\ raised[w] <= raised'[w]
    /\ \A o \in Writers \ {w} :
          /\ pc'[o] = pc[o] /\ session'[o] = session[o] /\ version'[o] = version[o]
          /\ pending'[o] = pending[o] /\ view'[o] = view[o] /\ raised'[o] = raised[o]
          /\ batch'[o] = batch[o] /\ expected'[o] = expected[o] /\ outcome'[o] = outcome[o]
          /\ o \in unsynced' <=> o \in unsynced

(* ... and at most adds events of its batch to the end of the stream. *)
Appends(w) ==
    /\ Count' \in Nat /\ Count <= Count' /\ DOMAIN stream' = 1..Count'
    /\ \A v \in 1..Count : stream'[v] = stream[v]
    /\ \A v \in (Count + 1)..Count' : stream'[v] \in Range(batch[w])

(* Sequences as functions on an interval: what the later steps cite. *)
LEMMA SeqIsFunction ==
    ASSUME NEW S, NEW s \in Seq(S)
    PROVE  /\ Len(s) \in Nat /\ DOMAIN s = 1..Len(s) /\ s \in [1..Len(s) -> S]
           /\ \A i \in 1..Len(s) : s[i] \in S
  OBVIOUS

(* A function on an interval from 1 is a sequence. *)
LEMMA FunctionIsSeq ==
    ASSUME NEW S, NEW n \in Nat, NEW f \in [1..n -> S]
    PROVE  f \in Seq(S) /\ Len(f) = n
  OBVIOUS

(* Two sequences one after the other. *)
LEMMA OneAfterTheOther ==
    ASSUME NEW S, NEW s \in Seq(S), NEW t \in Seq(S)
    PROVE  /\ s \o t \in Seq(S) /\ Len(s \o t) = Len(s) + Len(t)
           /\ DOMAIN (s \o t) = 1..(Len(s) + Len(t))
           /\ \A v \in 1..(Len(s) + Len(t)) :
                 (s \o t)[v] = IF v <= Len(s) THEN s[v] ELSE t[v - Len(s)]
  OBVIOUS

(* The elements of a sequence of events. *)
LEMMA SeqElements ==
    ASSUME NEW S, NEW s \in Seq(S)
    PROVE  /\ Len(s) \in Nat /\ DOMAIN s = 1..Len(s)
           /\ Range(s) = {s[i] : i \in 1..Len(s)}
           /\ \A i \in 1..Len(s) : s[i] \in S /\ s[i] \in Range(s)
           /\ Range(s) \subseteq S
<1>1. Len(s) \in Nat /\ DOMAIN s = 1..Len(s)
  BY SeqIsFunction, Zenon
<1>2. Range(s) = {s[i] : i \in 1..Len(s)}
  BY <1>1, Zenon DEF Range
<1>3. \A i \in 1..Len(s) : s[i] \in S
  BY SeqIsFunction, Zenon
<1>4. QED
  BY <1>1, <1>2, <1>3, Zenon

(* What the others rely on when the stream grows. *)
LEMMA OthersKept ==
    ASSUME StoreInv, NEW w \in Writers, OnlyMoves(w), Appends(w), NEW o \in Writers \ {w},
           \A e \in Range(batch[w]) : e[1] = w,
           DOMAIN session[o] # {} => Count' = Count /\ DOMAIN session'[w] = {}
    PROVE  WriterInv(o)'
<1>1. /\ pc'[o] = pc[o] /\ session'[o] = session[o] /\ version'[o] = version[o]
      /\ pending'[o] = pending[o] /\ view'[o] = view[o] /\ raised'[o] = raised[o]
      /\ batch'[o] = batch[o] /\ expected'[o] = expected[o] /\ outcome'[o] = outcome[o]
      /\ o \in unsynced' <=> o \in unsynced
      /\ backend' = backend
  BY Zenon DEF OnlyMoves
<1>2. /\ OwnEvents(o) /\ SaveState(o) /\ SessionState(o) /\ DocumentState(o) /\ ViewState(o)
      /\ Count \in Nat /\ DOMAIN stream = 1..Count
  BY Zenon DEF StoreInv, WriterInv, StreamInv
<1>3. \A v \in DOMAIN stream' : IF v \in DOMAIN stream THEN stream'[v] = stream[v]
                                ELSE stream'[v] \in Range(batch[w])
  BY <1>2 DEF Appends
<1>4. \A e : e[1] = o /\ e \in Stored(stream') => e \in Stored(stream)
  BY <1>3, Zenon DEF Stored
<1>5. OwnEvents(o)'
  BY <1>1, <1>2, <1>4, Zenon DEF OwnEvents
<1>6. SaveState(o)'
  BY <1>1, <1>2, <1>4, Zenon DEF SaveState, OwnEvents, Atomic
<1>7. SessionState(o)'
  <2>1. Count' \in Nat /\ Count <= Count'
    BY Zenon DEF Appends
  <2>2. expected[o] \in Nat
    BY Zenon DEF StoreInv, TypesInv
  <2>3. DOMAIN session'[o] # {} =>
          expected'[o] = Count' /\ \A x \in Writers \ {o} : DOMAIN session'[x] = {}
    BY <1>1, <1>2, Zenon DEF SessionState, OnlyMoves
  <2>4. QED
    BY <1>1, <1>2, <2>1, <2>2, <2>3 DEF SessionState, Rows
<1>8. DocumentState(o)'
  <2> SUFFICES ASSUME backend = "mongo", pc[o] = "insert"
               PROVE  \E m \in Nat : m < Len(batch[o]) /\ Inserted(o, m)'
    BY <1>1, Zenon DEF DocumentState
  <2>1. PICK m \in Nat : m < Len(batch[o]) /\ Inserted(o, m)
    BY <1>2, Zenon DEF DocumentState
  <2>2. {v \in DOMAIN stream' : stream'[v] \in Range(batch[o])}
            = {v \in DOMAIN stream : stream[v] \in Range(batch[o])}
    <3>1. DOMAIN stream \subseteq DOMAIN stream'
      BY <1>2 DEF Appends
    <3>2. \A v \in DOMAIN stream' : stream'[v] \in Range(batch[o]) => v \in DOMAIN stream
      BY <1>2, <1>3 DEF OwnEvents
    <3>3. QED
      BY <1>3, <3>1, <3>2, Zenon
  <2>3. \A i \in 1..m : stream'[expected[o] + i] = batch[o][i]
    <3>1. expected[o] \in Nat
      BY Zenon DEF StoreInv, TypesInv
    <3>2. \A i \in 1..m : expected[o] + i \in 1..Count
      BY <1>2, <2>1, <3>1 DEF Inserted
    <3>3. QED
      BY <2>1, <3>2, Zenon DEF Inserted, Appends
  <2>4. expected[o] + m <= Count'
    <3>1. expected[o] \in Nat
      BY Zenon DEF StoreInv, TypesInv
    <3>2. QED
      BY <1>2, <2>1, <3>1 DEF Inserted, Appends
  <2>5. Inserted(o, m)'
    BY <1>1, <2>1, <2>2, <2>3, <2>4, Zenon DEF Inserted
  <2>6. QED
    BY <2>1, <2>5, Zenon
<1>9. ViewState(o)'
  <2>1. \A x \in Int : x <= Count => History(x)' = History(x)
    BY <1>2 DEF History, Appends
  <2>2. /\ expected[o] \in Nat /\ version[o] \in Nat /\ Len(pending[o]) \in Nat
        /\ Count' \in Nat /\ Count <= Count'
    BY SeqIsFunction, Zenon DEF StoreInv, TypesInv, Appends
  <2>3. QED
    BY <1>1, <1>2, <2>1, <2>2 DEF ViewState
<1>10. QED
  BY <1>5, <1>6, <1>7, <1>8, <1>9, Zenon DEF WriterInv

(* A stream that grew at its end by a writer's own events is still gap-free,
   and holds no event twice. *)
LEMMA StreamKept ==
    ASSUME StoreInv, NEW w \in Writers, OnlyMoves(w), Appends(w), TypesInv'
    PROVE  StreamInv'
<1>1. \A v \in 1..Count : stream'[v] \in Events /\ stream'[v][2] <= raised[stream'[v][1]]
  BY Zenon DEF StoreInv, StreamInv, Appends
<1>2. \A e \in Events : e[1] \in Writers
  BY Zenon DEF Events
<1>3. \A o \in Writers : raised[o] \in Nat /\ raised'[o] \in Nat /\ raised[o] <= raised'[o]
  <2> SUFFICES ASSUME NEW o \in Writers
               PROVE  raised[o] \in Nat /\ raised'[o] \in Nat /\ raised[o] <= raised'[o]
    BY Zenon
  <2>1. raised[o] \in 0..MaxEvents /\ raised'[o] \in 0..MaxEvents
    BY Zenon DEF StoreInv, TypesInv
  <2>2. raised[o] \in Nat /\ raised'[o] \in Nat
    BY <2>1, EventSourcingAssumption
  <2>3. o = w \/ raised'[o] = raised[o]
    BY Zenon DEF OnlyMoves
  <2>4. QED
    BY <2>2, <2>3 DEF OnlyMoves
<1>4. \A v \in (Count + 1)..Count' : stream'[v] \in Events /\ stream'[v][2] <= raised[stream'[v][1]]
  <2>1. \A e \in Range(batch[w]) : e[1] = w /\ e[2] <= raised[w] /\ e \in Events
    BY SeqElements, Zenon DEF StoreInv, WriterInv, OwnEvents, TypesInv
  <2>2. QED
    BY <2>1, Zenon DEF Appends
<1>5. \A e \in Events : e[2] \in Nat
  BY EventSourcingAssumption DEF Events
<1>6. \A v \in 1..Count' : stream'[v] \in Events /\ stream'[v][2] <= raised'[stream'[v][1]]
  <2> SUFFICES ASSUME NEW v \in 1..Count'
               PROVE  stream'[v] \in Events /\ stream'[v][2] <= raised'[stream'[v][1]]
    BY Zenon
  <2>1. v \in 1..Count \/ v \in (Count + 1)..Count'
    BY DEF StoreInv, StreamInv, Appends
  <2>2. stream'[v] \in Events /\ stream'[v][2] <= raised[stream'[v][1]]
    BY <1>1, <1>4, <2>1, Zenon
  <2>3. QED
    BY <1>2, <1>3, <1>5, <2>2
<1>7. QED
  BY <1>6, Zenon DEF StreamInv, Appends

(* A writer's step keeps the invariant when it keeps the writer's own part. *)
LEMMA WriterStep ==
    ASSUME StoreInv, NEW w \in Writers, OnlyMoves(w), Appends(w), TypesInv', WriterInv(w)',
           \A o \in Writers \ {w} :
               DOMAIN session[o] # {} => Count' = Count /\ DOMAIN session'[w] = {}
    PROVE  StoreInv'
<1>1. \A e \in Range(batch[w]) : e[1] = w
  BY Zenon DEF StoreInv, WriterInv, OwnEvents
<1>2. \A o \in Writers \ {w} : WriterInv(o)'
  BY <1>1, OthersKept, Zenon
<1>3. StreamInv'
  BY StreamKept, Zenon
<1>4. QED
  BY <1>2, <1>3, Zenon DEF StoreInv

(* A stream that did not change grew by nothing. *)
LEMMA NothingAppended ==
    ASSUME StoreInv, NEW w \in Writers, stream' = stream
    PROVE  Appends(w) /\ Count' = Count
<1>1. Count' = Count
  BY Zenon DEF Count
<1>2. QED
  BY <1>1 DEF Appends, StoreInv, StreamInv

(* Where a writer without a call under way stands. *)
LEMMA Quiet ==
    ASSUME StoreInv, NEW w \in Writers, pc[w] \in {"new", "ready", "append"}
    PROVE  DOMAIN session[w] = {}
  BY Zenon DEF StoreInv, WriterInv, SessionState

(* load keeps the invariant: the aggregate is the stored history. *)
LEMMA LoadStep ==
    ASSUME StoreInv, NEW w \in Writers, load(w)
    PROVE  StoreInv'
<1> USE DEF StoreInv
<1>1. /\ stream' = stream /\ session' = session /\ batch' = batch /\ backend' = backend
      /\ raised' = raised /\ expected' = expected
      /\ version'[w] = Count /\ pending'[w] = <<>> /\ view'[w] = Stored(stream)
      /\ outcome'[w] = None /\ pc'[w] = "ready"
  BY Zenon DEF load, Goto, TypesInv
<1>2. OnlyMoves(w)
  <2>1. raised[w] \in Int
    BY EventSourcingAssumption DEF TypesInv
  <2>2. QED
    BY <1>1, <2>1 DEF load, Goto, OnlyMoves, TypesInv
<1>3. Appends(w) /\ Count' = Count
  BY <1>1, NothingAppended, Zenon
<1>4. Stored(stream) \subseteq Events
  BY Zenon DEF StreamInv, Stored
<1>5. TypesInv'
  <2>1. /\ version' \in [Writers -> Nat] /\ pending' \in [Writers -> Seq(Events)]
        /\ view' \in [Writers -> SUBSET Events]
    BY <1>4 DEF load, TypesInv, StreamInv
  <2>2. pc' \in [Writers -> {"new", "ready"} \cup InFlight] /\ outcome' \in [Writers -> {None, "saved"} \cup Failed]
    BY Zenon DEF load, Goto, TypesInv
  <2>3. \A o \in Writers : Len(pending'[o]) <= version'[o]
    BY <1>1 DEF load, TypesInv, StreamInv
  <2>4. QED
    BY <1>1, <2>1, <2>2, <2>3, Zenon DEF TypesInv
<1>6. DOMAIN session[w] = {}
  BY Quiet, Zenon DEF load
<1>7. WriterInv(w)'
  <2>1. OwnEvents(w)'
    BY <1>1 DEF WriterInv, OwnEvents, Range
  <2>2. SaveState(w)' /\ DocumentState(w)'
    BY <1>1, EventSourcingAssumption, Zenon DEF SaveState, DocumentState, InFlight, Failed
  <2>3. SessionState(w)'
    BY <1>1, <1>6, Zenon DEF SessionState
  <2>4. ViewState(w)'
    <3>1. History(Count)' = Stored(stream)
      BY <1>1, <1>3, Zenon DEF History, Stored, StreamInv
    <3>2. Count - Len(<<>>) = Count /\ Range(<<>>) = {}
      BY DEF StreamInv, Range
    <3>3. QED
      BY <1>1, <1>3, <3>1, <3>2 DEF ViewState, InFlight, StreamInv
  <2>5. QED
    BY <2>1, <2>2, <2>3, <2>4, Zenon DEF WriterInv
<1>8. QED
  BY <1>1, <1>2, <1>3, <1>5, <1>6, <1>7, WriterStep, Zenon

(* An event added to a sequence. *)
LEMMA AppendElement ==
    ASSUME NEW S, NEW s \in Seq(S), NEW e \in S
    PROVE  /\ Append(s, e) \in Seq(S) /\ Len(Append(s, e)) = Len(s) + 1
           /\ Range(Append(s, e)) = Range(s) \cup {e}
<1>1. /\ Len(s) \in Nat /\ DOMAIN s = 1..Len(s)
      /\ DOMAIN Append(s, e) = 1..(Len(s) + 1)
      /\ \A i \in 1..Len(s) : Append(s, e)[i] = s[i]
      /\ Append(s, e)[Len(s) + 1] = e
      /\ Append(s, e) \in Seq(S) /\ Len(Append(s, e)) = Len(s) + 1
  BY SeqElements
<1>2. Range(Append(s, e)) \subseteq Range(s) \cup {e}
  <2>1. \A i \in 1..(Len(s) + 1) : i \in 1..Len(s) \/ i = Len(s) + 1
    BY <1>1
  <2>2. QED
    BY <1>1, <2>1, Zenon DEF Range
<1>3. Range(s) \cup {e} \subseteq Range(Append(s, e))
  <2>1. \A i \in 1..Len(s) : i \in 1..(Len(s) + 1)
    BY <1>1
  <2>2. Len(s) + 1 \in 1..(Len(s) + 1)
    BY <1>1
  <2>3. QED
    BY <1>1, <2>1, <2>2, Zenon DEF Range
<1>4. QED
  BY <1>1, <1>2, <1>3, Zenon

(* An event is a writer's, and numbered. *)
LEMMA EventParts ==
    ASSUME NEW e \in Events
    PROVE  e[1] \in Writers /\ e[2] \in Nat
<1>1. PICK w \in Writers, n \in 1..MaxEvents : e = <<w, n>>
  BY DEF Events
<1>2. n \in Nat
  OBVIOUS
<1>3. QED
  BY <1>1, <1>2, Zenon

(* _raise_event keeps the invariant: the new event is on no one's list yet. *)
LEMMA RaiseStep ==
    ASSUME StoreInv, NEW w \in Writers, raise_event(w)
    PROVE  StoreInv'
<1> DEFINE e == <<w, raised[w] + 1>>
<1>1. /\ stream' = stream /\ session' = session /\ batch' = batch /\ backend' = backend
      /\ expected' = expected /\ pc' = pc /\ outcome' = outcome /\ pc[w] = "ready"
      /\ version'[w] = version[w] + 1 /\ pending'[w] = Append(pending[w], e)
      /\ view'[w] = view[w] \cup {e} /\ raised'[w] = raised[w] + 1
      /\ raised[w] \in Nat /\ raised[w] < MaxEvents
      /\ version[w] \in Nat /\ pending[w] \in Seq(Events)
  BY EventSourcingAssumption DEF StoreInv, raise_event, call, TypesInv
<1>2. e \in Events
  <2>1. MaxEvents \in Nat
    BY EventSourcingAssumption, Zenon
  <2>2. raised[w] + 1 \in 1..MaxEvents
    <3>1. raised[w] \in Nat /\ raised[w] < MaxEvents
      BY <1>1, Zenon
    <3>2. QED
      BY <2>1, <3>1
  <2>3. QED
    BY <2>2, Zenon DEF Events
<1>10. /\ e[1] = w /\ e[2] = raised[w] + 1
      /\ pending' = [pending EXCEPT ![w] = Append(pending[w], e)]
      /\ view' = [view EXCEPT ![w] = view[w] \cup {e}]
  BY Zenon DEF raise_event
<1> HIDE DEF e
<1>3. /\ pending'[w] \in Seq(Events) /\ Len(pending'[w]) = Len(pending[w]) + 1
      /\ Range(pending'[w]) = Range(pending[w]) \cup {e} /\ Len(pending[w]) \in Nat
  <2>1. /\ Append(pending[w], e) \in Seq(Events)
        /\ Len(Append(pending[w], e)) = Len(pending[w]) + 1
        /\ Range(Append(pending[w], e)) = Range(pending[w]) \cup {e}
    BY <1>1, <1>2, AppendElement
  <2>2. Len(pending[w]) \in Nat
    BY <1>1, SeqIsFunction, Zenon
  <2>3. QED
    BY <1>1, <2>1, <2>2, Zenon
<1>4. OnlyMoves(w)
  <2>1. \A o \in Writers \ {w} :
          /\ version'[o] = version[o] /\ pending'[o] = pending[o]
          /\ view'[o] = view[o] /\ raised'[o] = raised[o]
    BY <1>1, <1>10, Zenon DEF raise_event, StoreInv, TypesInv
  <2>2. \A o \in Writers \ {w} : o \in unsynced' <=> o \in unsynced
    BY Zenon DEF raise_event, GoOn
  <2>3. QED
    BY <1>1, <2>1, <2>2 DEF OnlyMoves
<1>5. Appends(w) /\ Count' = Count
  BY <1>1, NothingAppended, Zenon
<1>6. TypesInv'
  <2>1. /\ version' \in [Writers -> Nat] /\ pending' \in [Writers -> Seq(Events)]
        /\ view' \in [Writers -> SUBSET Events]
    <3>1. version' = [version EXCEPT ![w] = version[w] + 1]
      BY Zenon DEF raise_event
    <3>2. QED
      BY <1>1, <1>10, <1>2, <1>3, <3>1 DEF StoreInv, TypesInv
  <2>2. raised' \in [Writers -> 0..MaxEvents]
    <3>1. MaxEvents \in Nat
      BY EventSourcingAssumption, Zenon
    <3>2. raised[w] + 1 \in 0..MaxEvents
      BY <1>1, <3>1
    <3>3. QED
      BY <3>2, Zenon DEF raise_event, StoreInv, TypesInv
  <2>3. \A o \in Writers : Len(pending'[o]) <= version'[o]
    BY <1>1, <1>3 DEF raise_event, StoreInv, TypesInv
  <2>4. QED
    BY <1>1, <2>1, <2>2, <2>3, Zenon DEF StoreInv, TypesInv
<1>7. DOMAIN session[w] = {}
  BY <1>1, Quiet, Zenon
<1>8. WriterInv(w)'
  <2>1. e \notin Stored(stream)
    <3> SUFFICES ASSUME NEW v \in 1..Count, stream[v] = e
                 PROVE  FALSE
      BY Zenon DEF StoreInv, StreamInv, Stored
    <3>1. stream[v][2] <= raised[stream[v][1]]
      BY Zenon DEF StoreInv, StreamInv
    <3>2. QED
      BY <1>1, <1>10, <3>1
  <2>2. OwnEvents(w)'
    <3>1. /\ \A x \in Range(pending[w]) \cup Range(batch[w]) : x[1] = w /\ x[2] <= raised[w]
          /\ Range(pending[w]) \cap Stored(stream) = {}
      BY Zenon DEF StoreInv, WriterInv, OwnEvents
    <3>2. \A x \in Range(pending[w]) \cup Range(batch[w]) : x \in Events /\ x[2] \in Nat
      <4>1. Range(pending[w]) \subseteq Events /\ Range(batch[w]) \subseteq Events
        BY SeqElements, Zenon DEF StoreInv, TypesInv
      <4>2. QED
        BY <4>1, EventParts, Zenon
    <3>4. \A x \in Range(pending'[w]) \cup Range(batch[w]) : x[1] = w /\ x[2] <= raised[w] + 1
      BY <1>1, <1>10, <1>3, <3>1, <3>2
    <3>5. QED
      BY <1>1, <1>3, <2>1, <3>1, <3>4, Zenon DEF OwnEvents
  <2>3. SaveState(w)' /\ DocumentState(w)'
    BY <1>1, Zenon DEF StoreInv, WriterInv, SaveState, DocumentState, InFlight, Atomic
  <2>4. SessionState(w)'
    BY <1>1, <1>7, Zenon DEF SessionState
  <2>5. ViewState(w)'
    <3> SUFFICES ASSUME w \notin unsynced', outcome[w] \notin Failed
                 PROVE  /\ version'[w] - Len(pending'[w]) <= Count
                        /\ view'[w] = History(version'[w] - Len(pending'[w])) \cup Range(pending'[w])
      BY <1>1, <1>5, Zenon DEF ViewState, InFlight, History
    <3>1. w \notin unsynced
      BY Zenon DEF raise_event, GoOn, Failed
    <3>2. /\ version[w] - Len(pending[w]) <= Count
          /\ view[w] = History(version[w] - Len(pending[w])) \cup Range(pending[w])
      BY <1>1, <3>1, Zenon DEF StoreInv, WriterInv, ViewState
    <3>3. version'[w] - Len(pending'[w]) = version[w] - Len(pending[w])
      <4>1. version'[w] = version[w] + 1 /\ version[w] \in Nat
        BY <1>1, Zenon
      <4>2. Len(pending'[w]) = Len(pending[w]) + 1 /\ Len(pending[w]) \in Nat
        BY <1>3, Zenon
      <4>3. \A a, b \in Nat : (a + 1) - (b + 1) = a - b
        OBVIOUS
      <4>4. QED
        BY <4>1, <4>2, <4>3, Zenon
    <3>4. QED
      BY <1>1, <1>3, <3>2, <3>3, Zenon
  <2>6. QED
    BY <2>2, <2>3, <2>4, <2>5, Zenon DEF WriterInv
<1>9. QED
  BY <1>1, <1>4, <1>5, <1>6, <1>7, <1>8, WriterStep, Zenon

(* save with events keeps the invariant: the batch is the former pending list. *)
LEMMA SaveStep ==
    ASSUME StoreInv, NEW w \in Writers, save(w)
    PROVE  StoreInv'
<1>1. /\ stream' = stream /\ session' = session /\ backend' = backend /\ raised' = raised
      /\ version' = version /\ view' = view /\ pc[w] = "ready" /\ pc'[w] = "append"
      /\ pending'[w] = <<>> /\ batch'[w] = pending[w] /\ pending[w] # <<>>
      /\ expected'[w] = version[w] - Len(pending[w]) /\ outcome'[w] = None
      /\ pending[w] \in Seq(Events)
  BY Zenon DEF StoreInv, TypesInv, save, Goto
<1>2. /\ version[w] \in Nat /\ Len(pending[w]) \in Nat /\ Len(pending[w]) <= version[w]
      /\ expected'[w] \in Nat /\ version[w] = expected'[w] + Len(batch'[w])
  <2>1. version[w] \in Nat /\ Len(pending[w]) \in Nat /\ Len(pending[w]) <= version[w]
    BY <1>1, SeqIsFunction, Zenon DEF StoreInv, TypesInv
  <2>2. QED
    <3>1. expected'[w] = version[w] - Len(pending[w]) /\ Len(batch'[w]) = Len(pending[w])
      BY <1>1, Zenon
    <3>2. QED
      BY <2>1, <3>1
<1>3. OnlyMoves(w)
  <2>1. raised[w] \in Int
    BY DEF StoreInv, TypesInv
  <2>2. \A o \in Writers \ {w} :
          /\ pc'[o] = pc[o] /\ pending'[o] = pending[o] /\ batch'[o] = batch[o]
          /\ expected'[o] = expected[o] /\ outcome'[o] = outcome[o]
    BY Zenon DEF save, Goto, StoreInv, TypesInv
  <2>3. \A o \in Writers \ {w} : o \in unsynced' <=> o \in unsynced
    BY Zenon DEF save, GoOn
  <2>4. QED
    BY <1>1, <2>1, <2>2, <2>3 DEF OnlyMoves
<1>4. Appends(w) /\ Count' = Count
  BY <1>1, NothingAppended, Zenon
<1>5. TypesInv'
  <2>1. pending' \in [Writers -> Seq(Events)] /\ batch' \in [Writers -> Seq(Events)]
    <3>1. /\ pending' = [pending EXCEPT ![w] = <<>>] /\ batch' = [batch EXCEPT ![w] = pending[w]]
      BY Zenon DEF save
    <3>2. pending \in [Writers -> Seq(Events)] /\ batch \in [Writers -> Seq(Events)]
      BY Zenon DEF StoreInv, TypesInv
    <3>3. QED
      BY <3>1, <3>2
  <2>2. expected' \in [Writers -> Nat]
    BY <1>1, <1>2, Zenon DEF save, StoreInv, TypesInv
  <2>3. pc' \in [Writers -> {"new", "ready"} \cup InFlight] /\ outcome' \in [Writers -> {None, "saved"} \cup Failed]
    BY Zenon DEF save, Goto, StoreInv, TypesInv, InFlight
  <2>4. \A o \in Writers : Len(pending'[o]) <= version'[o]
    BY <1>1, <1>2 DEF save, StoreInv, TypesInv
  <2>5. QED
    BY <1>1, <2>1, <2>2, <2>3, <2>4, Zenon DEF StoreInv, TypesInv
<1>6. DOMAIN session[w] = {}
  BY <1>1, Quiet, Zenon
<1>7. WriterInv(w)'
  <2>1. OwnEvents(w)
    BY Zenon DEF StoreInv, WriterInv
  <2>2. OwnEvents(w)'
    BY <1>1, <2>1 DEF OwnEvents, Range
  <2>3. SaveState(w)'
    BY <1>1, <1>2, <2>1, EventSourcingAssumption, Zenon DEF SaveState, OwnEvents, InFlight, Failed
  <2>4. SessionState(w)' /\ DocumentState(w)'
    BY <1>1, <1>6, Zenon DEF SessionState, DocumentState
  <2>5. ViewState(w)'
    <3> SUFFICES ASSUME w \notin unsynced'
                 PROVE  /\ expected'[w] <= Count
                        /\ view[w] = History(expected'[w]) \cup Range(pending[w])
      BY <1>1, <1>4, Zenon DEF ViewState, History
    <3>1. w \notin unsynced /\ outcome[w] \notin Failed
      BY Zenon DEF save, GoOn, Failed
    <3>2. QED
      BY <1>1, <3>1, Zenon DEF StoreInv, WriterInv, ViewState
  <2>6. QED
    BY <2>2, <2>3, <2>4, <2>5, Zenon DEF WriterInv
<1>8. QED
  BY <1>1, <1>3, <1>4, <1>5, <1>6, <1>7, WriterStep, Zenon

(* save without pending events keeps the invariant. *)
LEMMA SaveNothingStep ==
    ASSUME StoreInv, NEW w \in Writers, save_nothing(w)
    PROVE  StoreInv'
<1>1. /\ stream' = stream /\ session' = session /\ backend' = backend /\ raised' = raised
      /\ version' = version /\ view' = view /\ pending' = pending
      /\ batch' = batch /\ expected' = expected
      /\ pc[w] = "ready" /\ pc'[w] = "ready" /\ outcome'[w] = "saved" /\ pending[w] = <<>>
  BY Zenon DEF StoreInv, TypesInv, save_nothing, Return, Goto, agg
<1>2. OnlyMoves(w)
  <2>1. raised[w] \in Int
    BY DEF StoreInv, TypesInv
  <2>2. QED
    BY <1>1, <2>1 DEF save_nothing, Return, Goto, GoOn, OnlyMoves, StoreInv, TypesInv
<1>3. Appends(w) /\ Count' = Count
  BY <1>1, NothingAppended, Zenon
<1>4. TypesInv'
  <2>1. pc' \in [Writers -> {"new", "ready"} \cup InFlight] /\ outcome' \in [Writers -> {None, "saved"} \cup Failed]
    BY Zenon DEF save_nothing, Return, Goto, StoreInv, TypesInv
  <2>2. QED
    BY <1>1, <2>1, Zenon DEF StoreInv, TypesInv
<1>5. DOMAIN session[w] = {}
  BY <1>1, Quiet, Zenon
<1>6. WriterInv(w)'
  <2>1. OwnEvents(w)'
    BY <1>1, Zenon DEF StoreInv, WriterInv, OwnEvents
  <2>2. SaveState(w)'
    BY <1>1, Zenon DEF SaveState, InFlight, Failed
  <2>3. SessionState(w)' /\ DocumentState(w)'
    BY <1>1, <1>5, Zenon DEF SessionState, DocumentState
  <2>4. ViewState(w)'
    <3> SUFFICES ASSUME w \notin unsynced'
                 PROVE  /\ version[w] - Len(pending[w]) <= Count
                        /\ view[w] = History(version[w] - Len(pending[w])) \cup Range(pending[w])
      BY <1>1, <1>3 DEF ViewState, History, InFlight
    <3>1. w \notin unsynced /\ outcome[w] \notin Failed
      BY Zenon DEF save_nothing, GoOn, Failed
    <3>2. QED
      BY <1>1, <3>1, Zenon DEF StoreInv, WriterInv, ViewState
  <2>5. QED
    BY <2>1, <2>2, <2>3, <2>4, Zenon DEF WriterInv
<1>7. QED
  BY <1>1, <1>2, <1>3, <1>4, <1>5, <1>6, WriterStep, Zenon

(* A writer that goes away keeps the invariant: what it stored stays. *)
LEMMA CrashStep ==
    ASSUME StoreInv, NEW w \in Writers, crash(w)
    PROVE  StoreInv'
<1>1. /\ stream' = stream /\ backend' = backend /\ raised' = raised
      /\ pc'[w] = "new" /\ session'[w] = <<>> /\ version'[w] = 0 /\ pending'[w] = <<>>
      /\ batch'[w] = <<>> /\ expected'[w] = 0 /\ outcome'[w] = None
  BY Zenon DEF StoreInv, TypesInv, crash, Goto
<1>2. OnlyMoves(w)
  <2>1. raised[w] \in Int
    BY DEF StoreInv, TypesInv
  <2>2. QED
    BY <1>1, <2>1 DEF crash, Goto, OnlyMoves, StoreInv, TypesInv
<1>3. Appends(w) /\ Count' = Count
  BY <1>1, NothingAppended, Zenon
<1>4. TypesInv'
  <2>1. /\ pending' \in [Writers -> Seq(Events)] /\ batch' \in [Writers -> Seq(Events)]
        /\ expected' \in [Writers -> Nat] /\ version' \in [Writers -> Nat]
        /\ view' \in [Writers -> SUBSET Events] /\ DOMAIN session' = Writers
    BY DEF crash, StoreInv, TypesInv
  <2>2. pc' \in [Writers -> {"new", "ready"} \cup InFlight] /\ outcome' \in [Writers -> {None, "saved"} \cup Failed]
    BY Zenon DEF crash, Goto, StoreInv, TypesInv
  <2>3. \A o \in Writers : Len(pending'[o]) <= version'[o]
    BY <1>1 DEF crash, StoreInv, TypesInv
  <2>4. QED
    BY <1>1, <2>1, <2>2, <2>3, Zenon DEF StoreInv, TypesInv
<1>5. WriterInv(w)'
  BY <1>1, EventSourcingAssumption
  DEF WriterInv, OwnEvents, SaveState, SessionState, DocumentState, ViewState, InFlight, Failed, Range
<1>6. QED
  BY <1>1, <1>2, <1>3, <1>4, <1>5, WriterStep
=============================================================================
