--------------------------- MODULE LimiterProofs ---------------------------
(* Theorems about the limiters that share asyncio.Semaphore, the rate       *)
(* limiters and the Redis lock, for every number of tasks, permits, places  *)
(* in the queue and clients, and any window and limit.                      *)
EXTENDS QueueLimiter, Limiters, RedisLock, FiniteSetTheorems, WellFoundedInduction, TLAPS

-----------------------------------------------------------------------------
(* The semaphore.                                                           *)

(* A set of natural numbers that is not empty has a least element. *)
LEMMA LeastElement ==
    ASSUME NEW S \in SUBSET Nat, S # {}
    PROVE  \E i \in S : \A j \in S : i <= j
<1>1. PICK i \in S : \A j \in S : ~(<<j, i>> \in OpToRel(<, Nat))
  BY NatLessThanWellFounded, WFMin, Zenon
<1>2. \A j \in S : ~(j < i)
  BY <1>1, Zenon DEF OpToRel
<1>3. QED
  BY <1>2

(* Sequences as functions on an interval: what the later steps cite. *)
LEMMA SeqIsFunction ==
    ASSUME NEW S, NEW s \in Seq(S)
    PROVE  /\ Len(s) \in Nat /\ DOMAIN s = 1..Len(s) /\ s \in [1..Len(s) -> S]
           /\ \A i \in 1..Len(s) : s[i] \in S
  OBVIOUS

(* A function on an interval from 1 is a sequence. *)
LEMMA FunctionIsSeq ==
    ASSUME NEW S, NEW n \in Nat, NEW f \in [1..n -> S]
    PROVE  f \in Seq(S) /\ Len(f) = n
  OBVIOUS

(* Two sequences one after the other. *)
LEMMA OneAfterTheOther ==
    ASSUME NEW S, NEW s \in Seq(S), NEW t \in Seq(S)
    PROVE  /\ s \o t \in Seq(S) /\ Len(s \o t) = Len(s) + Len(t)
           /\ DOMAIN (s \o t) = 1..(Len(s) + Len(t))
           /\ \A v \in 1..(Len(s) + Len(t)) :
                 (s \o t)[v] = IF v <= Len(s) THEN s[v] ELSE t[v - Len(s)]
  OBVIOUS

(* A part of a sequence. *)
LEMMA PartOfSeq ==
    ASSUME NEW S, NEW s \in Seq(S), NEW m \in 1..(Len(s) + 1), NEW n \in 0..Len(s), m <= n + 1
    PROVE  /\ SubSeq(s, m, n) \in Seq(S) /\ Len(SubSeq(s, m, n)) = n - m + 1
           /\ \A i \in 1..(n - m + 1) : SubSeq(s, m, n)[i] = s[m + i - 1]
  OBVIOUS

Queued(w) == {w[i] : i \in DOMAIN w}
Distinct(w) == \A i, j \in DOMAIN w : w[i] = w[j] => i = j

(* Who has been woken is before everybody who has not. *)
DoneFirst(w, d) == \A i, j \in DOMAIN w : i < j /\ w[j] \in d => w[i] \in d

(* Taking a task out of the queue leaves the others, in their order. *)
LEMMA WithoutTask ==
    ASSUME waiters \in Seq(Tasks), Distinct(waiters), NEW t \in Queued(waiters)
    PROVE  /\ Without(t) \in Seq(Tasks)
           /\ Distinct(Without(t))
           /\ Queued(Without(t)) = Queued(waiters) \ {t}
           /\ \A d : DoneFirst(waiters, d) => DoneFirst(Without(t), d \ {t})
<1> DEFINE k == CHOOSE i \in DOMAIN waiters : waiters[i] = t
           n == Len(waiters)
           w == SubSeq(waiters, 1, k - 1) \o SubSeq(waiters, k + 1, n)
<1>1. k \in 1..n /\ waiters[k] = t /\ n \in Nat
  BY DEF Queued
<1>2. Without(t) = w
  BY Zenon DEF Without
<1> HIDE DEF k, n
<1>3. DOMAIN waiters = 1..n /\ \A i \in 1..n : waiters[i] \in Tasks
  BY DEF n
<1>4. /\ SubSeq(waiters, 1, k - 1) \in Seq(Tasks)
      /\ Len(SubSeq(waiters, 1, k - 1)) = k - 1
      /\ \A i \in 1..(k - 1) : SubSeq(waiters, 1, k - 1)[i] = waiters[i]
  <2>1. \A i \in 1..(k - 1) : waiters[i] \in Tasks
    BY <1>1, <1>3
  <2>2. QED
    BY <1>1, <2>1, PartOfSeq
<1>5. /\ SubSeq(waiters, k + 1, n) \in Seq(Tasks)
      /\ Len(SubSeq(waiters, k + 1, n)) = n - k
      /\ \A i \in 1..(n - k) : SubSeq(waiters, k + 1, n)[i] = waiters[k + i]
  <2>1. \A i \in (k + 1)..n : waiters[i] \in Tasks
    BY <1>1, <1>3
  <2>2. QED
    BY <1>1, <2>1, PartOfSeq
<1>6. /\ w \in Seq(Tasks)
      /\ Len(w) = n - 1
      /\ \A i \in 1..(n - 1) : w[i] = IF i < k THEN waiters[i] ELSE waiters[i + 1]
  BY <1>1, <1>4, <1>5, OneAfterTheOther
<1> HIDE DEF w
<1>7. DOMAIN w = 1..(n - 1)
  BY <1>6
<1> DEFINE from(i) == IF i < k THEN i ELSE i + 1
<1>8. /\ \A i \in 1..(n - 1) : from(i) \in 1..n /\ from(i) # k /\ w[i] = waiters[from(i)]
      /\ \A i, j \in 1..(n - 1) : i < j => from(i) < from(j)
      /\ \A j \in 1..n : j # k => \E i \in 1..(n - 1) : j = from(i)
  <2>1. ASSUME NEW j \in 1..n, j # k
        PROVE  \E i \in 1..(n - 1) : j = from(i)
    <3>1. CASE j < k
      BY <1>1, <3>1
    <3>2. CASE j > k
      <4>1. j - 1 \in 1..(n - 1) /\ j = from(j - 1)
        BY <1>1, <3>2
      <4>2. QED
        BY <4>1, Zenon
    <3>3. QED
      BY <1>1, <2>1, <3>1, <3>2
  <2>2. QED
    BY <1>1, <1>6, <2>1
<1> HIDE DEF from
<1>9. \A i, j \in 1..n : waiters[i] = waiters[j] => i = j
  BY <1>3, Zenon DEF Distinct
<1>10. Distinct(w)
  <2> SUFFICES ASSUME NEW i \in 1..(n - 1), NEW j \in 1..(n - 1), w[i] = w[j], i < j
               PROVE  FALSE
    BY <1>1, <1>7 DEF Distinct
  <2>1. from(i) = from(j)
    BY <1>8, <1>9, Zenon
  <2>2. QED
    BY <1>1, <1>8, <2>1
<1>11. Queued(w) = Queued(waiters) \ {t}
  <2>1. \A i \in 1..(n - 1) : w[i] \in Queued(waiters) \ {t}
    BY <1>1, <1>3, <1>8, <1>9 DEF Queued
  <2>2. ASSUME NEW x \in Queued(waiters) \ {t}
        PROVE  \E i \in 1..(n - 1) : x = w[i]
    <3>1. PICK j \in 1..n : x = waiters[j]
      BY <1>3, Zenon DEF Queued
    <3>2. PICK i \in 1..(n - 1) : j = from(i)
      BY <1>1, <1>8, <3>1, Zenon
    <3>3. QED
      BY <1>8, <3>1, <3>2, Zenon
  <2>3. QED
    BY <1>7, <2>1, <2>2, Zenon DEF Queued
<1>12. ASSUME NEW d, DoneFirst(waiters, d)
       PROVE  DoneFirst(w, d \ {t})
  <2> SUFFICES ASSUME NEW i \in 1..(n - 1), NEW j \in 1..(n - 1), i < j, w[j] \in d \ {t}
               PROVE  w[i] \in d \ {t}
    BY <1>7, Zenon DEF DoneFirst
  <2>1. w[i] \in d
    BY <1>3, <1>8, <1>12, Zenon DEF DoneFirst
  <2>2. w[i] # t
    BY <1>1, <1>8, <1>9, Zenon
  <2>3. QED
    BY <2>1, <2>2, Zenon
<1>13. QED
  BY <1>2, <1>6, <1>10, <1>11, <1>12, Zenon

(* _wake_up_next() gives one of the permits it is called with to a task     *)
(* that was queued and not yet woken, the first of those; without one, to   *)
(* nobody.                                                                  *)
LEMMA WakesFirst ==
    ASSUME NEW v, NEW w \in Seq(Tasks), NEW d, Distinct(w), DoneFirst(w, d),
           WakeUpNext(v, w, d)
    PROVE  /\ waiters' = w
           /\ DoneFirst(w, done')
           /\ \/ Queued(w) \subseteq d /\ value' = v /\ done' = d
              \/ \E t \in Queued(w) \ d : value' = v - 1 /\ done' = d \cup {t}
<1> DEFINE pending == {i \in DOMAIN w : w[i] \notin d}
           first == CHOOSE i \in pending : \A j \in pending : i <= j
<1>1. CASE pending = {}
  <2>1. waiters' = w /\ value' = v /\ done' = d
    BY <1>1, Zenon DEF WakeUpNext
  <2>2. Queued(w) \subseteq d
    BY <1>1, Zenon DEF Queued
  <2>3. QED
    BY <2>1, <2>2, Zenon
<1>2. CASE pending # {}
  <2>1. pending \in SUBSET Nat
    OBVIOUS
  <2>2. \E i \in pending : \A j \in pending : i <= j
    BY <1>2, <2>1, LeastElement, Zenon
  <2>3. first \in pending /\ \A j \in pending : first <= j
    BY <2>2, Zenon
  <2>4. waiters' = w /\ value' = v - 1 /\ done' = d \cup {w[first]}
    BY <1>2, Zenon DEF WakeUpNext
  <2> HIDE DEF first
  <2>5. w[first] \in Queued(w) \ d
    BY <2>3, Zenon DEF Queued
  <2>6. DoneFirst(w, d \cup {w[first]})
    BY <2>3 DEF DoneFirst, Distinct
  <2>7. QED
    BY <2>4, <2>5, <2>6, Zenon
<1>3. QED
  BY <1>1, <1>2, Zenon

(* A semaphore of N permits in good order, with v of them free, the tasks   *)
(* w queued, d of these woken, and the tasks I holding a permit: no permit  *)
(* is lost or made, and none is free while a task waits that nobody woken   *)
(* will wake.                                                               *)
InOrder(v, w, d, I, N) ==
    /\ v \in Nat /\ w \in Seq(Tasks) /\ IsFiniteSet(d) /\ IsFiniteSet(I)
    /\ Distinct(w) /\ d \subseteq Queued(w) /\ DoneFirst(w, d)
    /\ v + Cardinality(d) + Cardinality(I) = N
    /\ v > 0 /\ Queued(w) # {} => d # {}

(* _wake_up_next() with at least one permit leaves the semaphore in order,  *)
(* also if the permit it is given is not yet accounted for by a wake-up.    *)
LEMMA WakeUpInOrder ==
    ASSUME NEW v \in Nat \ {0}, NEW w \in Seq(Tasks), NEW d, NEW I, NEW N,
           Distinct(w), d \subseteq Queued(w), DoneFirst(w, d),
           IsFiniteSet(d), IsFiniteSet(I),
           v + Cardinality(d) + Cardinality(I) = N,
           WakeUpNext(v, w, d)
    PROVE  InOrder(value', waiters', done', I, N) /\ waiters' = w
<1>1. /\ waiters' = w
      /\ DoneFirst(w, done')
      /\ \/ Queued(w) \subseteq d /\ value' = v /\ done' = d
         \/ \E t \in Queued(w) \ d : value' = v - 1 /\ done' = d \cup {t}
  BY WakesFirst, Zenon
<1>2. Cardinality(d) \in Nat /\ Cardinality(I) \in Nat
  BY FS_CardinalityType, Zenon
<1>3. CASE Queued(w) \subseteq d /\ value' = v /\ done' = d
  BY <1>1, <1>3, Zenon DEF InOrder
<1>4. ASSUME NEW t \in Queued(w) \ d, value' = v - 1, done' = d \cup {t}
      PROVE  InOrder(value', waiters', done', I, N)
  <2>1. IsFiniteSet(done') /\ Cardinality(done') = Cardinality(d) + 1
    BY <1>4, FS_AddElement, Zenon
  <2>2. QED
    BY <1>1, <1>2, <1>4, <2>1 DEF InOrder
<1>5. QED
  BY <1>1, <1>3, <1>4, Zenon

(* acquire() without waiting: the task takes a free permit. *)
LEMMA AcquireInOrder ==
    ASSUME NEW I, NEW N, NEW t, t \notin I, InOrder(value, waiters, done, I, N), acquire_now
    PROVE  InOrder(value', waiters', done', I \cup {t}, N) /\ waiters' = waiters
<1>1. /\ value # 0 /\ waiters = <<>>
      /\ value' = value - 1 /\ waiters' = waiters /\ done' = done
  BY Zenon DEF acquire_now, locked
<1>2. Cardinality(done) \in Nat /\ Cardinality(I) \in Nat
  BY FS_CardinalityType, Zenon DEF InOrder
<1>3. IsFiniteSet(I \cup {t}) /\ Cardinality(I \cup {t}) = Cardinality(I) + 1
  BY FS_AddElement, Zenon DEF InOrder
<1>4. Queued(waiters) = {}
  BY <1>1 DEF Queued
<1>5. QED
  BY <1>1, <1>2, <1>3, <1>4 DEF InOrder

(* acquire() that has to wait: the task joins the end of the queue. *)
LEMMA WaitInOrder ==
    ASSUME NEW I, NEW N, NEW t \in Tasks, t \notin Queued(waiters),
           InOrder(value, waiters, done, I, N), acquire_wait(t)
    PROVE  /\ InOrder(value', waiters', done', I, N)
           /\ Queued(waiters') = Queued(waiters) \cup {t}
<1> DEFINE n == Len(waiters)
<1>1. /\ value = 0 \/ waiters # <<>>
      /\ value' = value /\ waiters' = Append(waiters, t) /\ done' = done
  BY Zenon DEF acquire_wait, locked
<1>2. /\ n \in Nat /\ DOMAIN waiters = 1..n
      /\ waiters' \in Seq(Tasks) /\ DOMAIN waiters' = 1..(n + 1)
      /\ \A i \in 1..n : waiters'[i] = waiters[i]
      /\ waiters'[n + 1] = t
  BY <1>1 DEF InOrder
<1> HIDE DEF n
<1>3. Queued(waiters') = Queued(waiters) \cup {t}
  <2>1. \A i \in 1..(n + 1) : i \in 1..n \/ i = n + 1
    BY <1>2
  <2>2. QED
    BY <1>2, <2>1 DEF Queued
<1>4. Distinct(waiters')
  <2>1. \A i \in 1..n : waiters[i] # t
    BY <1>2, Zenon DEF Queued
  <2>2. QED
    BY <1>2, <2>1 DEF Distinct, InOrder
<1>5. DoneFirst(waiters', done')
  <2>1. t \notin done
    BY Zenon DEF InOrder
  <2>2. QED
    BY <1>1, <1>2, <2>1 DEF DoneFirst, InOrder
<1>6. value > 0 => done # {}
  <2>1. waiters # <<>> => Queued(waiters) # {}
    BY <1>2 DEF Queued, InOrder
  <2>2. QED
    BY <1>1, <2>1 DEF InOrder
<1>7. QED
  BY <1>1, <1>2, <1>3, <1>4, <1>5, <1>6, Zenon DEF InOrder

(* acquire() that goes on after its wake-up: the permit that travelled to   *)
(* the task is now held, and another free one is passed on.                 *)
LEMMA ResumeInOrder ==
    ASSUME NEW I, NEW N, NEW t, t \notin I,
           InOrder(value, waiters, done, I, N), acquire_resume(t)
    PROVE  /\ InOrder(value', waiters', done', I \cup {t}, N)
           /\ Queued(waiters') = Queued(waiters) \ {t}
<1> DEFINE w == Without(t)
           d == done \ {t}
<1>1. t \in done /\ t \in Queued(waiters)
  BY Zenon DEF acquire_resume, InOrder
<1>2. /\ w \in Seq(Tasks) /\ Distinct(w) /\ Queued(w) = Queued(waiters) \ {t}
      /\ DoneFirst(w, d)
  BY <1>1, WithoutTask, Zenon DEF InOrder
<1>3. /\ Cardinality(done) \in Nat /\ Cardinality(I) \in Nat
      /\ IsFiniteSet(d) /\ Cardinality(d) = Cardinality(done) - 1
      /\ IsFiniteSet(I \cup {t}) /\ Cardinality(I \cup {t}) = Cardinality(I) + 1
  BY <1>1, FS_CardinalityType, FS_RemoveElement, FS_AddElement, Zenon DEF InOrder
<1>4. d \subseteq Queued(w)
  BY <1>2, Zenon DEF InOrder
<1>5. value + Cardinality(d) + Cardinality(I \cup {t}) = N
  BY <1>3 DEF InOrder
<1>6. CASE value > 0
  <2>1. WakeUpNext(value, w, d)
    BY <1>6, Zenon DEF acquire_resume
  <2>2. value \in Nat \ {0}
    BY <1>6 DEF InOrder
  <2> HIDE DEF w, d
  <2>3. QED
    BY <1>2, <1>3, <1>4, <1>5, <2>1, <2>2, WakeUpInOrder, Zenon
<1>7. CASE ~(value > 0)
  <2>1. waiters' = w /\ done' = d /\ value' = value
    BY <1>7, Zenon DEF acquire_resume
  <2> HIDE DEF w, d
  <2>2. QED
    BY <1>2, <1>3, <1>4, <1>5, <1>7, <2>1 DEF InOrder
<1>8. QED
  BY <1>6, <1>7, Zenon

(* CancelledError at the await of acquire(): a task that was woken already  *)
(* gives its permit back, and somebody else is woken.                       *)
LEMMA CancelInOrder ==
    ASSUME NEW I, NEW N, NEW t \in Queued(waiters),
           InOrder(value, waiters, done, I, N), acquire_cancelled(t)
    PROVE  /\ InOrder(value', waiters', done', I, N)
           /\ Queued(waiters') = Queued(waiters) \ {t}
<1> DEFINE w == Without(t)
           d == done \ {t}
<1>1. /\ w \in Seq(Tasks) /\ Distinct(w) /\ Queued(w) = Queued(waiters) \ {t}
      /\ DoneFirst(w, d)
  BY WithoutTask, Zenon DEF InOrder
<1>2. d \subseteq Queued(w)
  BY <1>1, Zenon DEF InOrder
<1>3. Cardinality(done) \in Nat /\ Cardinality(I) \in Nat
  BY FS_CardinalityType, Zenon DEF InOrder
<1>4. CASE t \in done
  <2>1. IsFiniteSet(d) /\ Cardinality(d) = Cardinality(done) - 1
    BY <1>4, FS_RemoveElement, Zenon DEF InOrder
  <2>2. WakeUpNext(value + 1, w, d)
    BY <1>4, Zenon DEF acquire_cancelled
  <2>3. value + 1 \in Nat \ {0} /\ value + 1 + Cardinality(d) + Cardinality(I) = N
    BY <1>3, <2>1 DEF InOrder
  <2>4. IsFiniteSet(I)
    BY Zenon DEF InOrder
  <2> HIDE DEF w, d
  <2>5. QED
    BY <1>1, <1>2, <2>1, <2>2, <2>3, <2>4, WakeUpInOrder, Zenon
<1>5. CASE t \notin done
  <2>1. waiters' = w /\ done' = done /\ value' = value /\ d = done
    BY <1>5, Zenon DEF acquire_cancelled
  <2> HIDE DEF w, d
  <2>2. QED
    BY <1>1, <1>2, <2>1, Zenon DEF InOrder
<1>6. QED
  BY <1>4, <1>5, Zenon

(* release(): the permit goes to the first task that was not woken yet. *)
LEMMA ReleaseInOrder ==
    ASSUME NEW I, NEW N, NEW t \in I, InOrder(value, waiters, done, I, N), release
    PROVE  InOrder(value', waiters', done', I \ {t}, N) /\ waiters' = waiters
<1>1. /\ Cardinality(done) \in Nat /\ Cardinality(I) \in Nat
      /\ IsFiniteSet(I \ {t}) /\ Cardinality(I \ {t}) = Cardinality(I) - 1
  BY FS_CardinalityType, FS_RemoveElement, Zenon DEF InOrder
<1>2. value + 1 \in Nat \ {0} /\ value + 1 + Cardinality(done) + Cardinality(I \ {t}) = N
  BY <1>1 DEF InOrder
<1>3. WakeUpNext(value + 1, waiters, done)
  BY Zenon DEF release
<1>4. QED
  BY <1>1, <1>2, <1>3, WakeUpInOrder, Zenon DEF InOrder

-----------------------------------------------------------------------------
(* QueueLimiter, whose tasks inside hold the permits.                       *)

(* The semaphore is in order, its queue holds the tasks that wait, and the  *)
(* permits of the second semaphore are accounted for.                       *)
QueueInv ==
    /\ InOrder(value, waiters, done, Inside, max_concurrent)
    /\ Queued(waiters) = Waiting
    /\ pc \in [Tasks -> {"idle", "waiting", "inside"}]
    /\ queue_value \in Nat /\ lost \in Nat
    /\ IsFiniteSet(Waiting)
    /\ QueuePermitsAccounted

(* An idle queue limiter satisfies its invariant. *)
LEMMA QueueStarts == Init => QueueInv
<1> SUFFICES ASSUME Init
             PROVE  QueueInv
  BY Zenon
<1>1. Inside = {} /\ Waiting = {}
  BY Zenon DEF Init, Inside, Waiting
<1>2. waiters \in Seq(Tasks) /\ Queued(waiters) = {} /\ Distinct(waiters) /\ DoneFirst(waiters, done)
  BY DEF Init, Queued, Distinct, DoneFirst
<1>3. InOrder(value, waiters, done, Inside, max_concurrent)
  BY <1>1, <1>2, FS_EmptySet, LimitsAssumption DEF Init, InOrder
<1>4. QueuePermitsAccounted
  BY <1>1, FS_EmptySet, LimitsAssumption DEF Init, QueuePermitsAccounted
<1>5. QED
  BY <1>1, <1>2, <1>3, <1>4, FS_EmptySet, LimitsAssumption DEF Init, QueueInv

(* What Goto(t, p) does to the sets of tasks inside and waiting. *)
LEMMA GotoMoves ==
    ASSUME NEW t \in Tasks, NEW p \in {"idle", "waiting", "inside"},
           pc \in [Tasks -> {"idle", "waiting", "inside"}], Goto(t, p)
    PROVE  /\ pc' \in [Tasks -> {"idle", "waiting", "inside"}]
           /\ Inside' = IF p = "inside" THEN Inside \cup {t} ELSE Inside \ {t}
           /\ Waiting' = IF p = "waiting" THEN Waiting \cup {t} ELSE Waiting \ {t}
           /\ t \notin Inside => Inside \ {t} = Inside
           /\ t \notin Waiting => Waiting \ {t} = Waiting
  BY Zenon DEF Goto, Inside, Waiting

(* Every step of a task through the bulkhead keeps the invariant. *)
LEMMA QueueStep == QueueInv /\ [Next]_vars => QueueInv'
<1> SUFFICES ASSUME QueueInv, [Next]_vars
             PROVE  QueueInv'
  BY Zenon
<1>0. /\ IsFiniteSet(Inside) /\ IsFiniteSet(Waiting)
      /\ Cardinality(Inside) \in Nat /\ Cardinality(Waiting) \in Nat
      /\ queue_value + Cardinality(Waiting) + Cardinality(Inside) + lost
            = max_concurrent + max_queue
      /\ queue_value \in Nat /\ lost \in Nat
      /\ pc \in [Tasks -> {"idle", "waiting", "inside"}]
      /\ InOrder(value, waiters, done, Inside, max_concurrent)
      /\ Queued(waiters) = Waiting
  BY FS_CardinalityType, Zenon DEF QueueInv, InOrder, QueuePermitsAccounted
<1>1. ASSUME NEW t \in Tasks, aenter(t), acquire_now, Goto(t, "inside")
      PROVE  QueueInv'
  <2>1. t \notin Inside /\ t \notin Waiting
    BY <1>1, Zenon DEF aenter, Inside, Waiting
  <2>2. /\ Inside' = Inside \cup {t} /\ Waiting' = Waiting
        /\ pc' \in [Tasks -> {"idle", "waiting", "inside"}]
    <3>1. /\ pc \in [Tasks -> {"idle", "waiting", "inside"}] /\ Goto(t, "inside")
          /\ "inside" \in {"idle", "waiting", "inside"} /\ "inside" # "waiting"
      BY <1>0, <1>1, Zenon
    <3>2. /\ pc' \in [Tasks -> {"idle", "waiting", "inside"}]
          /\ Inside' = Inside \cup {t} /\ Waiting' = Waiting \ {t}
      BY <3>1, Zenon DEF Goto, Inside, Waiting
    <3>3. QED
      BY <2>1, <3>2, Zenon
  <2>3. InOrder(value', waiters', done', Inside', max_concurrent) /\ waiters' = waiters
    BY <1>0, <1>1, <2>1, <2>2, AcquireInOrder, Zenon
  <2>4. Cardinality(Inside') = Cardinality(Inside) + 1
    BY <1>0, <2>1, <2>2, FS_AddElement, Zenon
  <2>5. queue_value' = queue_value - 1 /\ queue_value' \in Nat /\ lost' = lost
    BY <1>0, <1>1 DEF aenter
  <2>6. QED
    BY <1>0, <2>2, <2>3, <2>4, <2>5, LimitsAssumption DEF QueueInv, QueuePermitsAccounted
<1>2. ASSUME NEW t \in Tasks, aenter(t), acquire_wait(t), Goto(t, "waiting")
      PROVE  QueueInv'
  <2>1. t \notin Inside /\ t \notin Waiting
    BY <1>2, Zenon DEF aenter, Inside, Waiting
  <2>2. /\ Inside' = Inside /\ Waiting' = Waiting \cup {t}
        /\ pc' \in [Tasks -> {"idle", "waiting", "inside"}]
    BY <1>0, <1>2, <2>1, GotoMoves, Zenon
  <2>3. /\ InOrder(value', waiters', done', Inside', max_concurrent)
        /\ Queued(waiters') = Waiting'
    BY <1>0, <1>2, <2>1, <2>2, WaitInOrder, Zenon
  <2>4. IsFiniteSet(Waiting') /\ Cardinality(Waiting') = Cardinality(Waiting) + 1
    BY <1>0, <2>1, <2>2, FS_AddElement, Zenon
  <2>5. queue_value' = queue_value - 1 /\ queue_value' \in Nat /\ lost' = lost
    BY <1>0, <1>2 DEF aenter
  <2>6. QED
    BY <1>0, <2>2, <2>3, <2>4, <2>5, LimitsAssumption DEF QueueInv, QueuePermitsAccounted
<1>3. ASSUME NEW t \in Tasks, aenter_full(t)
      PROVE  QueueInv'
  BY <1>3, Zenon DEF aenter_full, semaphore, QueueInv, QueuePermitsAccounted, Inside, Waiting
<1>4. ASSUME NEW t \in Tasks, aenter_resumed(t)
      PROVE  QueueInv'
  <2>1. t \notin Inside /\ t \in Waiting /\ acquire_resume(t) /\ Goto(t, "inside")
    BY <1>4, Zenon DEF aenter_resumed, Inside, Waiting
  <2>2. /\ Inside' = Inside \cup {t} /\ Waiting' = Waiting \ {t}
        /\ pc' \in [Tasks -> {"idle", "waiting", "inside"}]
    BY <1>0, <2>1, GotoMoves, Zenon
  <2>3. /\ InOrder(value', waiters', done', Inside', max_concurrent)
        /\ Queued(waiters') = Waiting'
    BY <1>0, <2>1, <2>2, ResumeInOrder, Zenon
  <2>4. /\ Cardinality(Inside') = Cardinality(Inside) + 1
        /\ IsFiniteSet(Waiting') /\ Cardinality(Waiting') = Cardinality(Waiting) - 1
    BY <1>0, <2>1, <2>2, FS_AddElement, FS_RemoveElement, Zenon
  <2>5. queue_value' = queue_value /\ lost' = lost
    BY <1>4, Zenon DEF aenter_resumed
  <2>6. QED
    BY <1>0, <2>2, <2>3, <2>4, <2>5, LimitsAssumption DEF QueueInv, QueuePermitsAccounted
<1>5. ASSUME NEW t \in Tasks, aenter_cancelled(t)
      PROVE  QueueInv'
  <2>1. t \notin Inside /\ t \in Waiting /\ acquire_cancelled(t) /\ Goto(t, "idle")
    BY <1>5, Zenon DEF aenter_cancelled, Inside, Waiting
  <2>2. /\ Inside' = Inside /\ Waiting' = Waiting \ {t}
        /\ pc' \in [Tasks -> {"idle", "waiting", "inside"}]
    BY <1>0, <2>1, GotoMoves, Zenon
  <2>3. /\ InOrder(value', waiters', done', Inside', max_concurrent)
        /\ Queued(waiters') = Waiting'
    BY <1>0, <2>1, <2>2, CancelInOrder, Zenon
  <2>4. IsFiniteSet(Waiting') /\ Cardinality(Waiting') = Cardinality(Waiting) - 1
    BY <1>0, <2>1, <2>2, FS_RemoveElement, Zenon
  <2>5. queue_value' = queue_value /\ lost' = lost + 1
    BY <1>5, Zenon DEF aenter_cancelled
  <2>6. QED
    BY <1>0, <2>2, <2>3, <2>4, <2>5, LimitsAssumption DEF QueueInv, QueuePermitsAccounted
<1>6. ASSUME NEW t \in Tasks, aexit(t)
      PROVE  QueueInv'
  <2>1. t \in Inside /\ t \notin Waiting /\ release /\ Goto(t, "idle")
    BY <1>6, Zenon DEF aexit, Inside, Waiting
  <2>2. /\ Inside' = Inside \ {t} /\ Waiting' = Waiting
        /\ pc' \in [Tasks -> {"idle", "waiting", "inside"}]
    BY <1>0, <2>1, GotoMoves, Zenon
  <2>3. InOrder(value', waiters', done', Inside', max_concurrent) /\ waiters' = waiters
    BY <1>0, <2>1, <2>2, ReleaseInOrder, Zenon
  <2>4. Cardinality(Inside') = Cardinality(Inside) - 1
    BY <1>0, <2>1, <2>2, FS_RemoveElement, Zenon
  <2>5. queue_value' = queue_value + 1 /\ lost' = lost
    BY <1>6, Zenon DEF aexit
  <2>6. QED
    BY <1>0, <2>2, <2>3, <2>4, <2>5, LimitsAssumption DEF QueueInv, QueuePermitsAccounted
<1>7. ASSUME UNCHANGED vars
      PROVE  QueueInv'
  BY <1>7, Zenon DEF vars, semaphore, QueueInv, QueuePermitsAccounted, Inside, Waiting
<1>8. QED
  <2>1. ASSUME NEW t \in Tasks, aenter(t)
        PROVE  QueueInv'
    BY <1>1, <1>2, <2>1, Zenon DEF aenter
  <2>2. QED
    BY <1>3, <1>4, <1>5, <1>6, <1>7, <2>1, Zenon DEF Next

(* The permits of the bulkhead, for any number of tasks and limits: however *)
(* enters, exits, wake-ups and cancellations fall, each permit of the       *)
(* semaphore is free, travelling or held, each one of the queue is free,    *)
(* held or lost to a cancelled __aenter__, and no free permit is forgotten  *)
(* while a task waits.                                                      *)
THEOREM PermitsAccountedHolds == Spec => []PermitsAccounted
<1>1. QueueInv => PermitsAccounted
  <2> SUFFICES ASSUME QueueInv
               PROVE  PermitsAccounted
    BY Zenon
  <2>1. PermitsConserved /\ NoLostWakeUp
    BY Zenon DEF QueueInv, InOrder, PermitsConserved, NoLostWakeUp
  <2>2. QED
    BY <2>1, Zenon DEF QueueInv, PermitsAccounted
<1>2. QED
  BY <1>1, QueueStarts, QueueStep, PTL DEF Spec

(* The bulkhead is fair, for any number of tasks and limits: a task goes in *)
(* past a task that waits and was not woken only if it queued up before.    *)
THEOREM NoOvertakingHolds == Spec => NoOvertaking
<1> DEFINE Overtaken(t, u) ==
        /\ t \notin Inside /\ t \in Inside'
        /\ u # t /\ u \in Waiting /\ u \in Waiting'
        /\ u \notin done
           InTurn(t, u) == \E i, j \in DOMAIN waiters : i < j /\ waiters[i] = t /\ waiters[j] = u
<1>1. ASSUME QueueInv, [Next]_vars, NEW t \in Tasks, NEW u \in Tasks, Overtaken(t, u)
      PROVE  InTurn(t, u)
  <2>1. t \in done
    <3>1. \A s \in Tasks : Goto(s, "idle") \/ Goto(s, "waiting") => t \notin Inside'
      BY <1>1, Zenon DEF Goto, Inside, QueueInv
    <3>2. \A s \in Tasks : Goto(s, "inside") => s = t
      BY <1>1, Zenon DEF Goto, Inside, QueueInv
    <3>3. ~acquire_now
      BY <1>1 DEF acquire_now, locked, QueueInv, Queued
    <3>4. pc' # pc
      BY <1>1, Zenon DEF Inside
    <3>5. QED
      BY <1>1, <3>1, <3>2, <3>3, <3>4, Zenon
         DEF Next, aenter, aenter_full, aenter_resumed, aenter_cancelled, aexit, acquire_resume, vars
  <2>2. PICK i \in DOMAIN waiters : waiters[i] = t
    BY <1>1, <2>1, Zenon DEF QueueInv, InOrder, Queued
  <2>3. PICK j \in DOMAIN waiters : waiters[j] = u
    BY <1>1, Zenon DEF QueueInv, Queued
  <2>4. i < j
    <3>1. ~(j < i)
      BY <1>1, <2>1, <2>2, <2>3, Zenon DEF QueueInv, InOrder, DoneFirst
    <3>2. i \in Nat /\ j \in Nat /\ i # j
      BY <1>1, <2>2, <2>3 DEF QueueInv, InOrder
    <3>3. QED
      BY <3>1, <3>2
  <2>5. QED
    BY <2>2, <2>3, <2>4, Zenon
<1>2. QueueInv /\ [Next]_vars => [\A t, u \in Tasks : Overtaken(t, u) => InTurn(t, u)]_vars
  BY <1>1, Zenon
<1>3. QED
  BY <1>2, QueueStarts, QueueStep, PTL DEF Spec, NoOvertaking

-----------------------------------------------------------------------------
(* ConcurrencyLimiter and BackpressurePolicy, over a semaphore of their     *)
(* own.                                                                     *)

Waiting_here == {t \in Tasks : place[t] = "waiting"}

SlotInv ==
    /\ InOrder(value, waiters, done, In, max_in_flight)
    /\ Queued(waiters) = Waiting_here
    /\ place \in [Tasks -> {"out", "waiting", "in"}]
    /\ PolicyNeverWaits

(* A bulkhead nobody is in satisfies its invariant. *)
LEMMA SlotInitInv == ASSUME max_in_flight \in Nat PROVE SlotInit => SlotInv
<1> SUFFICES ASSUME SlotInit
             PROVE  SlotInv
  BY Zenon
<1>1. In = {} /\ Waiting_here = {}
  BY Zenon DEF SlotInit, In, Waiting_here
<1>2. waiters \in Seq(Tasks) /\ Queued(waiters) = {} /\ Distinct(waiters) /\ DoneFirst(waiters, done)
  BY DEF SlotInit, Queued, Distinct, DoneFirst
<1>3. InOrder(value, waiters, done, In, max_in_flight)
  BY <1>1, <1>2, FS_EmptySet DEF SlotInit, InOrder
<1>4. QED
  BY <1>1, <1>2, <1>3, Zenon DEF SlotInit, SlotInv, PolicyNeverWaits

(* What Goto(t, p) does to the sets of tasks inside and waiting. *)
LEMMA PlaceMoves ==
    ASSUME NEW t \in Tasks, NEW p \in {"out", "waiting", "in"},
           place \in [Tasks -> {"out", "waiting", "in"}], Move(t, p)
    PROVE  /\ place' \in [Tasks -> {"out", "waiting", "in"}]
           /\ In' = IF p = "in" THEN In \cup {t} ELSE In \ {t}
           /\ Waiting_here' = IF p = "waiting" THEN Waiting_here \cup {t} ELSE Waiting_here \ {t}
           /\ t \notin In => In \ {t} = In
           /\ t \notin Waiting_here => Waiting_here \ {t} = Waiting_here
  BY Zenon DEF Move, In, Waiting_here

(* Every way in and out keeps the slots in order. *)
LEMMA SlotStep == SlotInv /\ [SlotNext]_limiters_vars => SlotInv'
<1> SUFFICES ASSUME SlotInv, [SlotNext]_limiters_vars
             PROVE  SlotInv'
  BY Zenon
<1>0. /\ InOrder(value, waiters, done, In, max_in_flight)
      /\ Queued(waiters) = Waiting_here
      /\ place \in [Tasks -> {"out", "waiting", "in"}]
      /\ entry = "policy" => waiters = <<>>
      /\ entry = "policy" => Waiting_here = {}
  BY DEF SlotInv, PolicyNeverWaits, Queued
<1>1. ASSUME NEW t \in Tasks, place[t] = "out", acquire_now, Move(t, "in"), entry' = entry
      PROVE  SlotInv'
  <2>1. t \notin In /\ t \notin Waiting_here
    BY <1>1, Zenon DEF In, Waiting_here
  <2>2. /\ In' = In \cup {t} /\ Waiting_here' = Waiting_here
        /\ place' \in [Tasks -> {"out", "waiting", "in"}]
    BY <1>0, <1>1, <2>1, PlaceMoves, Zenon
  <2>3. InOrder(value', waiters', done', In', max_in_flight) /\ waiters' = waiters
    BY <1>0, <1>1, <2>1, <2>2, AcquireInOrder, Zenon
  <2>4. QED
    BY <1>0, <1>1, <2>2, <2>3, Zenon DEF SlotInv, PolicyNeverWaits
<1>2. ASSUME NEW t \in Tasks, place[t] = "out", acquire_wait(t), Move(t, "waiting"),
             entry' = entry, entry # "policy"
      PROVE  SlotInv'
  <2>1. t \notin In /\ t \notin Waiting_here
    BY <1>2, Zenon DEF In, Waiting_here
  <2>2. /\ In' = In /\ Waiting_here' = Waiting_here \cup {t}
        /\ place' \in [Tasks -> {"out", "waiting", "in"}]
    <3>1. /\ place \in [Tasks -> {"out", "waiting", "in"}] /\ Move(t, "waiting")
          /\ "waiting" \in {"out", "waiting", "in"} /\ "waiting" # "in"
      BY <1>0, <1>2, Zenon
    <3>2. QED
      BY <2>1, <3>1, PlaceMoves, Zenon
  <2>3. /\ InOrder(value', waiters', done', In', max_in_flight)
        /\ Queued(waiters') = Waiting_here'
    BY <1>0, <1>2, <2>1, <2>2, WaitInOrder, Zenon
  <2>4. QED
    BY <1>2, <2>2, <2>3, Zenon DEF SlotInv, PolicyNeverWaits
<1>3. ASSUME NEW t \in Tasks, resumed(t)
      PROVE  SlotInv'
  <2>1. /\ t \notin In /\ t \in Waiting_here /\ entry' = entry
        /\ acquire_resume(t) /\ Move(t, "in")
    BY <1>3, Zenon DEF resumed, In, Waiting_here
  <2>2. /\ In' = In \cup {t} /\ Waiting_here' = Waiting_here \ {t}
        /\ place' \in [Tasks -> {"out", "waiting", "in"}]
    BY <1>0, <2>1, PlaceMoves, Zenon
  <2>3. /\ InOrder(value', waiters', done', In', max_in_flight)
        /\ Queued(waiters') = Waiting_here'
    BY <1>0, <2>1, <2>2, ResumeInOrder, Zenon
  <2>4. QED
    BY <1>0, <2>1, <2>2, <2>3, Zenon DEF SlotInv, PolicyNeverWaits
<1>4. ASSUME NEW t \in Tasks, times_out(t)
      PROVE  SlotInv'
  <2>1. /\ t \notin In /\ t \in Waiting_here /\ entry' = entry
        /\ acquire_cancelled(t) /\ Move(t, "out")
    BY <1>4, Zenon DEF times_out, In, Waiting_here
  <2>2. /\ In' = In /\ Waiting_here' = Waiting_here \ {t}
        /\ place' \in [Tasks -> {"out", "waiting", "in"}]
    BY <1>0, <2>1, PlaceMoves, Zenon
  <2>3. /\ InOrder(value', waiters', done', In', max_in_flight)
        /\ Queued(waiters') = Waiting_here'
    BY <1>0, <2>1, <2>2, CancelInOrder, Zenon
  <2>4. QED
    BY <1>0, <2>1, <2>2, <2>3, Zenon DEF SlotInv, PolicyNeverWaits
<1>5. ASSUME NEW t \in Tasks, exit(t)
      PROVE  SlotInv'
  <2>1. /\ t \in In /\ t \notin Waiting_here /\ entry' = entry
        /\ release /\ Move(t, "out")
    BY <1>5, Zenon DEF exit, In, Waiting_here
  <2>2. /\ In' = In \ {t} /\ Waiting_here' = Waiting_here
        /\ place' \in [Tasks -> {"out", "waiting", "in"}]
    BY <1>0, <2>1, PlaceMoves, Zenon
  <2>3. InOrder(value', waiters', done', In', max_in_flight) /\ waiters' = waiters
    BY <1>0, <2>1, <2>2, ReleaseInOrder, Zenon
  <2>4. QED
    BY <1>0, <2>1, <2>2, <2>3, Zenon DEF SlotInv, PolicyNeverWaits
<1>6. ASSUME NEW t \in Tasks, enter_limiter(t)
      PROVE  SlotInv'
  BY <1>1, <1>2, <1>6, Zenon DEF enter_limiter
<1>7. ASSUME NEW t \in Tasks, enter_policy(t)
      PROVE  SlotInv'
  <2>1. ~acquire_wait(t)
    BY <1>0, <1>7, Zenon DEF enter_policy, acquire_wait, locked
  <2>2. QED
    BY <1>1, <1>7, <2>1, Zenon DEF enter_policy
<1>8. ASSUME UNCHANGED limiters_vars
      PROVE  SlotInv'
  BY <1>8, Zenon DEF limiters_vars, semaphore, SlotInv, In, Waiting_here,
              PolicyNeverWaits
<1>9. ASSUME NEW t \in Tasks, enter_acquire(t)
      PROVE  SlotInv'
  BY <1>8, <1>9, Zenon DEF enter_acquire, limiters_vars, semaphore
<1>10. QED
  BY <1>3, <1>4, <1>5, <1>6, <1>7, <1>8, <1>9, Zenon DEF SlotNext, Step

(* For any number of tasks: the slots of ConcurrencyLimiter and             *)
(* BackpressurePolicy are conserved, also when the time-out of the 10 ms    *)
(* meets a wake-up, and the policy never makes anybody wait.                *)
THEOREM SlotsConservedHolds == SlotSpec => [](SlotsConserved /\ PolicyNeverWaits)
<1>1. SlotInv => SlotsConserved /\ PolicyNeverWaits
  BY Zenon DEF SlotInv, InOrder, SlotsConserved
<1>2. QED
  BY <1>1, SlotInitInv, SlotStep, LimitersAssumption, PTL DEF SlotSpec

-----------------------------------------------------------------------------
(* The rate limiters.  `allowed` is the history of the grants of the last   *)
(* window, the oldest first.                                                *)

OldestFirst == \A i, j \in DOMAIN allowed : i < j => allowed[i] >= allowed[j]

(* The bucket: the grants from the j-th on, and the tokens left, came out   *)
(* of a bucket that was full at best and what has been refilled since.      *)
BucketInv ==
    \A j \in DOMAIN allowed :
        Len(allowed) - j + 1 + bucket.count + bucket.age * refill_rate
            <= capacity + allowed[j] * refill_rate

(* The local window: the first s grants are of the window before, and older *)
(* than the one that is counted.                                            *)
LocalInv ==
    /\ bucket.count <= limit
    /\ bucket.count = 0 => allowed = <<>>
    /\ \E s \in 0..Len(allowed) :
          /\ s <= limit /\ Len(allowed) - s <= bucket.count
          /\ \A i \in 1..s : allowed[i] >= bucket.age

(* The Redis counter: every grant is counted, and is older than the last    *)
(* request, which started the window anew.                                  *)
RedisInv ==
    /\ Len(allowed) <= bucket.count /\ Len(allowed) <= limit
    /\ \A i \in DOMAIN allowed : allowed[i] >= bucket.age

RateInv ==
    /\ limiter \in {"bucket", "local", "redis"}
    /\ bucket \in [count : Nat, age : Nat]
    /\ allowed \in Seq(0..(window_seconds - 1))
    /\ OldestFirst
    /\ limiter = "bucket" => BucketInv
    /\ limiter = "local" => LocalInv
    /\ limiter = "redis" => RedisInv

(* A rate limiter that has let nobody through satisfies its invariant. *)
LEMMA RateInitInv == ASSUME RateAssumption PROVE RateInit => RateInv
<1> SUFFICES ASSUME RateInit
             PROVE  RateInv
  BY Zenon
<1>1. bucket \in [count : Nat, age : Nat] /\ allowed = <<>> /\ Len(allowed) = 0
  BY Zenon DEF RateInit, RateAssumption
<1>2. \A i \in DOMAIN allowed : FALSE
  BY <1>1
<1>3. LocalInv \/ limiter # "local"
  <2>1. limiter = "local" => bucket.count = 0
    BY Zenon DEF RateInit
  <2>2. QED
    BY <1>1, <2>1 DEF LocalInv, RateAssumption
<1>4. RedisInv
  BY <1>1, <1>2 DEF RedisInv, RateAssumption
<1>5. OldestFirst /\ BucketInv
  BY <1>2, Zenon DEF OldestFirst, BucketInv
<1>6. allowed \in Seq(0..(window_seconds - 1))
  BY <1>1
<1>7. QED
  BY <1>1, <1>3, <1>4, <1>5, <1>6, Zenon DEF RateInv, RateInit

(* A grant is the newest entry of the history. *)
LEMMA GrantAppends ==
    ASSUME RateAssumption, allowed \in Seq(0..(window_seconds - 1)), OldestFirst,
           allowed' = Append(allowed, 0)
    PROVE  /\ Len(allowed) \in Nat /\ Len(allowed') = Len(allowed) + 1
           /\ DOMAIN allowed = 1..Len(allowed) /\ DOMAIN allowed' = 1..(Len(allowed) + 1)
           /\ \A i \in 1..Len(allowed) : allowed'[i] = allowed[i] /\ allowed[i] \in 0..(window_seconds - 1)
           /\ allowed'[Len(allowed) + 1] = 0
           /\ allowed' \in Seq(0..(window_seconds - 1)) /\ OldestFirst'
<1>1. 0 \in 0..(window_seconds - 1)
  BY DEF RateAssumption
<1>2. /\ Len(allowed) \in Nat /\ DOMAIN allowed = 1..Len(allowed)
      /\ \A i \in 1..Len(allowed) : allowed[i] \in 0..(window_seconds - 1)
  BY SeqIsFunction, Zenon
<1>3. /\ Len(allowed') = Len(allowed) + 1 /\ DOMAIN allowed' = 1..(Len(allowed) + 1)
      /\ \A i \in 1..Len(allowed) : allowed'[i] = allowed[i]
      /\ allowed'[Len(allowed) + 1] = 0
  BY <1>1
<1>4. allowed' \in Seq(0..(window_seconds - 1))
  BY <1>1
<1>5. OldestFirst'
  BY <1>2, <1>3 DEF OldestFirst
<1>6. QED
  BY <1>2, <1>3, <1>4, <1>5, Zenon

(* What SMT needs to be told of products. *)
LEMMA Monotone ==
    ASSUME NEW a \in Int, NEW b \in Int, NEW r \in Nat, a <= b
    PROVE  a * r <= b * r
  OBVIOUS

(* A product, one more tick of the clock later. *)
LEMMA OneTickMore ==
    ASSUME NEW a \in Int, NEW r \in Int
    PROVE  (a + 1) * r = a * r + r /\ a * r \in Int
  OBVIOUS

(* TokenBucket.acquire keeps the bound on what the bucket has let through. *)
LEMMA AcquireStep ==
    ASSUME RateAssumption, RateInv, acquire(1)
    PROVE  RateInv'
<1> DEFINE tokens == bucket.count + bucket.age * refill_rate
<1>1. /\ limiter = "bucket" /\ limiter' = limiter /\ BucketInv
      /\ bucket.count \in Nat /\ bucket.age \in Nat /\ bucket.age * refill_rate \in Nat
  BY DEF acquire, Decide, RateInv, RateAssumption
<1>2. refill \in Nat /\ refill <= tokens /\ refill <= capacity
  BY <1>1 DEF refill, RateAssumption
<1>3. CASE refill >= 1
  <2>1. /\ bucket' = [count |-> refill - 1, age |-> 0]
        /\ allowed' = Append(allowed, 0)
    BY <1>3, Zenon DEF acquire, Decide
  <2>2. /\ Len(allowed) \in Nat /\ Len(allowed') = Len(allowed) + 1
        /\ DOMAIN allowed = 1..Len(allowed) /\ DOMAIN allowed' = 1..(Len(allowed) + 1)
        /\ \A i \in 1..Len(allowed) : allowed'[i] = allowed[i] /\ allowed[i] \in 0..(window_seconds - 1)
        /\ allowed'[Len(allowed) + 1] = 0
        /\ allowed' \in Seq(0..(window_seconds - 1)) /\ OldestFirst'
    BY <2>1, GrantAppends, Zenon DEF RateInv
  <2>3. /\ bucket'.count = refill - 1 /\ bucket'.age = 0
        /\ bucket' \in [count : Nat, age : Nat]
    BY <1>2, <1>3, <2>1
  <2>4. BucketInv'
    <3> SUFFICES ASSUME NEW j \in 1..(Len(allowed) + 1)
                 PROVE  Len(allowed) + 1 - j + 1 + (refill - 1) + 0 * refill_rate
                            <= capacity + allowed'[j] * refill_rate
      BY <2>2, <2>3 DEF BucketInv
    <3>1. 0 * refill_rate = 0
      BY DEF RateAssumption
    <3>2. CASE j \in 1..Len(allowed)
      <4> DEFINE refilled == bucket.age * refill_rate
                 since == allowed[j] * refill_rate
      <4>1. Len(allowed) - j + 1 + bucket.count + refilled <= capacity + since
        BY <1>1, <2>2, <3>2, Zenon DEF BucketInv
      <4>2. since \in Int /\ refilled \in Int /\ allowed'[j] = allowed[j]
        <5>1. allowed'[j] = allowed[j] /\ allowed[j] \in 0..(window_seconds - 1)
          BY <2>2, <3>2, Zenon
        <5>2. allowed[j] \in Int /\ refill_rate \in Int
          BY <5>1 DEF RateAssumption
        <5>3. since \in Int
          BY <5>2
        <5>4. refilled \in Int
          BY <1>1
        <5>5. QED
          BY <5>1, <5>3, <5>4, Zenon
      <4>3. refill <= bucket.count + refilled
        BY <1>2, Zenon
      <4> HIDE DEF refilled, since
      <4>4. Len(allowed) + 1 - j + 1 + (refill - 1) + 0 <= capacity + since
        <5>1. Len(allowed) \in Int /\ j \in Int
          BY <2>2, <3>2
        <5>2. bucket.count \in Int /\ capacity \in Int /\ refill \in Int
          BY <1>1, <1>2 DEF RateAssumption
        <5>3. QED
          BY <4>1, <4>2, <4>3, <5>1, <5>2
      <4>5. QED
        BY <3>1, <4>2, <4>4, Zenon DEF since
    <3>3. CASE j = Len(allowed) + 1
      <4>1. allowed'[j] * refill_rate = 0
        BY <2>2, <3>1, <3>3, Zenon
      <4>2. QED
        BY <1>2, <2>2, <3>1, <3>3, <4>1 DEF RateAssumption
    <3>4. QED
      BY <2>2, <3>2, <3>3
  <2>5. QED
    BY <1>1, <2>2, <2>3, <2>4, Zenon DEF RateInv
<1>4. CASE ~(refill >= 1)
  <2>1. bucket' = [count |-> refill, age |-> 0] /\ allowed' = allowed
    BY <1>4, Zenon DEF acquire, Decide
  <2>2. bucket'.count = 0 /\ bucket'.age = 0 /\ bucket' \in [count : Nat, age : Nat]
    BY <1>2, <1>4, <2>1
  <2>3. BucketInv'
    <3> SUFFICES ASSUME NEW j \in DOMAIN allowed
                 PROVE  Len(allowed) - j + 1 + 0 + 0 * refill_rate
                            <= capacity + allowed[j] * refill_rate
      BY <2>1, <2>2, Zenon DEF BucketInv
    <3>1. allowed \in Seq(0..(window_seconds - 1)) /\ j \in 1..Len(allowed)
      BY SeqIsFunction, Zenon DEF RateInv
    <3>2. Len(allowed) \in Nat /\ allowed[j] \in 0..(window_seconds - 1)
      BY <3>1, SeqIsFunction, Zenon
    <3> DEFINE refilled == bucket.age * refill_rate
               since == allowed[j] * refill_rate
    <3>3. Len(allowed) - j + 1 + bucket.count + refilled <= capacity + since
      BY <1>1, Zenon DEF BucketInv
    <3>4. since \in Int /\ refilled \in Nat /\ 0 * refill_rate = 0
      BY <1>1, <3>2 DEF RateAssumption
    <3> HIDE DEF refilled, since
    <3>5. Len(allowed) - j + 1 + 0 + 0 <= capacity + since
      <4>1. Len(allowed) \in Int /\ j \in Int /\ bucket.count \in Nat /\ capacity \in Int
        BY <1>1, <3>1, <3>2 DEF RateAssumption
      <4>2. QED
        BY <3>3, <3>4, <4>1
    <3>6. QED
      BY <3>4, <3>5, Zenon DEF since
  <2>4. QED
    BY <1>1, <2>1, <2>2, <2>3, Zenon DEF RateInv, OldestFirst
<1>5. QED
  BY <1>3, <1>4, Zenon

(* RateLimiter.check in memory: a window that is over leaves all its grants *)
(* to the window before, of which none is left by then.                     *)
LEMMA LocalStep ==
    ASSUME RateAssumption, RateInv, local_check
    PROVE  RateInv'
<1> DEFINE over == bucket.count = 0 \/ bucket.age >= window_seconds
           n == IF over THEN 0 ELSE bucket.count
<1>1. /\ limiter = "local" /\ limiter' = limiter /\ LocalInv
      /\ bucket.count \in Nat /\ bucket.age \in Nat /\ n \in Nat
      /\ allowed \in Seq(0..(window_seconds - 1)) /\ OldestFirst
  BY Zenon DEF local_check, Decide, RateInv
<1>2. CASE n < limit
  <2>1. /\ bucket' = [count |-> n + 1, age |-> IF over THEN 0 ELSE bucket.age]
        /\ allowed' = Append(allowed, 0)
    BY <1>2, Zenon DEF local_check, Decide
  <2>2. /\ Len(allowed) \in Nat /\ Len(allowed') = Len(allowed) + 1
        /\ DOMAIN allowed = 1..Len(allowed) /\ DOMAIN allowed' = 1..(Len(allowed) + 1)
        /\ \A i \in 1..Len(allowed) : allowed'[i] = allowed[i] /\ allowed[i] \in 0..(window_seconds - 1)
        /\ allowed'[Len(allowed) + 1] = 0
        /\ allowed' \in Seq(0..(window_seconds - 1)) /\ OldestFirst'
    BY <1>1, <2>1, GrantAppends, Zenon
  <2>3. /\ bucket'.count = n + 1 /\ bucket'.age = IF over THEN 0 ELSE bucket.age
        /\ bucket' \in [count : Nat, age : Nat]
    BY <1>1, <2>1
  <2>4. PICK s \in 0..Len(allowed) :
            /\ s <= limit /\ Len(allowed) - s <= bucket.count
            /\ \A i \in 1..s : allowed[i] >= bucket.age
    BY <1>1, Zenon DEF LocalInv
  <2>5. \E t \in 0..Len(allowed') :
            /\ t <= limit /\ Len(allowed') - t <= bucket'.count
            /\ \A i \in 1..t : allowed'[i] >= bucket'.age
    <3>1. CASE over
      <4>1. Len(allowed) <= limit
        <5>1. CASE bucket.count = 0
          BY <1>1, <2>2, <5>1, Zenon DEF LocalInv, RateAssumption
        <5>2. CASE bucket.age >= window_seconds
          <6>1. s = 0
            BY <1>1, <2>2, <2>4, <5>2 DEF RateAssumption
          <6>2. QED
            BY <1>1, <2>2, <2>4, <6>1 DEF LocalInv, RateAssumption
        <5>3. QED
          BY <3>1, <5>1, <5>2, Zenon
      <4>2. \A i \in 1..Len(allowed) : allowed'[i] >= 0
        BY <2>2 DEF RateAssumption
      <4>3. bucket'.age = 0 /\ bucket'.count = 1
        BY <2>3, <3>1
      <4>4. QED
        BY <2>2, <4>1, <4>2, <4>3
    <3>2. CASE ~over
      <4>1. bucket'.age = bucket.age /\ bucket'.count = bucket.count + 1
        BY <2>3, <3>2, Zenon
      <4>2. \A i \in 1..s : allowed'[i] >= bucket.age
        BY <2>2, <2>4
      <4>3. QED
        BY <1>1, <2>2, <2>4, <4>1, <4>2
    <3>3. QED
      BY <3>1, <3>2, Zenon
  <2>6. LocalInv'
    <3>1. bucket'.count <= limit /\ bucket'.count # 0
      BY <1>1, <1>2, <2>3 DEF RateAssumption
    <3>2. QED
      BY <2>5, <3>1, Zenon DEF LocalInv
  <2>7. QED
    BY <1>1, <2>2, <2>3, <2>6, Zenon DEF RateInv
<1>3. CASE ~(n < limit)
  <2>1. bucket' = bucket /\ allowed' = allowed
    BY <1>3, Zenon DEF local_check, Decide
  <2>2. QED
    BY <1>1, <2>1, Zenon DEF RateInv, LocalInv, OldestFirst
<1>4. QED
  BY <1>2, <1>3, Zenon

(* RedisRateLimiter.check: a grant is counted before it is given. *)
LEMMA RedisStep ==
    ASSUME RateAssumption, RateInv, redis_check
    PROVE  RateInv'
<1> DEFINE n == bucket.count + 1
<1>1. /\ limiter = "redis" /\ limiter' = limiter /\ RedisInv
      /\ bucket.count \in Nat /\ bucket.age \in Nat
      /\ allowed \in Seq(0..(window_seconds - 1)) /\ OldestFirst
      /\ bucket' = [count |-> IF n > limit + 1 THEN limit + 1 ELSE n, age |-> 0]
  BY Zenon DEF redis_check, Decide, RateInv
<1>2. /\ Len(allowed) \in Nat /\ DOMAIN allowed = 1..Len(allowed)
      /\ \A i \in 1..Len(allowed) : allowed[i] \in 0..(window_seconds - 1)
  BY <1>1, SeqIsFunction, Zenon
<1>3. /\ bucket'.count = (IF n > limit + 1 THEN limit + 1 ELSE n) /\ bucket'.age = 0
      /\ bucket' \in [count : Nat, age : Nat]
  BY <1>1 DEF RateAssumption
<1>4. CASE n <= limit
  <2>1. allowed' = Append(allowed, 0)
    BY <1>4, Zenon DEF redis_check, Decide
  <2>2. /\ Len(allowed') = Len(allowed) + 1
        /\ DOMAIN allowed' = 1..(Len(allowed) + 1)
        /\ \A i \in 1..Len(allowed) : allowed'[i] = allowed[i]
        /\ allowed'[Len(allowed) + 1] = 0
        /\ allowed' \in Seq(0..(window_seconds - 1)) /\ OldestFirst'
    BY <1>1, <2>1, GrantAppends, Zenon
  <2>3. \A i \in DOMAIN allowed' : allowed'[i] >= 0
    BY <1>2, <2>2 DEF RateAssumption
  <2>4. RedisInv'
    BY <1>1, <1>2, <1>3, <1>4, <2>2, <2>3 DEF RedisInv, RateAssumption
  <2>5. QED
    BY <1>1, <1>3, <2>2, <2>4, Zenon DEF RateInv
<1>5. CASE ~(n <= limit)
  <2>1. allowed' = allowed
    BY <1>5, Zenon DEF redis_check, Decide
  <2>2. \A i \in DOMAIN allowed : allowed[i] >= 0
    BY <1>2 DEF RateAssumption
  <2>3. RedisInv'
    BY <1>1, <1>2, <1>3, <1>5, <2>1, <2>2 DEF RedisInv, RateAssumption
  <2>4. QED
    BY <1>1, <1>3, <2>1, <2>3, Zenon DEF RateInv, OldestFirst
<1>6. QED
  BY <1>4, <1>5, Zenon

(* What is before the first that stays is what goes. *)
LEMMA BeforeLeast ==
    ASSUME NEW i \in Nat, NEW k \in Nat, NEW a \in Nat, NEW b \in Nat, NEW w \in Nat,
           b + 1 < w, i < k => ~(a + 1 < w), i = k => a = b, i > k => a <= b
    PROVE  i <= k - 1 <=> a + 1 >= w
  OBVIOUS

(* The grants that leave the window are a prefix of the history. *)
LEMMA GoneIsPrefix ==
    ASSUME RateAssumption, allowed \in Seq(0..(window_seconds - 1)), OldestFirst
    PROVE  \E n \in 0..Len(allowed) :
               \A i \in DOMAIN allowed : i <= n <=> allowed[i] + 1 >= window_seconds
<1> DEFINE staying == {i \in DOMAIN allowed : allowed[i] + 1 < window_seconds}
<1>1. /\ Len(allowed) \in Nat /\ DOMAIN allowed = 1..Len(allowed)
      /\ \A i \in 1..Len(allowed) : allowed[i] \in 0..(window_seconds - 1)
  BY SeqIsFunction, Zenon
<1>2. CASE staying = {}
  <2>1. \A i \in DOMAIN allowed : i <= Len(allowed) /\ allowed[i] + 1 >= window_seconds
    BY <1>1, <1>2 DEF RateAssumption
  <2>2. QED
    BY <1>1, <2>1
<1>3. CASE staying # {}
  <2>1. PICK k \in staying : \A j \in staying : k <= j
    <3>1. staying \in SUBSET Nat
      BY <1>1
    <3>2. QED
      BY <1>3, <3>1, LeastElement, Zenon
  <2>2. k - 1 \in 0..Len(allowed)
    BY <1>1, <2>1
  <2>3. \A i \in DOMAIN allowed : i <= k - 1 <=> allowed[i] + 1 >= window_seconds
    <3> SUFFICES ASSUME NEW i \in 1..Len(allowed)
                 PROVE  i <= k - 1 <=> allowed[i] + 1 >= window_seconds
      BY <1>1, Zenon
    <3>1. /\ k \in 1..Len(allowed) /\ allowed[k] + 1 < window_seconds
          /\ allowed[k] \in Nat /\ allowed[i] \in Nat /\ window_seconds \in Nat
      BY <1>1, <2>1 DEF RateAssumption
    <3>2. i < k => ~(allowed[i] + 1 < window_seconds)
      <4>1. i \in staying => k <= i
        BY <2>1, Zenon
      <4>2. allowed[i] + 1 < window_seconds => i \in staying
        BY <1>1, Zenon
      <4>3. QED
        BY <3>1, <4>1, <4>2
    <3>3. i > k => allowed[i] <= allowed[k]
      BY <1>1, <3>1, Zenon DEF OldestFirst
    <3>4. i \in Nat /\ k \in Nat /\ (i = k => allowed[i] = allowed[k])
      BY <3>1
    <3>5. QED
      BY <3>1, <3>2, <3>3, <3>4, BeforeLeast, Zenon
  <2>4. QED
    BY <2>2, <2>3, Zenon
<1>4. QED
  BY <1>2, <1>3, Zenon

(* A tick ages the grants that stay, and keeps their order. *)
LEMMA TickAges ==
    ASSUME RateAssumption, allowed \in Seq(0..(window_seconds - 1)), OldestFirst,
           RateTick
    PROVE  \E gone \in 0..Len(allowed) :
               /\ Len(allowed') = Len(allowed) - gone
               /\ DOMAIN allowed' = 1..(Len(allowed) - gone)
               /\ \A i \in 1..(Len(allowed) - gone) :
                     /\ i + gone \in DOMAIN allowed
                     /\ allowed'[i] = allowed[i + gone] + 1
                     /\ allowed'[i] \in 0..(window_seconds - 1)
               /\ allowed' \in Seq(0..(window_seconds - 1)) /\ OldestFirst'
<1> DEFINE IsGone(n) == \A i \in DOMAIN allowed : i <= n <=> allowed[i] + 1 >= window_seconds
           gone == CHOOSE n \in 0..Len(allowed) : IsGone(n)
<1>1. /\ Len(allowed) \in Nat /\ DOMAIN allowed = 1..Len(allowed)
      /\ \A i \in 1..Len(allowed) : allowed[i] \in 0..(window_seconds - 1)
  BY SeqIsFunction, Zenon
<1>2. gone \in 0..Len(allowed) /\ IsGone(gone)
  <2>1. \E n \in 0..Len(allowed) : IsGone(n)
    BY GoneIsPrefix, Zenon
  <2> HIDE DEF IsGone
  <2>2. QED
    BY <2>1, Zenon
<1>3. allowed' = [i \in 1..(Len(allowed) - gone) |-> allowed[i + gone] + 1]
  BY Zenon DEF RateTick
<1> HIDE DEF gone
<1>4. Len(allowed) - gone \in Nat
  BY <1>1, <1>2
<1>5. \A i \in 1..(Len(allowed) - gone) :
          /\ i + gone \in DOMAIN allowed
          /\ allowed[i + gone] + 1 \in 0..(window_seconds - 1)
  BY <1>1, <1>2 DEF RateAssumption
<1>6. allowed' \in Seq(0..(window_seconds - 1)) /\ Len(allowed') = Len(allowed) - gone
  <2>1. allowed' \in [1..(Len(allowed) - gone) -> 0..(window_seconds - 1)]
    BY <1>3, <1>5, Zenon
  <2>2. allowed' \in Seq(0..(window_seconds - 1))
    BY <1>4, <2>1, FunctionIsSeq, Zenon
  <2>3. DOMAIN allowed' = 1..(Len(allowed) - gone) /\ DOMAIN allowed' = 1..Len(allowed')
    BY <1>3, <2>2, SeqIsFunction, Zenon
  <2>4. Len(allowed') \in Nat
    BY <2>2, SeqIsFunction, Zenon
  <2>5. QED
    BY <1>4, <2>2, <2>3, <2>4
<1>7. DOMAIN allowed' = 1..(Len(allowed) - gone)
  BY <1>3, Zenon
<1>8. \A i \in 1..(Len(allowed) - gone) :
          allowed'[i] = allowed[i + gone] + 1 /\ allowed'[i] \in 0..(window_seconds - 1)
  BY <1>3, <1>5, Zenon
<1>9. OldestFirst'
  <2> SUFFICES ASSUME NEW i \in 1..(Len(allowed) - gone), NEW j \in 1..(Len(allowed) - gone), i < j
               PROVE  allowed'[i] >= allowed'[j]
    BY <1>7, Zenon DEF OldestFirst
  <2>1. i + gone < j + gone
    BY <1>1, <1>2
  <2>2. allowed[i + gone] >= allowed[j + gone]
    BY <1>5, <2>1, Zenon DEF OldestFirst
  <2>3. allowed[i + gone] \in Int /\ allowed[j + gone] \in Int
    BY <1>1, <1>5
  <2>4. QED
    BY <1>8, <2>2, <2>3
<1>10. QED
  BY <1>2, <1>5, <1>6, <1>7, <1>8, <1>9, Zenon

(* The passing of time keeps the invariant: grants age, the oldest leave. *)
LEMMA TickStep ==
    ASSUME RateAssumption, RateInv, RateTick
    PROVE  RateInv'
<1>1. /\ limiter' = limiter /\ limiter \in {"bucket", "local", "redis"}
      /\ bucket.count \in Nat /\ bucket.age \in Nat /\ bucket \in [count : Nat, age : Nat]
      /\ allowed \in Seq(0..(window_seconds - 1)) /\ OldestFirst
  BY Zenon DEF RateTick, RateInv
<1>2. /\ Len(allowed) \in Nat /\ DOMAIN allowed = 1..Len(allowed)
      /\ \A i \in 1..Len(allowed) : allowed[i] \in 0..(window_seconds - 1)
  BY <1>1, SeqIsFunction, Zenon
<1>3. PICK gone \in 0..Len(allowed) :
          /\ Len(allowed') = Len(allowed) - gone
          /\ DOMAIN allowed' = 1..(Len(allowed) - gone)
          /\ \A i \in 1..(Len(allowed) - gone) :
                /\ i + gone \in DOMAIN allowed
                /\ allowed'[i] = allowed[i + gone] + 1
                /\ allowed'[i] \in 0..(window_seconds - 1)
          /\ allowed' \in Seq(0..(window_seconds - 1)) /\ OldestFirst'
  BY <1>1, TickAges, Zenon
<1>4. ASSUME ~(limiter = "redis" /\ bucket.age + 1 >= window_seconds)
      PROVE  /\ bucket' \in [count : Nat, age : Nat] /\ bucket'.count = bucket.count
             /\ bucket'.age = bucket.age \/ bucket'.age = bucket.age + 1
  <2>1. bucket' = [bucket EXCEPT !.age = IF @ < MaxAge THEN @ + 1 ELSE @]
    BY <1>4, Zenon DEF RateTick
  <2>2. QED
    BY <1>1, <2>1
<1>5. CASE limiter = "bucket"
  <2>1. BucketInv'
    <3> SUFFICES ASSUME NEW j \in 1..(Len(allowed) - gone)
                 PROVE  Len(allowed) - gone - j + 1 + bucket'.count + bucket'.age * refill_rate
                            <= capacity + allowed'[j] * refill_rate
      BY <1>3, Zenon DEF BucketInv
    <3> DEFINE refilled == bucket.age * refill_rate
               since == allowed[j + gone] * refill_rate
               refilled_then == bucket'.age * refill_rate
               since_then == allowed'[j] * refill_rate
    <3>1. Len(allowed) - (j + gone) + 1 + bucket.count + refilled <= capacity + since
      BY <1>3, <1>5, Zenon DEF BucketInv, RateInv
    <3>2. /\ Len(allowed) \in Int /\ j \in Int /\ gone \in Int /\ bucket.count \in Int
          /\ capacity \in Int /\ refill_rate \in Nat /\ allowed[j + gone] \in Int /\ bucket.age \in Int
      BY <1>1, <1>2, <1>3 DEF RateAssumption
    <3>3. refilled \in Int /\ since \in Int
      BY <3>2
    <3>4. since_then = since + refill_rate
      BY <1>3, <3>2, OneTickMore
    <3>5. refilled_then = refilled \/ refilled_then = refilled + refill_rate
      BY <1>4, <1>5, <3>2, OneTickMore
    <3>6. bucket'.count = bucket.count
      BY <1>4, <1>5, Zenon
    <3> HIDE DEF refilled, since, refilled_then, since_then
    <3>7. Len(allowed) - gone - j + 1 + bucket'.count + refilled_then <= capacity + since_then
      BY <3>1, <3>2, <3>3, <3>4, <3>5, <3>6
    <3>8. QED
      BY <3>7, Zenon DEF refilled_then, since_then
  <2>2. QED
    BY <1>1, <1>3, <1>4, <1>5, <2>1, Zenon DEF RateInv
<1>6. CASE limiter = "local"
  <2>1. LocalInv
    BY <1>6, Zenon DEF RateInv
  <2>2. PICK s \in 0..Len(allowed) :
            /\ s <= limit /\ Len(allowed) - s <= bucket.count
            /\ \A i \in 1..s : allowed[i] >= bucket.age
    BY <2>1, Zenon DEF LocalInv
  <2> DEFINE t == IF s <= gone THEN 0 ELSE s - gone
  <2>3. /\ t \in 0..Len(allowed') /\ t <= limit /\ Len(allowed') - t <= bucket.count
    BY <1>1, <1>2, <1>3, <2>2 DEF RateAssumption
  <2>4. \A i \in 1..t : allowed'[i] >= bucket'.age
    <3> SUFFICES ASSUME NEW i \in 1..t
                 PROVE  allowed'[i] >= bucket'.age
      BY Zenon
    <3>1. i + gone \in 1..s /\ i \in 1..(Len(allowed) - gone)
      BY <1>2, <1>3, <2>2
    <3>2. allowed'[i] = allowed[i + gone] + 1 /\ allowed[i + gone] >= bucket.age
      BY <1>3, <2>2, <3>1, Zenon
    <3>3. allowed[i + gone] \in Int
      BY <1>2, <1>3, <3>1
    <3>4. QED
      BY <1>1, <1>4, <1>6, <3>2, <3>3
  <2>5. bucket.count = 0 => allowed' = <<>>
    BY <1>2, <1>3, <2>1 DEF LocalInv
  <2>6. LocalInv'
    BY <1>4, <1>6, <2>1, <2>3, <2>4, <2>5, Zenon DEF LocalInv
  <2>7. QED
    BY <1>1, <1>3, <1>4, <1>6, <2>6, Zenon DEF RateInv
<1>7. CASE limiter = "redis"
  <2>1. RedisInv
    BY <1>7, Zenon DEF RateInv
  <2>2. CASE bucket.age + 1 >= window_seconds
    <3>1. bucket' = [count |-> 0, age |-> 0]
      BY <1>7, <2>2, Zenon DEF RateTick
    <3>2. \A i \in 1..Len(allowed) : allowed[i] + 1 >= window_seconds
      <4> SUFFICES ASSUME NEW i \in 1..Len(allowed)
                   PROVE  allowed[i] + 1 >= window_seconds
        BY Zenon
      <4>1. allowed[i] >= bucket.age /\ allowed[i] \in Nat
        BY <1>2, <2>1 DEF RedisInv
      <4>2. QED
        BY <1>1, <2>2, <4>1 DEF RateAssumption
    <3>3. Len(allowed) - gone = 0
      <4> SUFFICES ASSUME NEW i \in 1..(Len(allowed) - gone)
                   PROVE  FALSE
        <5>1. Len(allowed) - gone \in Nat
          BY <1>2
        <5>2. Len(allowed) - gone # 0 => 1 \in 1..(Len(allowed) - gone)
          BY <5>1
        <5>3. QED
          BY <5>2, Zenon
      <4>1. /\ i + gone \in 1..Len(allowed) /\ allowed'[i] = allowed[i + gone] + 1
            /\ allowed'[i] \in 0..(window_seconds - 1)
        BY <1>2, <1>3, Zenon
      <4>2. allowed[i + gone] + 1 >= window_seconds
        BY <3>2, <4>1, Zenon
      <4>3. QED
        BY <4>1, <4>2 DEF RateAssumption
    <3>4. allowed' = <<>>
      BY <1>3, <3>3
    <3>5. RedisInv'
      BY <3>1, <3>4 DEF RedisInv, RateAssumption
    <3>6. QED
      BY <1>1, <1>3, <1>7, <3>1, <3>5, Zenon DEF RateInv
  <2>3. CASE ~(bucket.age + 1 >= window_seconds)
    <3>1. \A i \in DOMAIN allowed' : allowed'[i] >= bucket'.age
      <4> SUFFICES ASSUME NEW i \in 1..(Len(allowed) - gone)
                   PROVE  allowed'[i] >= bucket'.age
        BY <1>3, Zenon
      <4>1. /\ i + gone \in DOMAIN allowed /\ allowed'[i] = allowed[i + gone] + 1
            /\ allowed[i + gone] \in Nat
        BY <1>2, <1>3
      <4>2. allowed[i + gone] >= bucket.age
        BY <2>1, <4>1, Zenon DEF RedisInv
      <4>3. QED
        BY <1>1, <1>4, <2>3, <4>1, <4>2
    <3>2. Len(allowed') <= bucket'.count /\ Len(allowed') <= limit
      BY <1>1, <1>2, <1>3, <1>4, <2>1, <2>3 DEF RedisInv, RateAssumption
    <3>3. QED
      BY <1>1, <1>3, <1>4, <1>7, <2>3, <3>1, <3>2, Zenon DEF RateInv, RedisInv
  <2>4. QED
    BY <2>2, <2>3, Zenon
<1>8. QED
  BY <1>1, <1>5, <1>6, <1>7, Zenon

(* Every step of the rate limiters keeps the invariant. *)
LEMMA RateStep ==
    ASSUME RateAssumption, RateInv, [RateNext]_limiter_vars
    PROVE  RateInv'
<1>1. CASE reset
  <2>1. /\ bucket' = [count |-> 0, age |-> 0] /\ allowed' = <<>>
        /\ limiter' = limiter /\ limiter # "bucket"
    BY <1>1, Zenon DEF reset
  <2>2. /\ Len(allowed') = 0 /\ DOMAIN allowed' = {} /\ bucket'.count = 0 /\ bucket'.age = 0
        /\ allowed' \in Seq(0..(window_seconds - 1)) /\ bucket' \in [count : Nat, age : Nat]
    BY <2>1
  <2>3. LocalInv' /\ RedisInv' /\ OldestFirst'
    BY <2>1, <2>2 DEF LocalInv, RedisInv, OldestFirst, RateAssumption
  <2>4. QED
    BY <2>1, <2>2, <2>3, Zenon DEF RateInv
<1>2. CASE UNCHANGED limiter_vars
  BY <1>2, Zenon DEF limiter_vars, RateInv, OldestFirst, BucketInv, LocalInv, RedisInv
<1>3. QED
  BY <1>1, <1>2, AcquireStep, LocalStep, RedisStep, TickStep, Zenon
  DEF RateNext, check

(* The quota follows: the oldest grant of the history is younger than the  *)
(* window.                                                                  *)
LEMMA RateInvGivesQuota ==
    ASSUME RateAssumption, RateInv
    PROVE  QuotaKept
<1>1. allowed \in Seq(0..(window_seconds - 1)) /\ limiter \in {"bucket", "local", "redis"}
  BY Zenon DEF RateInv
<1>2. /\ Len(allowed) \in Nat /\ DOMAIN allowed = 1..Len(allowed)
      /\ \A i \in 1..Len(allowed) : allowed[i] \in 0..(window_seconds - 1)
  BY <1>1, SeqIsFunction, Zenon
<1>3. CASE limiter = "bucket"
  <2> DEFINE top == (window_seconds - 1) * refill_rate
  <2>1. top \in Nat /\ capacity \in Nat
    BY DEF RateAssumption
  <2>2. Len(allowed) <= capacity + top
    <3>1. CASE Len(allowed) = 0
      BY <2>1, <3>1
    <3>2. CASE Len(allowed) # 0
      <4> DEFINE refilled == bucket.age * refill_rate
                 since == allowed[1] * refill_rate
      <4>1. Len(allowed) - 1 + 1 + bucket.count + refilled <= capacity + since
        <5>1. 1 \in DOMAIN allowed /\ BucketInv
          BY <1>2, <1>3, <3>2 DEF RateInv
        <5>2. QED
          BY <5>1, Zenon DEF BucketInv
      <4>2. /\ bucket.age \in Nat /\ refill_rate \in Nat /\ allowed[1] \in Nat
            /\ window_seconds - 1 \in Nat /\ allowed[1] <= window_seconds - 1 /\ bucket.count \in Nat
        BY <1>2, <3>2 DEF RateInv, RateAssumption
      <4>3. refilled \in Nat /\ since \in Nat /\ since <= top
        BY <4>2, Monotone
      <4> HIDE DEF refilled, since, top
      <4>4. QED
        BY <1>2, <2>1, <4>1, <4>2, <4>3
    <3>3. QED
      BY <3>1, <3>2, Zenon
  <2>3. QED
    BY <1>3, <2>2, Zenon DEF QuotaKept
<1>4. CASE limiter = "local"
  BY <1>2, <1>4 DEF RateInv, LocalInv, QuotaKept, RateAssumption
<1>5. CASE limiter = "redis"
  BY <1>2, <1>5, Zenon DEF RateInv, RedisInv, QuotaKept, RateAssumption
<1>6. QED
  BY <1>1, <1>3, <1>4, <1>5, Zenon

(* Rounded up, a quotient times its divisor is not less than the dividend. *)
LEMMA RoundedUp ==
    ASSUME NEW a \in Nat, NEW b \in Nat \ {0}
    PROVE  ((a + b - 1) \div b) * b >= a
  OBVIOUS

(* Waiting for retry_after refills the tokens that were missing. *)
LEMMA RateInvGivesRetry ==
    ASSUME RateAssumption, RateInv
    PROVE  RetryAfterIsEnough
<1> SUFFICES ASSUME limiter = "bucket", bucket.age = 0, NEW tokens \in 1..capacity
             PROVE  bucket.count + retry_after(tokens) * refill_rate >= tokens
  BY Zenon DEF RetryAfterIsEnough
<1>1. bucket.count \in Nat /\ refill_rate \in Nat \ {0} /\ tokens \in Nat
  BY DEF RateInv, RateAssumption
<1>2. CASE bucket.count >= tokens
  BY <1>1, <1>2 DEF retry_after
<1>3. CASE ~(bucket.count >= tokens)
  <2> DEFINE a == tokens - bucket.count
             wait == ((a + refill_rate - 1) \div refill_rate) * refill_rate
  <2>1. a \in Nat
    BY <1>1, <1>3
  <2>2. retry_after(tokens) * refill_rate = wait
    BY <1>1, <1>3, Zenon DEF retry_after
  <2> HIDE DEF a
  <2>3. wait >= a /\ wait \in Int
    BY <1>1, <2>1, RoundedUp
  <2> HIDE DEF wait
  <2>4. QED
    BY <1>1, <2>2, <2>3 DEF a
<1>4. QED
  BY <1>2, <1>3, Zenon

(* The rate limiters keep their quota: in any stretch of window_seconds the *)
(* bucket grants at most its capacity and what is refilled meanwhile, the   *)
(* local window twice its limit, the Redis counter its limit; the wait a    *)
(* ThrottledError names is enough; and of the slots none is lost.           *)
THEOREM LimitsKeptHolds == RateSpec /\ SlotSpec => []LimitsKept
<1>1. RateInit => RateInv
  BY RateInitInv, LimitersAssumption, Zenon
<1>2. RateInv /\ [RateNext]_limiter_vars => RateInv'
  BY RateStep, LimitersAssumption, Zenon
<1>3. RateInv => QuotaKept /\ RetryAfterIsEnough
  BY RateInvGivesQuota, RateInvGivesRetry, LimitersAssumption, Zenon
<1>4. QuotaKept /\ RetryAfterIsEnough /\ SlotsConserved /\ PolicyNeverWaits => LimitsKept
  BY Zenon DEF LimitsKept
<1>5. QED
  BY <1>1, <1>2, <1>3, <1>4, SlotsConservedHolds, PTL DEF RateSpec

-----------------------------------------------------------------------------
(* The lock.                                                                *)

(* Who is in the critical section with time left owns the Redis key. *)
LockInv == LockTypeOK /\ \A c \in Clients : client[c] = "in" => key.owner = c

(* Every step keeps LockInv: a free key has no owner, so whoever acquires   *)
(* it is alone; a late client's release compares a token that is no longer  *)
(* the key's; and the tick that frees the key makes its holder late.        *)
LEMMA LockStep == LockInv /\ [LockNext]_lock_vars => LockInv'
<1> SUFFICES ASSUME LockInv, [LockNext]_lock_vars
             PROVE  LockInv'
  BY Zenon
<1> USE LockAssumption DEF LockInv, LockTypeOK, Free
<1>1. CASE LockTick
  BY <1>1 DEF LockTick
<1>2. ASSUME NEW c \in Clients, lock_acquire(c)
      PROVE  LockInv'
  <2>1. \A d \in Clients : client[d] # "in"
    BY <1>2, Zenon DEF lock_acquire
  <2>2. QED
    BY <1>2, <2>1 DEF lock_acquire
<1>3. ASSUME NEW c \in Clients, lock_acquire_lost(c)
      PROVE  LockInv'
  BY <1>3 DEF lock_acquire_lost
<1>4. ASSUME NEW c \in Clients, lock_release(c)
      PROVE  LockInv'
  BY <1>4 DEF lock_release
<1>5. ASSUME NEW c \in Clients, leave(c)
      PROVE  LockInv'
  BY <1>5, Zenon DEF leave
<1>6. CASE UNCHANGED lock_vars
  BY <1>6, Zenon DEF lock_vars
<1>7. QED
  BY <1>1, <1>2, <1>3, <1>4, <1>5, <1>6, Zenon DEF LockNext

(* However acquisitions, releases, crashes, lost replies and expiries       *)
(* interleave, at most one client is in its critical section with time      *)
(* left, and the key of RedisLock is that client's.                         *)
THEOREM OneHolderHolds == LockSpec => []OneHolder
<1>1. LockInit => LockInv
  BY LockAssumption DEF LockInit, LockInv, LockTypeOK, Free
<1>2. LockInv /\ [LockNext]_lock_vars => LockInv'
  BY LockStep, Zenon
<1>3. LockInv => OneHolder
  <2> SUFFICES ASSUME LockInv
               PROVE  OneHolder
    BY Zenon
  <2> DEFINE holders == {c \in Clients : client[c] = "in"}
  <2>1. holders \subseteq {key.owner}
    BY Zenon DEF LockInv
  <2>2. IsFiniteSet({key.owner}) /\ Cardinality({key.owner}) = 1
    BY FS_Singleton, Zenon
  <2> DEFINE owner == {key.owner}
  <2>3. IsFiniteSet(owner) /\ holders \in SUBSET owner
    BY <2>1, <2>2, Zenon
  <2> HIDE DEF holders, owner
  <2>4. Cardinality(holders) <= Cardinality(owner)
    BY <2>3, FS_Subset, Zenon
  <2>5. Cardinality(holders) <= 1
    BY <2>2, <2>4, Zenon DEF owner
  <2>6. QED
    BY <2>5, Zenon DEF OneHolder, LockInv, holders
<1>4. QED
  BY <1>1, <1>2, <1>3, PTL DEF LockSpec
=============================================================================
