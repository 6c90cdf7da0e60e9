----------------------- MODULE MediaFrameQueueProofs -----------------------
(***************************************************************************)
(* What holds of MediaFrameQueue for every capacity, every number of       *)
(* threads and every set of frames.                                        *)
(*                                                                         *)
(* The inductive invariant IInv adds two facts to the properties: the tail *)
(* is where the header and the size say it is (RingOK), and a producer     *)
(* holds a frame exactly while it is blocked (HeldByBlocked).  For the     *)
(* action property on lost frames SignalledHasRoom is needed too: between  *)
(* the signal and the moment the signalled producer has the mutex, nobody  *)
(* fills the slot that was freed for it.  The last section is about cleans *)
(* of the video queue (VideoGaps).                                         *)
(***************************************************************************)
EXTENDS VideoGaps, SequenceTheorems, TLAPS

------------------------------------------------------------------------------
\* Arithmetic of the ring.  An index stays a sum below twice the capacity, so
\* that a remainder is the index itself or the index less one turn.
LEMMA ModStays ==
  ASSUME NEW x \in 0..Capacity - 1
  PROVE  x % Capacity = x
BY QueueAssumption, Z3

LEMMA ModWraps ==
  ASSUME NEW x \in Capacity..2 * Capacity - 1
  PROVE  x % Capacity = x - Capacity
BY QueueAssumption, Z3

\* A remainder is an index of the ring.
LEMMA ModRange ==
  ASSUME NEW x \in 0..2 * Capacity - 1
  PROVE  x % Capacity \in 0..Capacity - 1
<1> USE QueueAssumption
<1>1. CASE x \in 0..Capacity - 1
  BY <1>1, ModStays
<1>2. CASE x \in Capacity..2 * Capacity - 1
  BY <1>2, ModWraps
<1> QED  BY <1>1, <1>2

\* Slots counted from the header are all different.
LEMMA SlotsDiffer ==
  ASSUME NEW h \in 0..Capacity - 1,
         NEW a \in 0..Capacity - 1, NEW b \in 0..Capacity - 1,
         (h + a) % Capacity = (h + b) % Capacity
  PROVE  a = b
<1> USE QueueAssumption
<1>1. h + a \in 0..2 * Capacity - 1 /\ h + b \in 0..2 * Capacity - 1
  OBVIOUS
<1>2. CASE h + a < Capacity /\ h + b < Capacity
  BY <1>2, ModStays
<1>3. CASE h + a < Capacity /\ h + b >= Capacity
  BY <1>3, ModStays, ModWraps
<1>4. CASE h + a >= Capacity /\ h + b < Capacity
  BY <1>4, ModStays, ModWraps
<1>5. CASE h + a >= Capacity /\ h + b >= Capacity
  BY <1>5, ModWraps
<1> QED  BY <1>1, <1>2, <1>3, <1>4, <1>5

\* Moving the header by k and counting j slots from there is counting k + j.
LEMMA SlotAfterMove ==
  ASSUME NEW h \in 0..Capacity - 1, NEW k \in 0..Capacity, NEW j \in 0..Capacity,
         k + j <= Capacity
  PROVE  (((h + k) % Capacity) + j) % Capacity = (h + (k + j)) % Capacity
<1> USE QueueAssumption
<1> DEFINE C == Capacity
<1>1. CASE h + k + j < C
  BY <1>1, ModStays
<1>2. CASE h + k < C /\ h + k + j >= C
  BY <1>2, ModStays, ModWraps
<1>3. CASE h + k >= C
  <2>1. h + k - C \in 0..C - 1 /\ h + k - C + j \in 0..C - 1
    BY <1>3
  <2>2. (h + k) % C = h + k - C
    BY <1>3, ModWraps
  <2>3. (h + k - C + j) % C = h + k - C + j
    BY <2>1, ModStays
  <2>4. (h + (k + j)) % C = h + (k + j) - C
    BY <1>3, ModWraps
  <2> QED  BY <2>1, <2>2, <2>3, <2>4
<1> QED  BY <1>1, <1>2, <1>3
------------------------------------------------------------------------------
\* The sequence that n slots of the array d from slot h on stand for.
RingSeq(d, h, n) == [i \in 1..n |-> d[(h + (i - 1)) % Capacity]]

\* It is a sequence of that length, read slot by slot.
RingSeqReads(S, d, h, n) ==
  /\ RingSeq(d, h, n) \in Seq(S)
  /\ Len(RingSeq(d, h, n)) = n
  /\ \A i \in 1..n : RingSeq(d, h, n)[i] = d[(h + (i - 1)) % Capacity]

LEMMA RingSeqType ==
  ASSUME NEW S, NEW d \in [0..Capacity - 1 -> S],
         NEW h \in 0..Capacity - 1, NEW n \in 0..Capacity
  PROVE  RingSeqReads(S, d, h, n)
<1> USE QueueAssumption
<1>1. \A i \in 1..n : h + (i - 1) \in 0..2 * Capacity - 1
  OBVIOUS
<1>2. \A i \in 1..n : (h + (i - 1)) % Capacity \in 0..Capacity - 1
  BY <1>1, ModRange
<1>3. RingSeq(d, h, n) \in [1..n -> S]
  BY <1>2, Z3 DEF RingSeq
<1>4. n \in Nat
  OBVIOUS
<1>5. RingSeq(d, h, n) \in Seq(S)
  BY <1>3, <1>4, SeqDef
<1>6. Len(RingSeq(d, h, n)) = n
  BY <1>3, <1>4, <1>5, LenProperties, Z3
<1> QED  BY <1>5, <1>6, Z3 DEF RingSeqReads, RingSeq

\* put on a ring with room is Append.
LEMMA RingSeqPut ==
  ASSUME NEW S, NEW d \in [0..Capacity - 1 -> S], NEW f \in S,
         NEW h \in 0..Capacity - 1, NEW n \in 0..Capacity - 1
  PROVE  RingSeq([d EXCEPT ![(h + n) % Capacity] = f], h, n + 1)
           = Append(RingSeq(d, h, n), f)
<1> DEFINE e == [d EXCEPT ![(h + n) % Capacity] = f]
           s == RingSeq(d, h, n)
           t == RingSeq(e, h, n + 1)
<1>0. n \in 0..Capacity /\ n + 1 \in 0..Capacity /\ h + n \in 0..2 * Capacity - 1
  BY QueueAssumption
<1>1. (h + n) % Capacity \in 0..Capacity - 1
  BY <1>0, ModRange
<1>2. e \in [0..Capacity - 1 -> S]
  BY <1>1
<1>3. s \in Seq(S) /\ Len(s) = n /\ \A i \in 1..n : s[i] = d[(h + (i - 1)) % Capacity]
  <2>1. RingSeqReads(S, d, h, n)
    BY <1>0, RingSeqType
  <2> QED  BY <2>1 DEF RingSeqReads
<1>4. t \in Seq(S) /\ Len(t) = n + 1
      /\ \A i \in 1..n + 1 : t[i] = e[(h + (i - 1)) % Capacity]
  <2> HIDE DEF s, t, e
  <2>1. RingSeqReads(S, e, h, n + 1)
    BY <1>0, <1>2, RingSeqType
  <2> QED  BY <2>1 DEF RingSeqReads, t
<1>5. /\ Append(s, f) \in Seq(S)
      /\ Len(Append(s, f)) = n + 1
      /\ \A i \in 1..n : Append(s, f)[i] = s[i]
      /\ Append(s, f)[n + 1] = f
  BY <1>3, AppendProperties
<1>6. ASSUME NEW i \in 1..n + 1
      PROVE  t[i] = Append(s, f)[i]
  <2>1. CASE i = n + 1
    <3>1. t[i] = e[(h + n) % Capacity]
      <4>1. i \in 1..n + 1 /\ h + (i - 1) = h + n
        BY <2>1
      <4> HIDE DEF t, e
      <4> QED  BY <4>1, <1>4
    <3>2. e[(h + n) % Capacity] = f
      BY <1>1
    <3> QED  BY <2>1, <3>1, <3>2, <1>5
  <2>2. CASE i # n + 1
    <3>1. i \in 1..n /\ i - 1 \in 0..Capacity - 1 /\ i - 1 # n
      BY <2>2, QueueAssumption
    <3>2. (h + (i - 1)) % Capacity # (h + n) % Capacity
      BY <3>1, SlotsDiffer
    <3>3. h + (i - 1) \in 0..2 * Capacity - 1
      BY <3>1, QueueAssumption
    <3>4. (h + (i - 1)) % Capacity \in 0..Capacity - 1
      BY <3>3, ModRange
    <3> QED  BY <3>1, <3>2, <3>4, <1>3, <1>4, <1>5
  <2> QED  BY <2>1, <2>2
<1> HIDE DEF s, t, e
<1>7. t = Append(s, f)
  BY <1>4, <1>5, <1>6, SeqEqual
<1> QED  BY <1>7 DEF s, t, e

\* get, k times, leaves what comes after the first k frames.
LEMMA RingSeqGet ==
  ASSUME NEW S, NEW d \in [0..Capacity - 1 -> S],
         NEW h \in 0..Capacity - 1, NEW n \in 0..Capacity, NEW k \in 0..n
  PROVE  RingSeq(d, (h + k) % Capacity, n - k) = SubSeq(RingSeq(d, h, n), k + 1, n)
<1> DEFINE g == (h + k) % Capacity
           s == RingSeq(d, h, n)
           t == RingSeq(d, g, n - k)
           u == SubSeq(s, k + 1, n)
<1>0. h + k \in 0..2 * Capacity - 1 /\ n - k \in 0..Capacity /\ k \in 0..Capacity
  BY QueueAssumption
<1>1. g \in 0..Capacity - 1
  BY <1>0, ModRange
<1>2. s \in Seq(S) /\ Len(s) = n /\ \A i \in 1..n : s[i] = d[(h + (i - 1)) % Capacity]
  <2>1. RingSeqReads(S, d, h, n)
    BY RingSeqType
  <2> QED  BY <2>1 DEF RingSeqReads
<1>3. t \in Seq(S) /\ Len(t) = n - k
      /\ \A i \in 1..n - k : t[i] = d[(g + (i - 1)) % Capacity]
  <2> HIDE DEF s, t, u, g
  <2>1. RingSeqReads(S, d, g, n - k)
    BY <1>0, <1>1, RingSeqType
  <2> QED  BY <2>1 DEF RingSeqReads, t
<1>4. \A i \in k + 1..n : s[i] \in S
  <2>1. \A i \in k + 1..n : i \in 1..Len(s)
    BY <1>2
  <2> HIDE DEF s
  <2> QED  BY <2>1, <1>2, ElementOfSeq
<1>5. u \in Seq(S) /\ Len(u) = n - k /\ \A i \in 1..n - k : u[i] = s[k + i]
  <2> HIDE DEF s
  <2>1. /\ u \in Seq(S)
        /\ Len(u) = IF k + 1 <= n THEN n - (k + 1) + 1 ELSE 0
        /\ \A i \in 1..n - (k + 1) + 1 : u[i] = s[k + 1 + i - 1]
    BY <1>4, SubSeqProperties, Z3
  <2> HIDE DEF u
  <2> QED  BY <2>1
<1>6. ASSUME NEW i \in 1..n - k
      PROVE  t[i] = u[i]
  <2>1. i - 1 \in 0..Capacity /\ k + (i - 1) <= Capacity /\ k + i \in 1..n
        /\ k + (i - 1) = (k + i) - 1
    BY <1>0, QueueAssumption
  <2>2. (g + (i - 1)) % Capacity = (h + (k + (i - 1))) % Capacity
    BY <2>1, <1>0, SlotAfterMove
  <2>3. s[k + i] = d[(h + (k + (i - 1))) % Capacity]
    BY <2>1, <1>2
  <2> QED  BY <2>2, <2>3, <1>3, <1>5
<1> HIDE DEF s, t, u, g
<1>7. t = u
  BY <1>3, <1>5, <1>6, SeqEqual
<1> QED  BY <1>7 DEF s, t, u, g
------------------------------------------------------------------------------
\* What the ring's operations do to the queue that the ring stands for.
Slots == Frames \cup {NoFrame}
NoDup == \A i, j \in 1..mSize : Contents[i] = Contents[j] => i = j

LEMMA ContentsType ==
  ASSUME TypeOK
  PROVE  Contents \in Seq(Slots) /\ Len(Contents) = mSize
<1>1. Contents = RingSeq(mData, mHeader, mSize)
  BY DEF Contents, RingSeq
<1>2. mData \in [0..Capacity - 1 -> Slots] /\ mHeader \in 0..Capacity - 1 /\ mSize \in 0..Capacity
  BY DEF TypeOK, Slots
<1> QED  BY <1>1, <1>2, RingSeqType DEF RingSeqReads

\* A frame put on a ring with room becomes the youngest frame.
LEMMA PutStep ==
  ASSUME TypeOK, TypeOK', RingOK, NEW f \in Frames, ~IsFull, put(f)
  PROVE  /\ RingOK'
         /\ mSize' = mSize + 1
         /\ Contents' = Append(Contents, f)
         /\ Queued' = Queued \cup {f}
         /\ NoDup /\ f \notin Queued => NoDup'
<1>1. /\ mData \in [0..Capacity - 1 -> Slots] /\ mHeader \in 0..Capacity - 1
      /\ mSize \in 0..Capacity - 1 /\ f \in Slots
  BY QueueAssumption DEF TypeOK, IsFull, Slots
<1>2. /\ mData' = [mData EXCEPT ![(mHeader + mSize) % Capacity] = f]
      /\ mHeader' = mHeader /\ mSize' = mSize + 1
      /\ mTail' = (mTail + 1) % Capacity
  BY DEF put, IsFull, Wrap, RingOK
<1>3. Contents' = Append(Contents, f)
  <2>1. Contents = RingSeq(mData, mHeader, mSize)
        /\ Contents' = RingSeq(mData', mHeader', mSize')
    BY DEF Contents, RingSeq
  <2> QED  BY <2>1, <1>1, <1>2, RingSeqPut
<1>4. RingOK'
  <2>1. mSize \in 0..Capacity /\ 1 \in 0..Capacity /\ mSize + 1 <= Capacity
    BY <1>1, QueueAssumption
  <2>2. (((mHeader + mSize) % Capacity) + 1) % Capacity = (mHeader + (mSize + 1)) % Capacity
    BY <2>1, <1>1, SlotAfterMove
  <2> QED  BY <2>2, <1>2 DEF RingOK
<1>5. /\ \A i \in 1..mSize : Contents'[i] = Contents[i]
      /\ Contents'[mSize + 1] = f
  BY <1>1, <1>3, ContentsType, AppendProperties
<1>6. mSize' \in Nat /\ mSize \in Nat /\ 1..mSize' = 1..mSize \cup {mSize + 1}
  BY <1>1, <1>2
<1>7. Queued' = Queued \cup {f}
  <2>1. Queued' = {Contents'[i] : i \in 1..mSize'}
    BY DEF Queued
  <2> HIDE DEF Contents
  <2> QED  BY <2>1, <1>5, <1>6 DEF Queued
<1>8. ASSUME NoDup, f \notin Queued
      PROVE  NoDup'
  <2> SUFFICES ASSUME NEW i \in 1..mSize', NEW j \in 1..mSize', Contents'[i] = Contents'[j]
               PROVE  i = j
    BY DEF NoDup
  <2>1. \A k \in 1..mSize : Contents[k] # f
    BY <1>8 DEF Queued
  <2> QED  BY <2>1, <1>5, <1>6, <1>8 DEF NoDup
<1> QED  BY <1>2, <1>3, <1>4, <1>7, <1>8

\* k calls of get take the k oldest frames.
LEMMA GetStep ==
  ASSUME TypeOK, RingOK, NEW k \in 0..mSize, getMany(k)
  PROVE  /\ RingOK'
         /\ mSize' = mSize - k
         /\ Contents' = SubSeq(Contents, k + 1, mSize)
         /\ Queued' \subseteq Queued
         /\ NoDup => NoDup'
<1>1. /\ mData \in [0..Capacity - 1 -> Slots] /\ mHeader \in 0..Capacity - 1
      /\ mSize \in 0..Capacity
  BY QueueAssumption DEF TypeOK, Slots
<1>2. /\ mData' = mData /\ mHeader' = (mHeader + k) % Capacity
      /\ mSize' = mSize - k /\ mTail' = mTail
  BY DEF getMany, Wrap
<1>3. Contents' = SubSeq(Contents, k + 1, mSize)
  <2>1. Contents = RingSeq(mData, mHeader, mSize)
        /\ Contents' = RingSeq(mData', mHeader', mSize')
    BY DEF Contents, RingSeq
  <2> QED  BY <2>1, <1>1, <1>2, RingSeqGet
<1>4. RingOK'
  <2>1. k \in 0..Capacity /\ mSize - k \in 0..Capacity /\ k + (mSize - k) = mSize
        /\ k + (mSize - k) <= Capacity
    BY <1>1, QueueAssumption
  <2>2. (((mHeader + k) % Capacity) + (mSize - k)) % Capacity = (mHeader + (k + (mSize - k))) % Capacity
    BY <2>1, <1>1, SlotAfterMove
  <2> QED  BY <2>1, <2>2, <1>2 DEF RingOK
<1>5. \A i \in 1..mSize' : Contents'[i] = Contents[k + i] /\ k + i \in 1..mSize
  <2>1. Contents \in Seq(Slots) /\ Len(Contents) = mSize
    BY ContentsType
  <2>2. \A i \in k + 1..mSize : i \in 1..mSize
    BY <1>1
  <2> HIDE DEF Contents
  <2>3. \A i \in k + 1..mSize : Contents[i] \in Slots
    BY <2>1, <2>2, ElementOfSeq
  <2>4. \A i \in 1..mSize - (k + 1) + 1 :
            SubSeq(Contents, k + 1, mSize)[i] = Contents[k + 1 + i - 1]
    BY <1>1, <2>3, SubSeqProperties, Z3
  <2>5. \A i \in 1..mSize' : i \in 1..mSize - (k + 1) + 1 /\ k + 1 + i - 1 = k + i /\ k + i \in 1..mSize
    BY <1>1, <1>2
  <2> QED  BY <2>4, <2>5, <1>3
<1>6. Queued' \subseteq Queued
  <2>1. Queued' = {Contents'[i] : i \in 1..mSize'}
    BY DEF Queued
  <2> HIDE DEF Contents
  <2> QED  BY <2>1, <1>5 DEF Queued
<1>7. ASSUME NoDup
      PROVE  NoDup'
  <2> SUFFICES ASSUME NEW i \in 1..mSize', NEW j \in 1..mSize', Contents'[i] = Contents'[j]
               PROVE  i = j
    BY DEF NoDup
  <2>1. k + i = k + j
    BY <1>5, <1>7 DEF NoDup
  <2> QED  BY <2>1, <1>1, <1>2
<1> QED  BY <1>2, <1>3, <1>4, <1>6, <1>7
------------------------------------------------------------------------------
\* What the other parts of an operation do.
PcType == [Threads -> {"idle", "waiting", "signalled", "early", "cleaning"}]

\* A signal changes at most one program counter, from waiting to signalled,
\* and it changes one if there is a waiter.
LEMMA SignalEffect ==
  ASSUME NEW T \in SUBSET Threads, NEW q \in PcType, NEW r \in Signal(T, q)
  PROVE  /\ r \in PcType
         /\ \A t \in Threads : r[t] = q[t] \/ (t \in T /\ q[t] = "waiting" /\ r[t] = "signalled")
         /\ (\E t \in T : q[t] = "waiting") => (\E t \in T : q[t] = "waiting" /\ r[t] = "signalled")
<1> DEFINE waiters == {t \in T : q[t] = "waiting"}
<1>1. CASE waiters = {}
  BY <1>1 DEF Signal
<1>2. CASE waiters # {}
  <2>1. PICK t \in waiters : r = [q EXCEPT ![t] = "signalled"]
    BY <1>2 DEF Signal
  <2> QED  BY <2>1 DEF PcType
<1> QED  BY <1>1, <1>2

\* The same when the signalling thread's own operation ends with the signal.
Returned(T, t, q, r) ==
  /\ r \in PcType
  /\ r[t] = "idle"
  /\ \A u \in Threads :
       u # t => r[u] = q[u] \/ (u \in T /\ q[u] = "waiting" /\ r[u] = "signalled")
  /\ (\E u \in T : u # t /\ q[u] = "waiting")
       => (\E u \in T : u # t /\ q[u] = "waiting" /\ r[u] = "signalled")

LEMMA SignalAndReturn ==
  ASSUME NEW T \in SUBSET Threads, NEW t \in Threads, NEW q \in PcType,
         NEW r \in Signal(T, [q EXCEPT ![t] = "idle"])
  PROVE  Returned(T, t, q, r)
<1> DEFINE s == [q EXCEPT ![t] = "idle"]
<1>1. s \in PcType /\ s[t] = "idle" /\ \A u \in Threads : u # t => s[u] = q[u]
  BY DEF PcType
<1>2. r \in Signal(T, s)
  OBVIOUS
<1> HIDE DEF s
<1>3. /\ r \in PcType
      /\ \A u \in Threads : r[u] = s[u] \/ (u \in T /\ s[u] = "waiting" /\ r[u] = "signalled")
      /\ (\E u \in T : s[u] = "waiting") => (\E u \in T : s[u] = "waiting" /\ r[u] = "signalled")
  BY <1>1, <1>2, SignalEffect
<1> QED  BY <1>1, <1>3 DEF Returned

LEMMA StartWaitEffect ==
  ASSUME NEW t \in Threads, pc \in PcType, StartWait(t)
  PROVE  \E s \in {"waiting", "early"} : pc' = [pc EXCEPT ![t] = s]
BY DEF StartWait

\* cleanIf removes no more than there is, and something if there is anything.
LEMMA CleanCount ==
  ASSUME TypeOK, NEW n \in CleanStops \cup {mSize},
         \A m \in CleanStops \cup {mSize} : n <= m
  PROVE  n \in 0..mSize /\ (mSize # 0 => n # 0)
<1>1. mSize \in Nat
  BY QueueAssumption DEF TypeOK
<1>2. \A m \in CleanStops : m \in Nat \ {0}
  BY <1>1 DEF CleanStops
<1>3. n <= mSize
  OBVIOUS
<1> QED  BY <1>1, <1>2, <1>3

RingType ==
  /\ mData \in [0..Capacity - 1 -> Slots]
  /\ mHeader \in 0..Capacity - 1
  /\ mTail \in 0..Capacity - 1
  /\ mSize \in 0..Capacity

LEMMA PutType ==
  ASSUME RingType, NEW f \in Slots, put(f)
  PROVE  RingType'
<1>1. CASE IsFull
  BY <1>1 DEF put, ring, RingType
<1>2. CASE ~IsFull
  <2>1. mTail + 1 \in 0..2 * Capacity - 1 /\ mSize + 1 \in 0..Capacity
    BY <1>2, QueueAssumption DEF RingType, IsFull
  <2>2. (mTail + 1) % Capacity \in 0..Capacity - 1
    BY <2>1, ModRange
  <2> QED  BY <1>2, <2>1, <2>2 DEF put, Wrap, RingType
<1> QED  BY <1>1, <1>2

LEMMA GetManyType ==
  ASSUME RingType, NEW k \in 0..mSize, getMany(k)
  PROVE  RingType'
<1>1. mHeader + k \in 0..2 * Capacity - 1 /\ mSize - k \in 0..Capacity
  BY QueueAssumption DEF RingType
<1>2. (mHeader + k) % Capacity \in 0..Capacity - 1
  BY <1>1, ModRange
<1> QED  BY <1>1, <1>2 DEF getMany, Wrap, RingType

LEMMA GetType ==
  ASSUME RingType, get
  PROVE  RingType'
<1>1. CASE IsEmpty
  BY <1>1 DEF get, ring, RingType
<1>2. CASE ~IsEmpty
  <2>1. 1 \in 0..mSize
    BY <1>2, QueueAssumption DEF RingType, IsEmpty
  <2> QED  BY <1>2, <2>1, GetManyType DEF get
<1> QED  BY <1>1, <1>2
------------------------------------------------------------------------------
LEMMA TypeParts ==
  TypeOK <=> /\ RingType
             /\ pc \in PcType
             /\ held \in [Producers -> Slots]
             /\ lost \subseteq Frames
BY DEF TypeOK, RingType, PcType, Slots

\* Every variable keeps its type, for every capacity and any number of
\* threads.  HeldByBlocked goes with it: what a resumed producer loses is a frame.
LEMMA TypeStep == TypeOK /\ HeldByBlocked /\ [Next]_vars => TypeOK' /\ HeldByBlocked'
<1> DEFINE HeldOK(s, h) ==
             \A p \in Producers :
               \/ s[p] = "idle" /\ h[p] = NoFrame
               \/ s[p] \in {"waiting", "signalled", "early"} /\ h[p] \in Frames
           Goal == /\ RingType'
                   /\ pc' \in PcType
                   /\ held' \in [Producers -> Slots]
                   /\ lost' \subseteq Frames
                   /\ HeldOK(pc', held')
<1> SUFFICES ASSUME RingType, pc \in PcType, held \in [Producers -> Slots],
                    lost \subseteq Frames, HeldOK(pc, held), [Next]_vars
             PROVE  Goal
  BY TypeParts DEF TypeOK, RingType, PcType, Slots, HeldByBlocked
<1>a. /\ Producers \subseteq Threads /\ Consumers \subseteq Threads /\ Cleaners \subseteq Threads
      /\ \A p \in Producers : p \notin Consumers /\ p \notin Cleaners
  BY QueueAssumption DEF Threads
<1>1. ASSUME NEW p \in Producers, NEW f \in Outside, Enqueue(p, f)
      PROVE  Goal
  <2>1. f \in Slots /\ f \in Frames /\ pc[p] = "idle" /\ lost' = lost
    BY <1>1 DEF Outside, Slots, Enqueue
  <2>2. CASE ~IsFull /\ put(f) /\ pc' \in Signal(Consumers, pc) /\ UNCHANGED held
    <3>1. RingType'
      BY <2>1, <2>2, PutType
    <3>2. pc' \in PcType /\ \A q \in Producers : pc'[q] = pc[q]
      BY <1>a, <2>2, SignalEffect
    <3> QED  BY <2>1, <2>2, <3>1, <3>2
  <2>3. CASE IsFull /\ StartWait(p) /\ held' = [held EXCEPT ![p] = f] /\ UNCHANGED ring
    <3>1. PICK s \in {"waiting", "early"} : pc' = [pc EXCEPT ![p] = s]
      BY <1>a, <2>3, StartWaitEffect
    <3>2. pc' \in PcType
      BY <3>1, <1>a DEF PcType
    <3>3. HeldOK(pc', held')
      BY <2>1, <2>3, <3>1, <1>a DEF PcType
    <3>4. RingType'
      BY <2>3 DEF ring, RingType
    <3> QED  BY <2>1, <2>3, <3>2, <3>3, <3>4
  <2> QED  BY <2>2, <2>3, <1>1 DEF Enqueue
<1>2. ASSUME NEW p \in Producers, EnqueueResume(p)
      PROVE  Goal
  <2>1. held[p] \in Frames /\ held[p] \in Slots
    BY <1>2 DEF EnqueueResume
  <2>2. RingType'
    BY <1>2, <2>1, PutType DEF EnqueueResume
  <2>3. pc' \in PcType /\ \A q \in Producers : pc'[q] = IF q = p THEN "idle" ELSE pc[q]
    <3>1. p \in Threads /\ pc' \in Signal(Consumers, [pc EXCEPT ![p] = "idle"])
      BY <1>a, <1>2 DEF EnqueueResume
    <3>2. Returned(Consumers, p, pc, pc')
      BY <3>1, <1>a, SignalAndReturn
    <3> QED  BY <3>2, <1>a DEF Returned
  <2>4. held' = [held EXCEPT ![p] = NoFrame] /\ held' \in [Producers -> Slots]
    BY <1>2 DEF EnqueueResume, Slots
  <2>5. lost' \subseteq Frames
    BY <1>2, <2>1 DEF EnqueueResume
  <2> QED  BY <2>2, <2>3, <2>4, <2>5
<1>3. ASSUME NEW c \in Consumers, Dequeue(c)
      PROVE  Goal
  <2>1. UNCHANGED <<held, lost>>
    BY <1>3 DEF Dequeue
  <2>2. CASE get /\ pc' \in Signal(Producers, pc)
    <3>1. pc' \in PcType /\ HeldOK(pc', held)
      BY <1>a, <2>2, SignalEffect
    <3> QED  BY <2>1, <2>2, <3>1, GetType
  <2>3. CASE StartWait(c) /\ UNCHANGED ring
    <3>1. PICK s \in {"waiting", "early"} : pc' = [pc EXCEPT ![c] = s]
      BY <1>a, <2>3, StartWaitEffect
    <3>2. pc' \in PcType /\ \A q \in Producers : pc'[q] = pc[q]
      BY <3>1, <1>a DEF PcType
    <3>3. RingType'
      BY <2>3 DEF ring, RingType
    <3> QED  BY <2>1, <3>2, <3>3
  <2> QED  BY <2>2, <2>3, <1>3 DEF Dequeue
<1>4. ASSUME NEW c \in Consumers, DequeueResume(c)
      PROVE  Goal
  <2>1. UNCHANGED <<held, lost>> /\ RingType'
    BY <1>4, GetType DEF DequeueResume
  <2>3. pc' \in PcType /\ HeldOK(pc', held)
    <3>1. c \in Threads /\ pc' \in Signal(Producers, [pc EXCEPT ![c] = "idle"])
      BY <1>a, <1>4 DEF DequeueResume
    <3>2. Returned(Producers, c, pc, pc')
      BY <3>1, <1>a, SignalAndReturn
    <3> QED  BY <3>2, <1>a DEF Returned
  <2> QED  BY <2>1, <2>3
<1>5. ASSUME NEW t \in Producers \cup Consumers, TimedOut(t)
      PROVE  Goal
  <2>1. RingType'
    BY <1>5 DEF TimedOut, ring, RingType
  <2>2. pc' \in PcType /\ \A q \in Producers : pc'[q] = IF q = t THEN "idle" ELSE pc[q]
    BY <1>5, <1>a DEF TimedOut, PcType
  <2>3. /\ held' \in [Producers -> Slots]
        /\ \A q \in Producers : held'[q] = IF q = t THEN NoFrame ELSE held[q]
    BY <1>5 DEF TimedOut, Slots
  <2> QED  BY <2>1, <2>2, <2>3, <1>5 DEF TimedOut
<1>6. ASSUME NEW t \in Producers \cup Consumers, SpuriousWakeup(t)
      PROVE  Goal
  <2>1. RingType' /\ UNCHANGED <<held, lost>>
    BY <1>6 DEF SpuriousWakeup, ring, RingType
  <2>2. pc' \in PcType /\ HeldOK(pc', held)
    BY <1>6, <1>a DEF SpuriousWakeup, PcType
  <2> QED  BY <2>1, <2>2
<1>7. ASSUME NEW k \in Cleaners, CheckSize(k)
      PROVE  Goal
  <2>1. RingType' /\ UNCHANGED <<held, lost>>
    BY <1>7 DEF CheckSize, ring, RingType
  <2>2. pc' \in PcType /\ HeldOK(pc', held)
    BY <1>7, <1>a DEF CheckSize, PcType
  <2> QED  BY <2>1, <2>2
<1>8. ASSUME NEW k \in Cleaners, CleanIf(k)
      PROVE  Goal
  <2>1. PICK n \in 0..mSize : getMany(n)
    BY <1>8, CleanCount, TypeParts DEF CleanIf
  <2>2. RingType' /\ UNCHANGED <<held, lost>>
    BY <1>8, <2>1, GetManyType DEF CleanIf
  <2>4. pc' \in PcType /\ HeldOK(pc', held)
    <3>1. k \in Threads /\ pc' \in Signal(Producers, [pc EXCEPT ![k] = "idle"])
      BY <1>a, <1>8 DEF CleanIf
    <3>2. Returned(Producers, k, pc, pc')
      BY <3>1, <1>a, SignalAndReturn
    <3> QED  BY <3>2, <1>a DEF Returned
  <2> QED  BY <2>2, <2>4
<1>9. CASE UNCHANGED vars
  BY <1>9 DEF vars, ring, RingType
<1> QED  BY <1>1, <1>2, <1>3, <1>4, <1>5, <1>6, <1>7, <1>8, <1>9 DEF Next

\* The queue's initial state has the right types, and nobody holds a frame.
LEMMA TypeInit == Init => TypeOK /\ HeldByBlocked
BY QueueAssumption DEF Init, TypeOK, HeldByBlocked, Threads

\* Type correctness of every reachable state.
THEOREM TypeCorrect == Spec => [](TypeOK /\ HeldByBlocked)
BY TypeInit, TypeStep, PTL DEF Spec
------------------------------------------------------------------------------
\* A step that leaves the ring alone leaves the queue it stands for alone.
LEMMA RingUnchanged ==
  ASSUME UNCHANGED ring
  PROVE  /\ mSize' = mSize /\ Contents' = Contents /\ Queued' = Queued
         /\ NoDup => NoDup'
         /\ RingOK => RingOK'
BY DEF ring, Contents, Queued, NoDup, RingOK

\* Frames only leave: a step that removes frames from the ring or from a
\* producer's hands puts none in two places.
LEMMA OnePlaceShrinks ==
  ASSUME OnePlace, NoDup', Queued' \subseteq Queued, lost' = lost,
         \A p \in Producers : held'[p] \in {held[p], NoFrame}
  PROVE  OnePlace'
<1>1. Held' \subseteq Held
  BY DEF Held
<1>2. \A p, q \in Producers : held'[p] = held'[q] /\ held'[p] # NoFrame => p = q
  BY DEF OnePlace
<1>3. Queued' \cap (Held' \cup lost') = {} /\ Held' \cap lost' = {}
  BY <1>1 DEF OnePlace
<1> HIDE DEF Contents, Queued, Held
<1> QED  BY <1>2, <1>3 DEF OnePlace, NoDup

\* A frame is in one place for every capacity and any number of threads.
LEMMA OnePlaceStep ==
  TypeOK /\ TypeOK' /\ HeldByBlocked /\ RingOK /\ OnePlace /\ [Next]_vars => OnePlace' /\ RingOK'
<1> SUFFICES ASSUME TypeOK, TypeOK', HeldByBlocked, RingOK, OnePlace, [Next]_vars
             PROVE  OnePlace' /\ RingOK'
  OBVIOUS
<1>a. NoDup /\ 0 \in 0..mSize /\ held \in [Producers -> Slots]
  BY QueueAssumption DEF OnePlace, NoDup, TypeOK, Slots
<1>g. ASSUME get
      PROVE  RingOK' /\ NoDup' /\ Queued' \subseteq Queued
  <2>1. CASE IsEmpty
    BY <2>1, <1>a, <1>g, RingUnchanged DEF get
  <2>2. CASE ~IsEmpty
    <3>1. 1 \in 0..mSize
      BY <2>2, QueueAssumption DEF TypeOK, IsEmpty
    <3> QED  BY <3>1, <2>2, <1>a, <1>g, GetStep DEF get
  <2> QED  BY <2>1, <2>2
<1>1. ASSUME NEW p \in Producers, NEW f \in Outside, Enqueue(p, f)
      PROVE  OnePlace' /\ RingOK'
  <2>1. /\ f \in Frames /\ f # NoFrame /\ f \notin Queued /\ f \notin Held /\ f \notin lost
        /\ pc[p] = "idle" /\ lost' = lost /\ held[p] = NoFrame
    BY <1>1, QueueAssumption DEF Outside, Enqueue, HeldByBlocked
  <2>2. CASE ~IsFull /\ put(f) /\ UNCHANGED held
    <3>1. RingOK' /\ NoDup' /\ Queued' = Queued \cup {f}
      BY <1>a, <2>1, <2>2, PutStep
    <3>2. Held' = Held
      BY <2>2 DEF Held
    <3>3. Queued' \cap (Held' \cup lost') = {} /\ Held' \cap lost' = {}
      BY <3>1, <3>2, <2>1 DEF OnePlace
    <3> QED  BY <2>2, <3>1, <3>3 DEF OnePlace, NoDup
  <2>3. CASE held' = [held EXCEPT ![p] = f] /\ UNCHANGED ring
    <3>1. RingOK' /\ NoDup' /\ Queued' = Queued
      BY <1>a, <2>3, RingUnchanged
    <3>2. \A q \in Producers : held'[q] = IF q = p THEN f ELSE held[q]
      BY <1>a, <2>3
    <3>3. \A q \in Producers : held[q] # f
      BY <2>1 DEF Held
    <3>4. Held' \subseteq Held \cup {f}
      BY <3>2 DEF Held
    <3>5. Queued' \cap (Held' \cup lost') = {} /\ Held' \cap lost' = {}
      BY <3>1, <3>4, <2>1 DEF OnePlace
    <3>6. \A q, r \in Producers : held'[q] = held'[r] /\ held'[q] # NoFrame => q = r
      BY <3>2, <3>3 DEF OnePlace
    <3> QED  BY <3>1, <3>5, <3>6 DEF OnePlace, NoDup
  <2> QED  BY <2>2, <2>3, <1>1 DEF Enqueue
<1>2. ASSUME NEW p \in Producers, EnqueueResume(p)
      PROVE  OnePlace' /\ RingOK'
  <2> DEFINE f == held[p]
  <2>1. /\ f \in Frames /\ f # NoFrame /\ put(f)
        /\ lost' = IF IsFull THEN lost \cup {f} ELSE lost
    BY <1>2, QueueAssumption DEF EnqueueResume, HeldByBlocked
  <2>2. f \in Held /\ f \notin Queued /\ f \notin lost
    BY <2>1 DEF Held, OnePlace
  <2>3. \A q \in Producers : held'[q] = IF q = p THEN NoFrame ELSE held[q]
    BY <1>2, <1>a DEF EnqueueResume
  <2>4. \A q, r \in Producers : held'[q] = held'[r] /\ held'[q] # NoFrame => q = r
    BY <2>3 DEF OnePlace
  <2>5. Held' \subseteq Held \ {f}
    BY <2>1, <2>3 DEF Held, OnePlace
  <2>6. CASE IsFull
    <3>1. RingOK' /\ NoDup' /\ Queued' = Queued
      BY <1>a, <2>1, <2>6, RingUnchanged DEF put
    <3>2. Queued' \cap (Held' \cup lost') = {} /\ Held' \cap lost' = {}
      BY <3>1, <2>1, <2>2, <2>5, <2>6 DEF OnePlace
    <3> QED  BY <3>1, <3>2, <2>4 DEF OnePlace, NoDup
  <2>7. CASE ~IsFull
    <3>1. RingOK' /\ NoDup' /\ Queued' = Queued \cup {f}
      BY <1>a, <2>1, <2>2, <2>7, PutStep
    <3>2. Queued' \cap (Held' \cup lost') = {} /\ Held' \cap lost' = {}
      BY <3>1, <2>1, <2>2, <2>5, <2>7 DEF OnePlace
    <3> QED  BY <3>1, <3>2, <2>4 DEF OnePlace, NoDup
  <2> QED  BY <2>6, <2>7
<1>3. ASSUME NEW c \in Consumers, Dequeue(c)
      PROVE  OnePlace' /\ RingOK'
  <2>1. held' = held /\ lost' = lost
    BY <1>3 DEF Dequeue
  <2>2. RingOK' /\ NoDup' /\ Queued' \subseteq Queued
    BY <1>3, <1>a, <1>g, RingUnchanged DEF Dequeue
  <2> QED  BY <2>1, <2>2, OnePlaceShrinks
<1>4. ASSUME NEW c \in Consumers, DequeueResume(c)
      PROVE  OnePlace' /\ RingOK'
  <2>1. held' = held /\ lost' = lost /\ get
    BY <1>4 DEF DequeueResume
  <2> QED  BY <2>1, <1>g, OnePlaceShrinks
<1>5. ASSUME NEW t \in Producers \cup Consumers, TimedOut(t)
      PROVE  OnePlace' /\ RingOK'
  <2>1. lost' = lost /\ UNCHANGED ring /\ \A q \in Producers : held'[q] \in {held[q], NoFrame}
    BY <1>5 DEF TimedOut
  <2> QED  BY <2>1, <1>a, RingUnchanged, OnePlaceShrinks
<1>6. ASSUME NEW t \in Producers \cup Consumers, SpuriousWakeup(t)
      PROVE  OnePlace' /\ RingOK'
  <2>1. lost' = lost /\ UNCHANGED ring /\ held' = held
    BY <1>6 DEF SpuriousWakeup
  <2> QED  BY <2>1, <1>a, RingUnchanged, OnePlaceShrinks
<1>7. ASSUME NEW k \in Cleaners, CheckSize(k)
      PROVE  OnePlace' /\ RingOK'
  <2>1. lost' = lost /\ UNCHANGED ring /\ held' = held
    BY <1>7 DEF CheckSize
  <2> QED  BY <2>1, <1>a, RingUnchanged, OnePlaceShrinks
<1>8. ASSUME NEW k \in Cleaners, CleanIf(k)
      PROVE  OnePlace' /\ RingOK'
  <2>1. held' = held /\ lost' = lost
    BY <1>8 DEF CleanIf
  <2>2. PICK n \in 0..mSize : getMany(n)
    BY <1>8, CleanCount DEF CleanIf
  <2>3. RingOK' /\ NoDup' /\ Queued' \subseteq Queued
    BY <2>2, <1>a, GetStep
  <2> QED  BY <2>1, <2>3, OnePlaceShrinks
<1>9. CASE UNCHANGED vars
  BY <1>9, <1>a, RingUnchanged, OnePlaceShrinks DEF vars
<1> QED  BY <1>1, <1>2, <1>3, <1>4, <1>5, <1>6, <1>7, <1>8, <1>9 DEF Next
------------------------------------------------------------------------------
\* Nobody waits for what is already there, whatever the capacity.
LEMMA WakeupStep ==
  TypeOK /\ TypeOK' /\ NoLostWakeup /\ SignalledHasRoom /\ [Next]_vars
    => NoLostWakeup' /\ SignalledHasRoom'
<1> DEFINE Goal ==
      /\ SingleConsumer => \A c \in Consumers : pc'[c] = "waiting" => mSize' = 0
      /\ SingleProducer => \A p \in Producers : pc'[p] = "waiting" => mSize' = Capacity
      /\ SingleProducer => \A p \in Producers : pc'[p] = "signalled" => mSize' # Capacity
<1> SUFFICES ASSUME TypeOK, NoLostWakeup, SignalledHasRoom, [Next]_vars
             PROVE  Goal
  BY DEF NoLostWakeup, SignalledHasRoom, IsEmpty, IsFull, SingleConsumer, SingleProducer
<1>a. /\ Producers \subseteq Threads /\ Consumers \subseteq Threads /\ Cleaners \subseteq Threads
      /\ \A p \in Producers : p \notin Consumers /\ p \notin Cleaners
      /\ \A c \in Consumers : c \notin Cleaners
      /\ pc \in PcType /\ mSize \in 0..Capacity /\ Capacity \in Nat \ {0}
  BY QueueAssumption DEF Threads, TypeOK, PcType
<1>b. /\ SingleConsumer => \A c \in Consumers : pc[c] = "waiting" => mSize = 0
      /\ SingleProducer => \A p \in Producers : pc[p] = "waiting" => mSize = Capacity
      /\ SingleProducer => \A p \in Producers : pc[p] = "signalled" => mSize # Capacity
  BY DEF NoLostWakeup, SignalledHasRoom, IsEmpty, IsFull
<1>g. ASSUME get
      PROVE  mSize' = (IF mSize = 0 THEN 0 ELSE mSize - 1) /\ mSize' # Capacity
  BY <1>a, <1>g DEF get, getMany, IsEmpty, ring
<1>1. ASSUME NEW p \in Producers, NEW f \in Outside, Enqueue(p, f)
      PROVE  Goal
  <2>1. CASE ~IsFull /\ put(f) /\ pc' \in Signal(Consumers, pc)
    <3>1. /\ \A t \in Threads : pc'[t] = pc[t]
                 \/ (t \in Consumers /\ pc[t] = "waiting" /\ pc'[t] = "signalled")
          /\ (\E t \in Consumers : pc[t] = "waiting")
               => (\E t \in Consumers : pc[t] = "waiting" /\ pc'[t] = "signalled")
      BY <2>1, <1>a, SignalEffect
    <3>2. pc[p] = "idle"
      BY <1>1 DEF Enqueue
    <3>3. SingleConsumer => \A c \in Consumers : pc'[c] # "waiting"
      BY <3>1, <1>a DEF SingleConsumer
    <3>4. SingleProducer => \A q \in Producers : pc'[q] = "idle"
      BY <3>1, <3>2, <1>a DEF SingleProducer
    <3> QED  BY <3>3, <3>4
  <2>2. CASE IsFull /\ StartWait(p) /\ UNCHANGED ring
    <3>1. PICK s \in {"waiting", "early"} : pc' = [pc EXCEPT ![p] = s]
      BY <1>a, <2>2, StartWaitEffect
    <3>2. mSize' = mSize /\ mSize = Capacity
      BY <2>2 DEF ring, IsFull
    <3>3. \A c \in Consumers : pc'[c] = pc[c]
      BY <3>1, <1>a DEF PcType
    <3>4. SingleProducer => \A q \in Producers : pc'[q] = s
      BY <3>1, <1>a DEF PcType, SingleProducer
    <3> QED  BY <3>2, <3>3, <3>4, <1>b
  <2> QED  BY <2>1, <2>2, <1>1 DEF Enqueue
<1>2. ASSUME NEW p \in Producers, EnqueueResume(p)
      PROVE  Goal
  <2>1. pc' \in Signal(Consumers, [pc EXCEPT ![p] = "idle"])
    BY <1>2 DEF EnqueueResume
  <2>2. Returned(Consumers, p, pc, pc')
    BY <2>1, <1>a, SignalAndReturn
  <2>3. SingleConsumer => \A c \in Consumers : pc'[c] # "waiting"
    BY <2>2, <1>a DEF SingleConsumer, Returned
  <2>4. SingleProducer => \A q \in Producers : pc'[q] = "idle"
    BY <2>2 DEF SingleProducer, Returned
  <2> QED  BY <2>3, <2>4
<1>3. ASSUME NEW c \in Consumers, Dequeue(c)
      PROVE  Goal
  <2>1. CASE ~IsEmpty /\ get /\ pc' \in Signal(Producers, pc)
    <3>1. /\ \A t \in Threads : pc'[t] = pc[t]
                 \/ (t \in Producers /\ pc[t] = "waiting" /\ pc'[t] = "signalled")
          /\ (\E t \in Producers : pc[t] = "waiting")
               => (\E t \in Producers : pc[t] = "waiting" /\ pc'[t] = "signalled")
      BY <2>1, <1>a, SignalEffect
    <3>2. pc[c] = "idle"
      BY <1>3 DEF Dequeue
    <3>3. SingleConsumer => \A d \in Consumers : pc'[d] = "idle"
      BY <3>1, <3>2, <1>a DEF SingleConsumer
    <3>4. SingleProducer => \A q \in Producers : pc'[q] # "waiting"
      BY <3>1, <1>a DEF SingleProducer
    <3> QED  BY <3>3, <3>4, <2>1, <1>g
  <2>2. CASE IsEmpty /\ StartWait(c) /\ UNCHANGED ring
    <3>1. PICK s \in {"waiting", "early"} : pc' = [pc EXCEPT ![c] = s]
      BY <1>a, <2>2, StartWaitEffect
    <3>2. mSize' = mSize /\ mSize = 0
      BY <2>2 DEF ring, IsEmpty
    <3>3. \A p \in Producers : pc'[p] = pc[p]
      BY <3>1, <1>a DEF PcType
    <3> QED  BY <3>2, <3>3, <1>b
  <2> QED  BY <2>1, <2>2, <1>3 DEF Dequeue
<1>4. ASSUME NEW c \in Consumers, DequeueResume(c)
      PROVE  Goal
  <2>1. get /\ pc' \in Signal(Producers, [pc EXCEPT ![c] = "idle"])
    BY <1>4 DEF DequeueResume
  <2>2. Returned(Producers, c, pc, pc')
    BY <2>1, <1>a, SignalAndReturn
  <2>3. SingleConsumer => \A d \in Consumers : pc'[d] = "idle"
    BY <2>2 DEF SingleConsumer, Returned
  <2>4. SingleProducer => \A q \in Producers : pc'[q] # "waiting"
    BY <2>2, <1>a DEF SingleProducer, Returned
  <2> QED  BY <2>1, <2>3, <2>4, <1>g
<1>5. ASSUME NEW t \in Producers \cup Consumers, TimedOut(t)
      PROVE  Goal
  <2>1. mSize' = mSize /\ pc' = [pc EXCEPT ![t] = "idle"]
    BY <1>5 DEF TimedOut, ring
  <2>2. \A u \in Threads : pc'[u] = pc[u] \/ pc'[u] = "idle"
    BY <2>1, <1>a DEF PcType
  <2> QED  BY <2>1, <2>2, <1>a, <1>b
<1>6. ASSUME NEW t \in Producers \cup Consumers, SpuriousWakeup(t)
      PROVE  Goal
  <2>1. mSize' = mSize /\ pc' = [pc EXCEPT ![t] = "early"]
    BY <1>6 DEF SpuriousWakeup, ring
  <2>2. \A u \in Threads : pc'[u] = pc[u] \/ pc'[u] = "early"
    BY <2>1, <1>a DEF PcType
  <2> QED  BY <2>1, <2>2, <1>a, <1>b
<1>7. ASSUME NEW k \in Cleaners, CheckSize(k)
      PROVE  Goal
  <2>1. mSize' = mSize /\ pc' = [pc EXCEPT ![k] = "cleaning"]
    BY <1>7 DEF CheckSize, ring
  <2>2. \A u \in Threads : pc'[u] = pc[u] \/ pc'[u] = "cleaning"
    BY <2>1, <1>a DEF PcType
  <2> QED  BY <2>1, <2>2, <1>a, <1>b
<1>8. ASSUME NEW k \in Cleaners, CleanIf(k)
      PROVE  Goal
  <2>1. PICK n \in 0..mSize : getMany(n) /\ (mSize # 0 => n # 0)
    BY <1>8, CleanCount DEF CleanIf
  <2>2. mSize' = mSize - n
    BY <2>1 DEF getMany
  <2>3. mSize' # Capacity /\ (mSize = 0 => mSize' = 0)
    BY <2>1, <2>2, <1>a
  <2>4. pc' \in Signal(Producers, [pc EXCEPT ![k] = "idle"])
    BY <1>8 DEF CleanIf
  <2>5. Returned(Producers, k, pc, pc')
    BY <2>4, <1>a, SignalAndReturn
  <2>6. SingleProducer => \A q \in Producers : pc'[q] # "waiting"
    BY <2>5, <1>a DEF SingleProducer, Returned
  <2>7. \A c \in Consumers : pc'[c] = pc[c]
    BY <2>5, <1>a DEF Returned
  <2> QED  BY <2>3, <2>6, <2>7, <1>b
<1>9. CASE UNCHANGED vars
  BY <1>9, <1>b DEF vars, ring
<1> QED  BY <1>1, <1>2, <1>3, <1>4, <1>5, <1>6, <1>7, <1>8, <1>9 DEF Next
------------------------------------------------------------------------------
LEMMA InvInit == Init => IInv
<1> SUFFICES ASSUME Init
             PROVE  IInv
  OBVIOUS
<1>1. TypeOK /\ HeldByBlocked
  BY TypeInit
<1>2. RingOK
  <2>1. 0 % Capacity = 0
    BY QueueAssumption, ModStays
  <2> QED  BY <2>1 DEF Init, RingOK
<1>3. OnePlace
  <2>1. Queued = {} /\ Held = {}
    BY DEF Init, Queued, Held
  <2>2. \A i, j \in 1..mSize : FALSE
    BY DEF Init
  <2> HIDE DEF Contents, Queued, Held
  <2> QED  BY <2>1, <2>2 DEF OnePlace, Init
<1>4. NoLostWakeup /\ SignalledHasRoom
  BY DEF Init, NoLostWakeup, SignalledHasRoom, Threads
<1> QED  BY <1>1, <1>2, <1>3, <1>4 DEF IInv

LEMMA InvStep == IInv /\ [Next]_vars => IInv'
BY TypeStep, OnePlaceStep, WakeupStep DEF IInv

\* The inductive invariant holds in every reachable state.
THEOREM Invariance == Spec => []IInv
BY InvInit, InvStep, PTL DEF Spec

\* No frame descriptor is ever in two places, with any number of threads.
THEOREM FrameInOnePlace == Spec => []OnePlace
<1>1. IInv => OnePlace
  BY DEF IInv
<1> QED  BY <1>1, Invariance, PTL

\* With one thread at each end no wait depends on its timeout.
THEOREM WakeupsAreNotLost == Spec => []NoLostWakeup
<1>1. IInv => NoLostWakeup
  BY DEF IInv
<1> QED  BY <1>1, Invariance, PTL
------------------------------------------------------------------------------
\* The only clock value from which a wait cannot start is the one whose 10 ms
\* deadline falls exactly on a second: make_abstime_latems leaves the carry out.
THEOREM DeadlineEdge ==
  \A usec \in Nat : usec < 1000000 => (ValidDeadline(usec) <=> usec # 990000)
BY SMT DEF ValidDeadline, DeadlineNsec

\* With one producer a frame is dropped behind the caller's back only after a
\* wait that ended by itself, never after a signal.
THEOREM NoLossAfterSignal == Spec => LossOnlyAfterEarlyReturn
<1> DEFINE Early == SingleProducer /\ lost' # lost => \E p \in Producers : pc[p] = "early"
<1>1. IInv /\ [Next]_vars => [Early]_vars
  <2> SUFFICES ASSUME IInv, Next, SingleProducer, lost' # lost
               PROVE  \E p \in Producers : pc[p] = "early"
    OBVIOUS
  <2>1. PICK p \in Producers : EnqueueResume(p)
    BY DEF Next, Enqueue, Dequeue, DequeueResume, TimedOut, SpuriousWakeup, CheckSize, CleanIf
  <2>2. IsFull
    BY <2>1 DEF EnqueueResume
  <2>3. pc[p] # "signalled"
    BY <2>2 DEF IInv, SignalledHasRoom
  <2> QED  BY <2>1, <2>3 DEF EnqueueResume
<1> QED  BY <1>1, Invariance, PTL DEF Spec, LossOnlyAfterEarlyReturn

\* A step of the queue is a step of the FIFO, or does not change the FIFO.
LEMMA FifoStep == IInv /\ IInv' /\ [Next]_vars => [Fifo!Next]_Contents
<1> SUFFICES ASSUME IInv, IInv', [Next]_vars
             PROVE  Fifo!Next \/ Contents' = Contents
  OBVIOUS
<1>a. /\ TypeOK /\ TypeOK' /\ RingOK /\ Len(Contents) = mSize /\ mSize \in 0..Capacity
      /\ Capacity \in Nat \ {0}
  BY ContentsType, QueueAssumption DEF IInv, TypeOK
<1>p. ASSUME NEW f \in Frames, put(f), f \notin Queued
      PROVE  Fifo!Next \/ Contents' = Contents
  <2>1. CASE IsFull
    BY <2>1, <1>p, RingUnchanged DEF put
  <2>2. CASE ~IsFull
    <3>1. Contents' = Append(Contents, f)
      BY <2>2, <1>a, <1>p, PutStep
    <3>2. Len(Contents) < Capacity
      BY <2>2, <1>a DEF IsFull
    <3>3. ~Fifo!InFifo(f)
      BY <1>a, <1>p DEF Fifo!InFifo, Queued
    <3> QED  BY <3>1, <3>2, <3>3 DEF Fifo!Next, Fifo!Put
  <2> QED  BY <2>1, <2>2
<1>g. ASSUME NEW n \in 0..mSize, getMany(n)
      PROVE  Fifo!Next \/ Contents' = Contents
  <2>1. Contents' = SubSeq(Contents, n + 1, mSize)
    BY <1>a, <1>g, GetStep
  <2>2. CASE n = 0
    <3>1. SubSeq(Contents, 1, Len(Contents)) = Contents
      BY <1>a, ContentsType, SubSeqFull
    <3> QED  BY <2>1, <2>2, <3>1, <1>a
  <2>3. CASE n # 0
    <3>1. n \in 1..Len(Contents)
      BY <2>3, <1>a
    <3> QED  BY <2>1, <3>1, <1>a DEF Fifo!Next, Fifo!DropFront
  <2> QED  BY <2>2, <2>3
<1>o. ASSUME get
      PROVE  Fifo!Next \/ Contents' = Contents
  <2>1. CASE IsEmpty
    BY <2>1, <1>o, RingUnchanged DEF get
  <2>2. CASE ~IsEmpty
    <3>1. 1 \in 0..mSize /\ getMany(1)
      BY <2>2, <1>o, <1>a DEF get, IsEmpty
    <3> QED  BY <3>1, <1>g
  <2> QED  BY <2>1, <2>2
<1>1. ASSUME NEW p \in Producers, NEW f \in Outside, Enqueue(p, f)
      PROVE  Fifo!Next \/ Contents' = Contents
  <2>1. f \in Frames /\ f \notin Queued
    BY DEF Outside
  <2> QED  BY <2>1, <1>1, <1>p, RingUnchanged DEF Enqueue
<1>2. ASSUME NEW p \in Producers, EnqueueResume(p)
      PROVE  Fifo!Next \/ Contents' = Contents
  <2>1. held[p] \in Frames /\ held[p] \notin Queued /\ put(held[p])
    BY <1>2, QueueAssumption DEF EnqueueResume, IInv, HeldByBlocked, OnePlace, Held
  <2> QED  BY <2>1, <1>p
<1>3. ASSUME NEW c \in Consumers, Dequeue(c) \/ DequeueResume(c)
      PROVE  Fifo!Next \/ Contents' = Contents
  BY <1>3, <1>o, RingUnchanged DEF Dequeue, DequeueResume
<1>4. ASSUME NEW t \in Producers \cup Consumers, TimedOut(t) \/ SpuriousWakeup(t)
      PROVE  Fifo!Next \/ Contents' = Contents
  BY <1>4, RingUnchanged DEF TimedOut, SpuriousWakeup
<1>5. ASSUME NEW k \in Cleaners, CheckSize(k)
      PROVE  Fifo!Next \/ Contents' = Contents
  BY <1>5, RingUnchanged DEF CheckSize
<1>6. ASSUME NEW k \in Cleaners, CleanIf(k)
      PROVE  Fifo!Next \/ Contents' = Contents
  <2>1. PICK n \in 0..mSize : getMany(n)
    BY <1>6, <1>a, CleanCount DEF CleanIf
  <2> QED  BY <2>1, <1>g
<1>7. CASE UNCHANGED vars
  BY <1>7, RingUnchanged DEF vars
<1> QED  BY <1>1, <1>2, <1>3, <1>4, <1>5, <1>6, <1>7 DEF Next

\* The ring buffer with its waiting threads implements the bounded FIFO.
THEOREM QueueImplementsFifo == Spec => ImplementsFifo
<1>1. Init => Fifo!Init
  <2> SUFFICES ASSUME Init
               PROVE  Contents = << >>
    BY DEF Fifo!Init
  <2>1. Contents \in Seq(Slots) /\ Len(Contents) = 0
    BY TypeInit, ContentsType DEF Init
  <2> QED  BY <2>1, EmptySeq
<1> QED  BY <1>1, FifoStep, Invariance, PTL DEF Spec, ImplementsFifo, Fifo!Spec

------------------------------------------------------------------------------
\* Where cleanIf stops under myCleanQueueV a key frame has come to the front.
LEMMA StopsAtKeyFrame ==
  ASSUME TypeOK, RingOK, Policy = "key", NEW n \in CleanStops \cup {mSize},
         n \in 0..mSize, getMany(n)
  PROVE  IsEmpty' \/ Contents'[1] \in KeyFrames
<1>1. mSize \in Nat /\ mSize' = mSize - n /\ Contents' = SubSeq(Contents, n + 1, mSize)
  BY GetStep, QueueAssumption DEF TypeOK
<1>2. CASE n = mSize
  BY <1>1, <1>2 DEF IsEmpty
<1>3. CASE n \in CleanStops
  <2>1. n \in 1..mSize - 1 /\ Contents[n + 1] \in KeyFrames
    BY <1>3 DEF CleanStops
  <2>2. Contents \in Seq(Slots) /\ Len(Contents) = mSize
    BY ContentsType
  <2>3. \A s \in Seq(Slots) : \A m \in 1..Len(s) - 1 : SubSeq(s, m + 1, Len(s))[1] = s[m + 1]
    OBVIOUS
  <2>4. SubSeq(Contents, n + 1, mSize)[1] = Contents[n + 1]
    BY <2>1, <2>2, <2>3
  <2> QED  BY <1>1, <2>1, <2>4
<1> QED  BY <1>2, <1>3

\* A frame that is put behind others leaves the first where it is.
LEMMA FirstStays ==
  ASSUME TypeOK, TypeOK', RingOK, NEW f \in Frames, put(f), ~IsEmpty
  PROVE  ~IsEmpty' /\ Contents'[1] = Contents[1]
<1>1. mSize \in Nat \ {0}
  BY QueueAssumption DEF TypeOK, IsEmpty
<1>2. CASE IsFull
  BY <1>2, RingUnchanged DEF put, IsEmpty
<1>3. CASE ~IsFull
  <2>1. mSize' = mSize + 1 /\ Contents' = Append(Contents, f)
    BY <1>3, PutStep
  <2>2. Contents \in Seq(Slots) /\ Len(Contents) = mSize /\ f \in Slots
    BY ContentsType DEF Slots
  <2>3. Append(Contents, f)[1] = Contents[1]
    BY <1>1, <2>2, AppendProperties
  <2> QED  BY <1>1, <2>1, <2>3 DEF IsEmpty
<1> QED  BY <1>2, <1>3

\* A step keeps a key frame in front as long as the muxer has not had it.
LEMMA GapStep ==
  ASSUME IInv, IInv', GapEndsAtKeyFrame, [GapNext]_gapVars
  PROVE  GapEndsAtKeyFrame'
<1> SUFFICES ASSUME Policy = "key", gap' = "key"
             PROVE  ~IsEmpty' /\ Contents'[1] \in KeyFrames
  BY DEF GapEndsAtKeyFrame
<1> DEFINE KeyInFront == ~IsEmpty /\ Contents[1] \in KeyFrames
<1>a. TypeOK /\ TypeOK' /\ RingOK /\ (gap = "key" => KeyInFront)
  BY DEF IInv, GapEndsAtKeyFrame
<1>p. ASSUME NEW f \in Frames, put(f), gap' = gap
      PROVE  KeyInFront'
  BY <1>a, <1>p, FirstStays
<1>r. ASSUME UNCHANGED <<ring, gap>>
      PROVE  KeyInFront'
  BY <1>a, <1>r, RingUnchanged DEF IsEmpty
<1>1. ASSUME NEW p \in Producers, NEW f \in Outside, Enqueue(p, f), gap' = gap
      PROVE  KeyInFront'
  <2>1. f \in Frames
    BY DEF Outside
  <2> QED  BY <1>1, <1>p, <1>r, <2>1 DEF Enqueue
<1>2. ASSUME NEW p \in Producers, EnqueueResume(p), gap' = gap
      PROVE  KeyInFront'
  <2>1. held[p] \in Frames /\ put(held[p])
    BY <1>2, QueueAssumption DEF EnqueueResume, IInv, HeldByBlocked
  <2> QED  BY <1>2, <1>p, <2>1
<1>3. ASSUME NEW t \in Producers \cup Consumers, TimedOut(t) \/ SpuriousWakeup(t), gap' = gap
      PROVE  KeyInFront'
  BY <1>3, <1>r DEF TimedOut, SpuriousWakeup
<1>4. ASSUME NEW k \in Cleaners, CheckSize(k), gap' = gap
      PROVE  KeyInFront'
  BY <1>4, <1>r DEF CheckSize
\* The frame that the muxer takes would be the key frame.
<1>5. ASSUME NEW c \in Consumers, GapDequeue(c)
      PROVE  FALSE
  BY <1>a, <1>5 DEF GapDequeue
<1>6. ASSUME NEW k \in Cleaners, GapCleanIf(k)
      PROVE  KeyInFront'
  <2>1. ~IsEmpty /\ ~IsEmpty'
    BY <1>a, <1>6 DEF GapCleanIf
  <2>2. PICK n \in CleanStops \cup {mSize} :
          getMany(n) /\ \A m \in CleanStops \cup {mSize} : n <= m
    BY <1>6 DEF GapCleanIf, CleanIf
  <2>3. n \in 0..mSize
    BY <1>a, <2>2, CleanCount
  <2> QED  BY <1>a, <2>1, <2>2, <2>3, StopsAtKeyFrame
<1>7. CASE UNCHANGED gapVars
  BY <1>7, <1>r DEF gapVars, vars
<1> QED  BY <1>1, <1>2, <1>3, <1>4, <1>5, <1>6, <1>7 DEF GapNext

\* Behind the frames that cleans have taken away the muxer finds a key frame, unless the
\* last clean emptied the queue: for every capacity, limit and number of threads, however
\* stale the size that made the reader clean.
THEOREM CleanLeadsToKeyFrame == GapSpec => []GapEndsAtKeyFrame
<1>1. GapSpec => Spec
  <2>1. GapInit => Init
    BY DEF GapInit
  <2>2. [GapNext]_gapVars => [Next]_vars
    BY DEF GapNext, GapDequeue, GapCleanIf, gapVars, Next
  <2> QED  BY <2>1, <2>2, PTL DEF GapSpec, Spec
<1>2. GapInit => GapEndsAtKeyFrame
  BY DEF GapInit, GapEndsAtKeyFrame
<1> QED  BY <1>1, <1>2, Invariance, GapStep, PTL DEF GapSpec
==============================================================================
