------------------------- MODULE FramePipelineProofs -------------------------
(***************************************************************************)
(* What TLAPS proves about the way of the frames, for any capacities, any  *)
(* number of descriptors and any number of packets.                        *)
(*                                                                         *)
(* The four invariants that the runs check are nearly inductive together.  *)
(* The strengthening says three things more:                               *)
(*   - a thread holds a descriptor exactly at the labels where it must     *)
(*     pass one on (HandsByLabel), so that what is released, queued or     *)
(*     written is always a descriptor;                                     *)
(*   - the codec holds back at most EncoderDelay packets, and one more     *)
(*     while it offers one (CodecBound);                                   *)
(*   - the line of packets from the muxer back to the device can be cut    *)
(*     between any two places: all the packets of one place have numbers   *)
(*     up to the cut, and those of the next place numbers above it (Cuts). *)
(* A step moves at most one cut, which is why InOrder is proved over cuts  *)
(* and not over the sequence Line, where every index would move.           *)
(***************************************************************************)
EXTENDS FramePipeline, SequenceTheorems, TLAPS

\* The elements of s rise and lie above lo and up to hi.
Within(s, lo, hi) ==
  /\ lo <= hi
  /\ \A i \in 1..Len(s) : lo < s[i] /\ s[i] <= hi
  /\ \A i, j \in 1..Len(s) : i < j => s[i] < s[j]

Labels ==
  {"create", "start", "run", "join", "joined", "off", "loop", "read", "enqueue", "discard",
   "getSize", "cleanIf", "ended", "dequeue", "deal", "got", "again", "write"}

Holding == {"enqueue", "discard", "deal", "write"}

HandsByLabel ==
  /\ pc \in [Threads -> Labels]
  /\ \A t \in Threads : hand[t] # NoFrame <=> pc[t] \in Holding

\* Nobody steps before main has started it.
Started ==
  /\ pc["main"] = "create" => pc["reader"] = "off"
  /\ pc["main"] \in {"create", "start"} => pc["encoder"] = "off"

CodecBound == pc["encoder"] # "got" => Len(codec) <= EncoderDelay

CutsAre(a, b, c, d, e, f, g) ==
  /\ Within(PacketAt("mux", "write"), written, a)
  /\ Within(PacketsOf(es), a, b)
  /\ Within(PacketAt("encoder", "enqueue"), b, c)
  /\ Within(codec, c, d)
  /\ Within(PacketAt("encoder", "deal"), d, e)
  /\ Within(PacketsOf(raw), e, f)
  /\ Within(PacketAt("reader", "enqueue"), f, g)
  /\ g <= captured

Cuts == \E a, b, c, d, e, f, g \in 0..MaxCaptured : CutsAre(a, b, c, d, e, f, g)

IInv == OneOwner /\ ReleaseFits /\ HandsByLabel /\ Started /\ CodecBound /\ Cuts
------------------------------------------------------------------------------
\* Sequences with a bound on their length, and minima.
LEMMA BoundedSeqDef ==
  ASSUME NEW S, NEW n \in Nat, NEW s
  PROVE  s \in BoundedSeq(S, n) <=> s \in Seq(S) /\ Len(s) <= n
<1>1. ASSUME s \in BoundedSeq(S, n) PROVE s \in Seq(S) /\ Len(s) <= n
  <2>1. PICK m \in 0..n : s \in [1..m -> S]
    BY <1>1 DEF BoundedSeq, SeqOf
  <2>2. s \in Seq(S) /\ Len(s) = m
    BY <2>1
  <2> QED  BY <2>2
<1>2. ASSUME s \in Seq(S), Len(s) <= n PROVE s \in BoundedSeq(S, n)
  <2>1. s \in [1..Len(s) -> S] /\ Len(s) \in 0..n
    BY <1>2
  <2> QED  BY <2>1 DEF BoundedSeq, SeqOf
<1> QED  BY <1>1, <1>2

LEMMA MinOfTwo ==
  ASSUME NEW a \in Nat, NEW b \in Nat
  PROVE  Min({a, b}) = IF a <= b THEN a ELSE b
<1> DEFINE m == IF a <= b THEN a ELSE b
<1>2. ASSUME NEW x \in {a, b}, \A y \in {a, b} : x <= y PROVE x = m
  BY <1>2
<1>3. Min({a, b}) \in {a, b} /\ \A y \in {a, b} : Min({a, b}) <= y
  BY DEF Min
<1> QED  BY <1>3

------------------------------------------------------------------------------
\* Sequences without repetitions: what each operation does to the set of elements.
LEMMA EmptyBounded ==
  ASSUME NEW S, NEW n \in Nat
  PROVE  << >> \in BoundedSeq(S, n)
<1>1. << >> \in Seq(S) /\ Len(<< >>) = 0 /\ 0 <= n
  BY EmptySeq
<1> QED  BY <1>1, BoundedSeqDef

LEMMA EmptyOnce == IsInjective(<< >>) /\ ToSet(<< >>) = {}
BY DEF IsInjective, ToSet

LEMMA ElementsTyped ==
  ASSUME NEW S, NEW s \in Seq(S)
  PROVE  ToSet(s) \subseteq S
BY DEF ToSet

LEMMA AppendOnce ==
  ASSUME NEW S, NEW s \in Seq(S), NEW e \in S, IsInjective(s), e \notin ToSet(s)
  PROVE  IsInjective(Append(s, e)) /\ ToSet(Append(s, e)) = ToSet(s) \cup {e}
<1>2. \A i \in 1..Len(s) : s[i] # e
  BY DEF ToSet
<1>3. IsInjective(Append(s, e))
  BY <1>2 DEF IsInjective
<1>4. ToSet(Append(s, e)) = ToSet(s) \cup {e}
  <2>1. ASSUME NEW x \in ToSet(Append(s, e)) PROVE x \in ToSet(s) \cup {e}
    <3>1. PICK i \in 1..Len(s) + 1 : x = Append(s, e)[i]
      BY DEF ToSet
    <3> QED  BY DEF ToSet
  <2>2. ASSUME NEW x \in ToSet(s) PROVE x \in ToSet(Append(s, e))
    <3>1. PICK i \in 1..Len(s) : x = s[i]
      BY DEF ToSet
    <3> QED  BY DEF ToSet
  <2>3. e \in ToSet(Append(s, e))
    BY DEF ToSet
  <2> QED  BY <2>1, <2>2, <2>3
<1> QED  BY <1>3, <1>4

\* What is left of a sequence without its first k elements.
LEMMA BackElements ==
  ASSUME NEW S, NEW s \in Seq(S), NEW k \in 0..Len(s)
  PROVE  /\ SubSeq(s, k + 1, Len(s)) \in Seq(S)
         /\ Len(SubSeq(s, k + 1, Len(s))) = Len(s) - k
         /\ \A i \in 1..Len(s) - k : SubSeq(s, k + 1, Len(s))[i] = s[k + i] /\ k + i \in 1..Len(s)
<1> DEFINE back == SubSeq(s, k + 1, Len(s))
<1> HIDE DEF back
<1> QED  OBVIOUS

\* A sequence that is cut in two: no element is lost, none is in both halves.
LEMMA CutOnce ==
  ASSUME NEW S, NEW s \in Seq(S), NEW k \in 0..Len(s), IsInjective(s)
  PROVE  LET front == SubSeq(s, 1, k)
             back == SubSeq(s, k + 1, Len(s))
         IN  /\ front \in Seq(S) /\ Len(front) = k
             /\ back \in Seq(S) /\ Len(back) = Len(s) - k
             /\ IsInjective(front) /\ IsInjective(back)
             /\ ToSet(front) \cap ToSet(back) = {}
             /\ ToSet(front) \cup ToSet(back) = ToSet(s)
<1> DEFINE front == SubSeq(s, 1, k)
           back == SubSeq(s, k + 1, Len(s))
<1>1. /\ front \in Seq(S) /\ Len(front) = k /\ DOMAIN front = 1..k
      /\ \A i \in 1..k : front[i] = s[i]
  OBVIOUS
<1>2. /\ back \in Seq(S) /\ Len(back) = Len(s) - k /\ DOMAIN back = 1..Len(s) - k
      /\ \A i \in 1..Len(s) - k : back[i] = s[k + i]
  OBVIOUS
<1>3. IsInjective(front)
  BY DEF IsInjective
<1>4. IsInjective(back)
  <2> HIDE DEF front, back
  <2>1. ASSUME NEW a \in 1..Len(s) - k, NEW b \in 1..Len(s) - k, back[a] = back[b]
        PROVE  a = b
    <3>1. k + a \in 1..Len(s) /\ k + b \in 1..Len(s) /\ s[k + a] = s[k + b]
      BY <1>2, <2>1
    <3>2. k + a = k + b
      BY <3>1 DEF IsInjective
    <3> QED  BY <3>2
  <2> QED  BY <1>2, <2>1 DEF IsInjective
<1>5. ToSet(front) \cap ToSet(back) = {}
  <2> HIDE DEF front, back
  <2> SUFFICES ASSUME NEW i \in 1..k, NEW j \in 1..Len(s) - k, front[i] = back[j]
               PROVE  FALSE
    BY <1>1, <1>2 DEF ToSet
  <2>1. i \in 1..Len(s) /\ k + j \in 1..Len(s) /\ s[i] = s[k + j]
    BY <1>1, <1>2
  <2>2. i = k + j
    BY <2>1 DEF IsInjective
  <2> QED  BY <2>2
<1>6. ToSet(front) \cup ToSet(back) = ToSet(s)
  <2> HIDE DEF front, back
  <2>1. ASSUME NEW i \in 1..Len(s) PROVE s[i] \in ToSet(front) \cup ToSet(back)
    <3>1. CASE i <= k
      <4>1. i \in DOMAIN front /\ front[i] = s[i]
        BY <1>1, <3>1
      <4> QED  BY <4>1 DEF ToSet
    <3>2. CASE i > k
      <4>1. i - k \in DOMAIN back /\ back[i - k] = s[k + (i - k)] /\ k + (i - k) = i
        BY <1>2, <3>2
      <4> QED  BY <4>1 DEF ToSet
    <3> QED  BY <3>1, <3>2
  <2>4. ToSet(s) \subseteq ToSet(front) \cup ToSet(back)
    BY <2>1 DEF ToSet
  <2>5. ToSet(front) \subseteq ToSet(s)
    BY <1>1 DEF ToSet
  <2>6. ToSet(back) \subseteq ToSet(s)
    BY <1>2 DEF ToSet
  <2> QED  BY <2>4, <2>5, <2>6
<1> QED  BY <1>3, <1>4, <1>5, <1>6

\* The first element, and the last.
LEMMA HeadOnce ==
  ASSUME NEW S, NEW s \in Seq(S), s # << >>, IsInjective(s)
  PROVE  /\ Head(s) \in S /\ Head(s) \in ToSet(s) /\ Head(s) = s[1]
         /\ Tail(s) \in Seq(S) /\ Len(Tail(s)) = Len(s) - 1 /\ Len(s) \in Nat \ {0}
         /\ \A i \in 1..Len(s) - 1 : Tail(s)[i] = s[i + 1]
         /\ IsInjective(Tail(s)) /\ ToSet(Tail(s)) \subseteq ToSet(s) \ {Head(s)}
<1>2. Head(s) \in ToSet(s)
  BY DEF ToSet
<1>3. IsInjective(Tail(s))
  <2>1. ASSUME NEW a \in 1..Len(s) - 1, NEW b \in 1..Len(s) - 1, Tail(s)[a] = Tail(s)[b]
        PROVE  a = b
    <3>1. a + 1 \in DOMAIN s /\ b + 1 \in DOMAIN s /\ s[a + 1] = s[b + 1]
      BY <2>1
    <3>2. a + 1 = b + 1
      BY <3>1 DEF IsInjective
    <3> QED  BY <3>2
  <2> QED  BY DEF IsInjective
<1>4. ASSUME NEW i \in 1..Len(s) - 1 PROVE Tail(s)[i] \in ToSet(s) \ {Head(s)}
  <2>2. s[i + 1] # s[1]
    BY DEF IsInjective
  <2> QED  BY <2>2 DEF ToSet
<1>5. ToSet(Tail(s)) \subseteq ToSet(s) \ {Head(s)}
  BY <1>4 DEF ToSet
<1> QED  BY <1>2, <1>3, <1>5

LEMMA LastOnce ==
  ASSUME NEW S, NEW s \in Seq(S), s # << >>, IsInjective(s)
  PROVE  /\ Last(s) \in S /\ Last(s) \in ToSet(s)
         /\ Front(s) \in Seq(S) /\ Len(Front(s)) = Len(s) - 1
         /\ IsInjective(Front(s)) /\ ToSet(Front(s)) \subseteq ToSet(s) \ {Last(s)}
<1>1. Len(s) \in Nat \ {0} /\ DOMAIN s = 1..Len(s) /\ \A i \in 1..Len(s) : s[i] \in S
  OBVIOUS
<1>2. Last(s) = s[Len(s)] /\ Last(s) \in S /\ Last(s) \in ToSet(s)
  BY DEF Last, ToSet
<1>3. Len(s) - 1 \in 0..Len(s) /\ (Len(s) - 1) + 1 = Len(s)
  BY <1>1
<1>4. /\ Front(s) \in Seq(S) /\ Len(Front(s)) = Len(s) - 1 /\ IsInjective(Front(s))
      /\ ToSet(Front(s)) \cap ToSet(SubSeq(s, Len(s), Len(s))) = {}
      /\ ToSet(Front(s)) \subseteq ToSet(s)
  BY <1>3, CutOnce DEF Front
<1>5. Last(s) \in ToSet(SubSeq(s, Len(s), Len(s)))
  BY <1>2 DEF ToSet
<1> QED  BY <1>2, <1>4, <1>5

LEMMA ConcatOnce ==
  ASSUME NEW S, NEW s \in Seq(S), NEW t \in Seq(S),
         IsInjective(s), IsInjective(t), ToSet(s) \cap ToSet(t) = {}
  PROVE  /\ s \o t \in Seq(S) /\ Len(s \o t) = Len(s) + Len(t)
         /\ IsInjective(s \o t) /\ ToSet(s \o t) = ToSet(s) \cup ToSet(t)
<1> DEFINE u == s \o t
<1>1. /\ u \in Seq(S) /\ Len(u) = Len(s) + Len(t) /\ Len(s) \in Nat /\ Len(t) \in Nat
      /\ \A i \in 1..Len(s) + Len(t) : u[i] = IF i <= Len(s) THEN s[i] ELSE t[i - Len(s)]
  OBVIOUS
<1>2. DOMAIN u = 1..Len(s) + Len(t) /\ DOMAIN s = 1..Len(s) /\ DOMAIN t = 1..Len(t)
  OBVIOUS
<1> HIDE DEF u
<1>3. ASSUME NEW i \in 1..Len(s) + Len(t)
      PROVE  IF i <= Len(s) THEN i \in DOMAIN s /\ u[i] = s[i] /\ u[i] \in ToSet(s)
                            ELSE i - Len(s) \in DOMAIN t /\ u[i] = t[i - Len(s)] /\ u[i] \in ToSet(t)
  <2>1. CASE i <= Len(s)
    <3>1. i \in DOMAIN s /\ u[i] = s[i]
      BY <1>1, <2>1
    <3> QED  BY <3>1 DEF ToSet
  <2>2. CASE ~(i <= Len(s))
    <3>1. i - Len(s) \in DOMAIN t /\ u[i] = t[i - Len(s)]
      BY <1>1, <2>2
    <3> QED  BY <3>1 DEF ToSet
  <2> QED  BY <2>1, <2>2
<1>4. ASSUME NEW a \in 1..Len(s) + Len(t), NEW b \in 1..Len(s) + Len(t), u[a] = u[b]
      PROVE  a = b
  <2>1. CASE a <= Len(s) /\ b <= Len(s)
    BY <1>3, <1>4 DEF IsInjective
  <2>2. CASE ~(a <= Len(s)) /\ ~(b <= Len(s))
    <3>1. a - Len(s) \in DOMAIN t /\ b - Len(s) \in DOMAIN t /\ t[a - Len(s)] = t[b - Len(s)]
      BY <1>3, <1>4, <2>2
    <3>2. a - Len(s) = b - Len(s)
      BY <3>1 DEF IsInjective
    <3> QED  BY <3>2
  <2>3. CASE (a <= Len(s)) # (b <= Len(s))
    BY <1>3, <1>4, <2>3
  <2> QED  BY <2>1, <2>2, <2>3
<1>5. IsInjective(u)
  BY <1>2, <1>4 DEF IsInjective
<1>6. ToSet(u) \subseteq ToSet(s) \cup ToSet(t)
  <2> SUFFICES ASSUME NEW i \in DOMAIN u PROVE u[i] \in ToSet(s) \cup ToSet(t)
    BY DEF ToSet
  <2> QED  BY <1>2, <1>3
<1>7. ToSet(s) \subseteq ToSet(u)
  <2> SUFFICES ASSUME NEW i \in DOMAIN s PROVE s[i] \in ToSet(u)
    BY DEF ToSet
  <2>1. i \in DOMAIN u /\ u[i] = s[i]
    BY <1>1
  <2> QED  BY <2>1 DEF ToSet
<1>8. ToSet(t) \subseteq ToSet(u)
  <2> SUFFICES ASSUME NEW i \in DOMAIN t PROVE t[i] \in ToSet(u)
    BY DEF ToSet
  <2>1. Len(s) + i \in DOMAIN u /\ ~(Len(s) + i <= Len(s)) /\ (Len(s) + i) - Len(s) = i
    BY <1>2
  <2>2. u[Len(s) + i] = t[i]
    BY <1>3
  <2> QED  BY <2>1, <2>2 DEF ToSet
<1> QED  BY <1>5, <1>6, <1>7, <1>8 DEF u

\* A sequence of one descriptor.
LEMMA OneElement ==
  ASSUME NEW S, NEW e \in S
  PROVE  <<e>> \in Seq(S) /\ Len(<<e>>) = 1 /\ IsInjective(<<e>>) /\ ToSet(<<e>>) = {e}
BY DEF IsInjective, ToSet

------------------------------------------------------------------------------
\* What the three helpers of the model do.

\* Release: the descriptors go to the stack as far as there is room, and only
\* their packets change.
LEMMA ReleaseStep ==
  ASSUME TypeOK, NEW s \in Seq(Descriptors), IsInjective(s), IsInjective(pool),
         ToSet(pool) \cap ToSet(s) = {}, Release(s)
  PROVE  /\ pool' \in BoundedSeq(Descriptors, PoolCapacity)
         /\ IsInjective(pool') /\ ToSet(pool') \subseteq ToSet(pool) \cup ToSet(s)
         /\ mediaFrame' \in [Descriptors -> [packet : 0..MaxCaptured, release : Releases]]
         /\ \A d \in Descriptors : mediaFrame'[d].release = mediaFrame[d].release
         /\ \A d \in Descriptors \ ToSet(s) : mediaFrame'[d] = mediaFrame[d]
<1> USE PipelineAssumption
<1>1. pool \in Seq(Descriptors) /\ Len(pool) \in Nat
  BY BoundedSeqDef DEF TypeOK
<1>2. /\ pool \o s \in Seq(Descriptors) /\ IsInjective(pool \o s)
      /\ ToSet(pool \o s) = ToSet(pool) \cup ToSet(s)
  BY <1>1, ConcatOnce
<1> DEFINE n == Min({Len(pool \o s), PoolCapacity})
<1>3. Len(pool \o s) \in Nat /\ n \in 0..Len(pool \o s) /\ n <= PoolCapacity
  BY MinOfTwo
<1>4. pool' = SubSeq(pool \o s, 1, n)
  BY DEF Release
<1>5. /\ pool' \in Seq(Descriptors) /\ Len(pool') = n /\ IsInjective(pool')
      /\ ToSet(pool') \subseteq ToSet(pool) \cup ToSet(s)
  <2> DEFINE u == pool \o s
  <2>1. u \in Seq(Descriptors) /\ IsInjective(u) /\ n \in 0..Len(u) /\ pool' = SubSeq(u, 1, n)
    BY <1>2, <1>3, <1>4
  <2> HIDE DEF n, u
  <2>2. /\ SubSeq(u, 1, n) \in Seq(Descriptors) /\ Len(SubSeq(u, 1, n)) = n
        /\ IsInjective(SubSeq(u, 1, n)) /\ ToSet(SubSeq(u, 1, n)) \subseteq ToSet(u)
    BY <2>1, CutOnce
  <2> QED  BY <1>2, <2>1, <2>2 DEF u
<1>6. pool' \in BoundedSeq(Descriptors, PoolCapacity)
  BY <1>3, <1>5, BoundedSeqDef
<1>7. ASSUME NEW d \in Descriptors
      PROVE  /\ mediaFrame'[d] \in [packet : 0..MaxCaptured, release : Releases]
             /\ mediaFrame'[d].release = mediaFrame[d].release
             /\ d \notin ToSet(s) => mediaFrame'[d] = mediaFrame[d]
  <2>1. mediaFrame[d] \in [packet : 0..MaxCaptured, release : Releases]
    BY DEF TypeOK
  <2>2. mediaFrame'[d] = IF Contains(s, d) THEN [mediaFrame[d] EXCEPT !.packet = 0] ELSE mediaFrame[d]
    BY DEF Release
  <2>3. Contains(s, d) => d \in ToSet(s)
    BY DEF Contains, ToSet
  <2> QED  BY <2>1, <2>2, <2>3
<1>8. mediaFrame' \in [Descriptors -> [packet : 0..MaxCaptured, release : Releases]]
  <2>1. DOMAIN mediaFrame' = Descriptors /\ mediaFrame' = [d \in Descriptors |-> mediaFrame'[d]]
    BY DEF Release
  <2> QED  BY <1>7, <2>1
<1> QED  BY <1>5, <1>6, <1>7, <1>8

\* The hands: a thread puts down what it has and may take what nobody has.
LEMMA HandStep ==
  ASSUME OneOwner, NEW t \in Threads, NEW d \in Descriptors \cup {NoFrame},
         d \notin Held, Keep(t, d)
  PROVE  /\ hand' \in [Threads -> Descriptors \cup {NoFrame}]
         /\ \A u, v \in Threads : u # v /\ hand'[u] = hand'[v] => hand'[u] = NoFrame
         /\ Held' = (Held \ {hand[t]}) \cup ({d} \ {NoFrame})
         /\ hand'[t] = d
         /\ \A u \in Threads \ {t} : hand'[u] = hand[u]
<1>1. hand \in [Threads -> Descriptors \cup {NoFrame}]
  BY DEF OneOwner, TypeOK
<1>2. /\ hand' \in [Threads -> Descriptors \cup {NoFrame}] /\ hand'[t] = d
      /\ \A u \in Threads \ {t} : hand'[u] = hand[u]
  BY <1>1 DEF Keep
<1>3. \A u, v \in Threads : u # v /\ hand[u] = hand[v] => hand[u] = NoFrame
  BY DEF OneOwner
<1>4. \A u \in Threads : hand[u] = d => d = NoFrame
  BY DEF Held
<1>5. \A u, v \in Threads : u # v /\ hand'[u] = hand'[v] => hand'[u] = NoFrame
  BY <1>2, <1>3, <1>4
<1>6. ASSUME NEW x PROVE x \in Held' <=> x \in (Held \ {hand[t]}) \cup ({d} \ {NoFrame})
  <2>1. x \in Held' <=> x # NoFrame /\ \E u \in Threads : hand'[u] = x
    BY DEF Held
  <2>2. x \in Held <=> x # NoFrame /\ \E u \in Threads : hand[u] = x
    BY DEF Held
  <2>3. x # NoFrame => ((\E u \in Threads : hand'[u] = x) <=> x = d \/ \E u \in Threads \ {t} : hand[u] = x)
    BY <1>2
  <2>4. x # NoFrame => ((\E u \in Threads \ {t} : hand[u] = x) <=> x # hand[t] /\ \E u \in Threads : hand[u] = x)
    BY <1>3
  <2> QED  BY <2>1, <2>2, <2>3, <2>4
<1>7. Held' = (Held \ {hand[t]}) \cup ({d} \ {NoFrame})
  BY <1>6
<1> QED  BY <1>2, <1>5, <1>7

\* getMediaFrame: a descriptor that nobody had, with the packet and the callback.
LEMMA GetStep ==
  ASSUME OneOwner, NEW t \in Threads, NEW packet \in 0..MaxCaptured, NEW release \in Releases,
         getMediaFrame(t, packet, release)
  PROVE  \E d \in Descriptors :
           /\ d \notin ToSet(raw) \cup ToSet(es) \cup Held \cup leaked
           /\ Keep(t, d)
           /\ pool' \in BoundedSeq(Descriptors, PoolCapacity)
           /\ IsInjective(pool') /\ ToSet(pool') \subseteq ToSet(pool) \ {d}
           /\ mediaFrame' \in [Descriptors -> [packet : 0..MaxCaptured, release : Releases]]
           /\ mediaFrame'[d] = [packet |-> packet, release |-> release]
           /\ \A x \in Descriptors \ {d} : mediaFrame'[x] = mediaFrame[x]
<1> USE PipelineAssumption
<1>1. pool \in Seq(Descriptors) /\ Len(pool) \in Nat /\ Len(pool) <= PoolCapacity /\ IsInjective(pool)
  BY BoundedSeqDef DEF OneOwner, TypeOK
<1>2. PICK d \in (IF pool = << >> THEN Unallocated ELSE {Last(pool)}) :
        /\ pool' = IF pool = << >> THEN pool ELSE Front(pool)
        /\ mediaFrame' = [mediaFrame EXCEPT ![d] = [packet |-> packet, release |-> release]]
        /\ Keep(t, d)
  BY DEF getMediaFrame
<1>3. /\ d \in Descriptors
      /\ d \notin ToSet(raw) \cup ToSet(es) \cup Held \cup leaked
      /\ pool' \in Seq(Descriptors) /\ Len(pool') <= PoolCapacity
      /\ IsInjective(pool') /\ ToSet(pool') \subseteq ToSet(pool) \ {d}
  <2>1. CASE pool = << >>
    <3>1. d \in Unallocated /\ pool' = pool
      BY <1>2, <2>1
    <3> QED  BY <1>1, <3>1 DEF Unallocated
  <2>2. CASE pool # << >>
    <3>1. d = Last(pool) /\ pool' = Front(pool)
      BY <1>2, <2>2
    <3>2. d \in ToSet(pool) /\ d \in Descriptors
      BY <1>1, <2>2, LastOnce
    <3>3. d \notin ToSet(raw) \cup ToSet(es) \cup Held \cup leaked
      BY <3>2 DEF OneOwner
    <3>4. /\ pool' \in Seq(Descriptors) /\ Len(pool') = Len(pool) - 1
          /\ IsInjective(pool') /\ ToSet(pool') \subseteq ToSet(pool) \ {d}
      BY <1>1, <2>2, <3>1, LastOnce
    <3> QED  BY <1>1, <3>2, <3>3, <3>4
  <2> QED  BY <2>1, <2>2
<1>4. pool' \in BoundedSeq(Descriptors, PoolCapacity)
  BY <1>3, BoundedSeqDef
<1>5. mediaFrame \in [Descriptors -> [packet : 0..MaxCaptured, release : Releases]]
  BY DEF OneOwner, TypeOK
<1>6. /\ mediaFrame' \in [Descriptors -> [packet : 0..MaxCaptured, release : Releases]]
      /\ mediaFrame'[d] = [packet |-> packet, release |-> release]
      /\ \A x \in Descriptors \ {d} : mediaFrame'[x] = mediaFrame[x]
  BY <1>2, <1>3, <1>5
<1> QED  BY <1>2, <1>3, <1>4, <1>6

------------------------------------------------------------------------------
\* Ownership.  OneOwner is split into the part about the descriptors and the types
\* of everything else.
FramesOK ==
  /\ hand \in [Threads -> Descriptors \cup {NoFrame}]
  /\ raw \in BoundedSeq(Descriptors, RawCapacity)
  /\ es \in BoundedSeq(Descriptors, EsCapacity)
  /\ pool \in BoundedSeq(Descriptors, PoolCapacity)
  /\ mediaFrame \in [Descriptors -> [packet : 0..MaxCaptured, release : Releases]]
  /\ leaked \subseteq Descriptors
  /\ IsInjective(pool) /\ IsInjective(raw) /\ IsInjective(es)
  /\ \A t, u \in Threads : t # u /\ hand[t] = hand[u] => hand[t] = NoFrame
  /\ ToSet(pool) \cap (ToSet(raw) \cup ToSet(es) \cup Held \cup leaked) = {}
  /\ ToSet(raw) \cap (ToSet(es) \cup Held \cup leaked) = {}
  /\ ToSet(es) \cap (Held \cup leaked) = {}
  /\ Held \cap leaked = {}

ControlOK ==
  /\ pc["main"] \in {"create", "start", "run", "join", "joined"}
  /\ pc["reader"] \in {"off", "loop", "read", "enqueue", "discard", "getSize", "cleanIf", "ended"}
  /\ pc["encoder"] \in {"off", "loop", "dequeue", "deal", "got", "enqueue", "ended"}
  /\ pc["mux"] \in {"off", "dequeue", "again", "write", "ended"}
  /\ codec \in BoundedSeq(1..MaxCaptured, EncoderDelay + 1)
  /\ mStatus \in {"NULL", "Runing", "Pause", "Stop"}
  /\ stop \in BOOLEAN
  /\ captured \in 0..MaxCaptured
  /\ written \in 0..MaxCaptured

LEMMA OwnerSplit == OneOwner <=> FramesOK /\ ControlOK
BY DEF OneOwner, TypeOK, FramesOK, ControlOK

\* What OneOwner says of the sequences, in the form that the lemmas above want.
LEMMA Sequences ==
  ASSUME OneOwner
  PROVE  /\ raw \in Seq(Descriptors) /\ Len(raw) \in Nat /\ Len(raw) <= RawCapacity /\ IsInjective(raw)
         /\ es \in Seq(Descriptors) /\ Len(es) \in Nat /\ Len(es) <= EsCapacity /\ IsInjective(es)
         /\ pool \in Seq(Descriptors) /\ IsInjective(pool)
         /\ codec \in Seq(1..MaxCaptured) /\ Len(codec) \in Nat /\ Len(codec) <= EncoderDelay + 1
         /\ {RawCapacity, EsCapacity, PoolCapacity, EncoderDelay, MaxCaptured} \subseteq Nat
<1> USE PipelineAssumption
<1>1. /\ raw \in Seq(Descriptors) /\ Len(raw) <= RawCapacity
      /\ es \in Seq(Descriptors) /\ Len(es) <= EsCapacity
      /\ pool \in Seq(Descriptors)
      /\ codec \in Seq(1..MaxCaptured) /\ Len(codec) <= EncoderDelay + 1
  BY BoundedSeqDef DEF OneOwner, TypeOK
<1> QED  BY <1>1 DEF OneOwner

\* A thread that takes a descriptor for a new frame.
LEMMA GetOwned ==
  ASSUME OneOwner, NEW t \in Threads, NEW packet \in 0..MaxCaptured, NEW release \in Releases,
         getMediaFrame(t, packet, release), UNCHANGED <<raw, es, leaked>>
  PROVE  FramesOK'
<1>1. PICK d \in Descriptors :
        /\ d \notin ToSet(raw) \cup ToSet(es) \cup Held \cup leaked
        /\ Keep(t, d)
        /\ pool' \in BoundedSeq(Descriptors, PoolCapacity)
        /\ IsInjective(pool') /\ ToSet(pool') \subseteq ToSet(pool) \ {d}
        /\ mediaFrame' \in [Descriptors -> [packet : 0..MaxCaptured, release : Releases]]
  BY GetStep
<1>2. /\ hand' \in [Threads -> Descriptors \cup {NoFrame}]
      /\ \A u, v \in Threads : u # v /\ hand'[u] = hand'[v] => hand'[u] = NoFrame
      /\ Held' = (Held \ {hand[t]}) \cup ({d} \ {NoFrame})
  BY <1>1, HandStep
<1> QED  BY <1>1, <1>2 DEF OneOwner, TypeOK, FramesOK

\* A thread that gives its descriptor back.
LEMMA ReleaseOwned ==
  ASSUME OneOwner, NEW t \in Threads, hand[t] # NoFrame,
         mediaFrameRelease(t), UNCHANGED <<raw, es, leaked>>
  PROVE  FramesOK'
<1>1. hand[t] \in Descriptors /\ hand[t] \in Held /\ NoFrame \notin Held
  BY DEF OneOwner, TypeOK, Held
<1>2. /\ <<hand[t]>> \in Seq(Descriptors) /\ IsInjective(<<hand[t]>>) /\ ToSet(<<hand[t]>>) = {hand[t]}
  BY <1>1, OneElement
<1>3. ToSet(pool) \cap ToSet(<<hand[t]>>) = {}
  BY <1>1, <1>2 DEF OneOwner
<1>4. /\ pool' \in BoundedSeq(Descriptors, PoolCapacity)
      /\ IsInjective(pool') /\ ToSet(pool') \subseteq ToSet(pool) \cup {hand[t]}
      /\ mediaFrame' \in [Descriptors -> [packet : 0..MaxCaptured, release : Releases]]
  BY <1>2, <1>3, ReleaseStep DEF OneOwner, mediaFrameRelease
<1>5. /\ hand' \in [Threads -> Descriptors \cup {NoFrame}]
      /\ \A u, v \in Threads : u # v /\ hand'[u] = hand'[v] => hand'[u] = NoFrame
      /\ Held' = Held \ {hand[t]}
  BY <1>1, HandStep DEF mediaFrameRelease
<1>6. /\ ToSet(pool') \cap (ToSet(raw') \cup ToSet(es') \cup Held' \cup leaked') = {}
      /\ ToSet(raw') \cap (ToSet(es') \cup Held' \cup leaked') = {}
      /\ ToSet(es') \cap (Held' \cup leaked') = {}
      /\ Held' \cap leaked' = {}
  BY <1>1, <1>4, <1>5 DEF OneOwner
<1> QED  BY <1>4, <1>5, <1>6 DEF OneOwner, TypeOK, FramesOK

\* A thread that loses its descriptor.
LEMMA LoseOwned ==
  ASSUME OneOwner, NEW t \in Threads, hand[t] # NoFrame, Keep(t, NoFrame),
         leaked' = leaked \cup {hand[t]}, UNCHANGED <<raw, es, pool, mediaFrame>>
  PROVE  FramesOK'
<1>1. hand[t] \in Descriptors /\ hand[t] \in Held /\ NoFrame \notin Held
  BY DEF OneOwner, TypeOK, Held
<1>2. /\ hand' \in [Threads -> Descriptors \cup {NoFrame}]
      /\ \A u, v \in Threads : u # v /\ hand'[u] = hand'[v] => hand'[u] = NoFrame
      /\ Held' = Held \ {hand[t]}
  BY <1>1, HandStep
<1>3. /\ ToSet(pool') \cap (ToSet(raw') \cup ToSet(es') \cup Held' \cup leaked') = {}
      /\ ToSet(raw') \cap (ToSet(es') \cup Held' \cup leaked') = {}
      /\ ToSet(es') \cap (Held' \cup leaked') = {}
      /\ Held' \cap leaked' = {}
  BY <1>1, <1>2 DEF OneOwner
<1> QED  BY <1>2, <1>3 DEF OneOwner, TypeOK, FramesOK

\* The reader and the encoder append to their queue.
LEMMA EnqueueOwned ==
  ASSUME OneOwner, NEW t \in Threads, hand[t] # NoFrame, Keep(t, NoFrame),
         \/ raw' = Append(raw, hand[t]) /\ Len(raw) < RawCapacity /\ es' = es
         \/ es' = Append(es, hand[t]) /\ Len(es) < EsCapacity /\ raw' = raw,
         UNCHANGED <<pool, mediaFrame, leaked>>
  PROVE  FramesOK'
<1>1. hand[t] \in Descriptors /\ hand[t] \in Held /\ NoFrame \notin Held
  BY DEF OneOwner, TypeOK, Held
<1>2. /\ hand' \in [Threads -> Descriptors \cup {NoFrame}]
      /\ \A u, v \in Threads : u # v /\ hand'[u] = hand'[v] => hand'[u] = NoFrame
      /\ Held' = Held \ {hand[t]}
  BY <1>1, HandStep
<1>3. hand[t] \notin ToSet(raw) /\ hand[t] \notin ToSet(es) /\ hand[t] \notin ToSet(pool)
  BY <1>1 DEF OneOwner
<1>4. CASE raw' = Append(raw, hand[t]) /\ Len(raw) < RawCapacity /\ es' = es
  <2>1. /\ raw' \in Seq(Descriptors) /\ Len(raw') <= RawCapacity /\ IsInjective(raw')
        /\ ToSet(raw') = ToSet(raw) \cup {hand[t]}
    <3>1. raw' \in Seq(Descriptors) /\ Len(raw') = Len(raw) + 1
      BY <1>1, <1>4, Sequences
    <3>2. IsInjective(raw') /\ ToSet(raw') = ToSet(raw) \cup {hand[t]}
      BY <1>1, <1>3, <1>4, Sequences, AppendOnce
    <3> QED  BY <3>1, <3>2, Sequences
  <2>2. raw' \in BoundedSeq(Descriptors, RawCapacity)
    BY <2>1, Sequences, BoundedSeqDef
  <2>3. /\ ToSet(pool') \cap (ToSet(raw') \cup ToSet(es') \cup Held' \cup leaked') = {}
        /\ ToSet(raw') \cap (ToSet(es') \cup Held' \cup leaked') = {}
        /\ ToSet(es') \cap (Held' \cup leaked') = {}
        /\ Held' \cap leaked' = {}
    BY <1>1, <1>2, <2>1 DEF OneOwner
  <2> QED  BY <1>2, <1>4, <2>1, <2>2, <2>3 DEF OneOwner, TypeOK, FramesOK
<1>5. CASE es' = Append(es, hand[t]) /\ Len(es) < EsCapacity /\ raw' = raw
  <2>1. /\ es' \in Seq(Descriptors) /\ Len(es') <= EsCapacity /\ IsInjective(es')
        /\ ToSet(es') = ToSet(es) \cup {hand[t]}
    <3>1. es' \in Seq(Descriptors) /\ Len(es') = Len(es) + 1
      BY <1>1, <1>5, Sequences
    <3>2. IsInjective(es') /\ ToSet(es') = ToSet(es) \cup {hand[t]}
      BY <1>1, <1>3, <1>5, Sequences, AppendOnce
    <3> QED  BY <3>1, <3>2, Sequences
  <2>2. es' \in BoundedSeq(Descriptors, EsCapacity)
    BY <2>1, Sequences, BoundedSeqDef
  <2>3. /\ ToSet(pool') \cap (ToSet(raw') \cup ToSet(es') \cup Held' \cup leaked') = {}
        /\ ToSet(raw') \cap (ToSet(es') \cup Held' \cup leaked') = {}
        /\ ToSet(es') \cap (Held' \cup leaked') = {}
        /\ Held' \cap leaked' = {}
    BY <1>1, <1>2, <2>1 DEF OneOwner
  <2> QED  BY <1>2, <1>5, <2>1, <2>2, <2>3 DEF OneOwner, TypeOK, FramesOK
<1> QED  BY <1>4, <1>5

\* The encoder and the mux thread take the oldest descriptor of their queue.
LEMMA DequeueOwned ==
  ASSUME OneOwner, NEW t \in Threads, hand[t] = NoFrame,
         \/ raw # << >> /\ Keep(t, Head(raw)) /\ raw' = Tail(raw) /\ es' = es
         \/ es # << >> /\ Keep(t, Head(es)) /\ es' = Tail(es) /\ raw' = raw,
         UNCHANGED <<pool, mediaFrame, leaked>>
  PROVE  FramesOK'
<1>1. CASE raw # << >> /\ Keep(t, Head(raw)) /\ raw' = Tail(raw) /\ es' = es
  <2>1. /\ Head(raw) \in Descriptors /\ Head(raw) \in ToSet(raw)
        /\ raw' \in Seq(Descriptors) /\ Len(raw') = Len(raw) - 1 /\ IsInjective(raw')
        /\ ToSet(raw') \subseteq ToSet(raw) \ {Head(raw)}
    BY <1>1, Sequences, HeadOnce
  <2>2. raw' \in BoundedSeq(Descriptors, RawCapacity)
    BY <2>1, Sequences, BoundedSeqDef
  <2>3. Head(raw) \notin Held
    BY <2>1 DEF OneOwner
  <2>4. /\ hand' \in [Threads -> Descriptors \cup {NoFrame}]
        /\ \A u, v \in Threads : u # v /\ hand'[u] = hand'[v] => hand'[u] = NoFrame
        /\ Held' \subseteq Held \cup {Head(raw)}
    <3>1. Head(raw) \in Descriptors \cup {NoFrame} /\ Keep(t, Head(raw))
      BY <2>1
    <3> QED  BY <2>3, <3>1, HandStep
  <2> QED  BY <2>1, <2>2, <2>4 DEF OneOwner, TypeOK, FramesOK
<1>2. CASE es # << >> /\ Keep(t, Head(es)) /\ es' = Tail(es) /\ raw' = raw
  <2>1. /\ Head(es) \in Descriptors /\ Head(es) \in ToSet(es)
        /\ es' \in Seq(Descriptors) /\ Len(es') = Len(es) - 1 /\ IsInjective(es')
        /\ ToSet(es') \subseteq ToSet(es) \ {Head(es)}
    BY <1>2, Sequences, HeadOnce
  <2>2. es' \in BoundedSeq(Descriptors, EsCapacity)
    BY <2>1, Sequences, BoundedSeqDef
  <2>3. Head(es) \notin Held
    BY <2>1 DEF OneOwner
  <2>4. /\ hand' \in [Threads -> Descriptors \cup {NoFrame}]
        /\ \A u, v \in Threads : u # v /\ hand'[u] = hand'[v] => hand'[u] = NoFrame
        /\ Held' \subseteq Held \cup {Head(es)}
    <3>1. Head(es) \in Descriptors \cup {NoFrame} /\ Keep(t, Head(es))
      BY <2>1
    <3> QED  BY <2>3, <3>1, HandStep
  <2> QED  BY <2>1, <2>2, <2>4 DEF OneOwner, TypeOK, FramesOK
<1> QED  BY <1>1, <1>2

\* The reader's cleaning, and the mux thread's when it stops: the front of es goes
\* back to the stack.
LEMMA CleanOwned ==
  ASSUME OneOwner, NEW k \in 0..Len(es), es' = SubSeq(es, k + 1, Len(es)),
         Release(SubSeq(es, 1, k)), UNCHANGED <<hand, raw, leaked>>
  PROVE  FramesOK'
<1> DEFINE front == SubSeq(es, 1, k)
<1>1. /\ front \in Seq(Descriptors) /\ IsInjective(front)
      /\ es' \in Seq(Descriptors) /\ Len(es') = Len(es) - k /\ IsInjective(es')
      /\ ToSet(front) \cap ToSet(es') = {} /\ ToSet(front) \cup ToSet(es') = ToSet(es)
  BY Sequences, CutOnce, SMTT(30)
<1> HIDE DEF front
<1>2. es' \in BoundedSeq(Descriptors, EsCapacity)
  <2>1. k \in Nat /\ Len(es) \in Nat /\ EsCapacity \in Nat /\ Len(es) <= EsCapacity
    BY Sequences
  <2>2. Len(es') <= EsCapacity
    BY <2>1
  <2> QED  BY <1>1, <2>1, <2>2, BoundedSeqDef
<1>3. ToSet(pool) \cap ToSet(front) = {}
  BY <1>1 DEF OneOwner
<1>4. /\ pool' \in BoundedSeq(Descriptors, PoolCapacity)
      /\ IsInjective(pool') /\ ToSet(pool') \subseteq ToSet(pool) \cup ToSet(front)
      /\ mediaFrame' \in [Descriptors -> [packet : 0..MaxCaptured, release : Releases]]
  <2>1. TypeOK /\ IsInjective(pool) /\ Release(front)
    BY DEF OneOwner, front
  <2> QED  BY <1>1, <1>3, <2>1, ReleaseStep
<1>5. Held' = Held
  BY DEF Held
<1>6. /\ ToSet(pool') \cap (ToSet(raw') \cup ToSet(es') \cup Held' \cup leaked') = {}
      /\ ToSet(raw') \cap (ToSet(es') \cup Held' \cup leaked') = {}
      /\ ToSet(es') \cap (Held' \cup leaked') = {}
      /\ Held' \cap leaked' = {}
  BY <1>1, <1>4, <1>5 DEF OneOwner
<1> QED  BY <1>1, <1>2, <1>4, <1>6 DEF OneOwner, TypeOK, FramesOK

------------------------------------------------------------------------------
\* Order.  How the cuts move when a sequence gets shorter or longer.
LEMMA WithinEmpty ==
  ASSUME NEW lo, NEW hi, lo <= hi
  PROVE  Within(<< >>, lo, hi)
BY DEF Within

LEMMA WithinOne ==
  ASSUME NEW x, NEW lo \in Nat, NEW hi \in Nat
  PROVE  Within(<<x>>, lo, hi) <=> lo <= hi /\ lo < x /\ x <= hi
BY DEF Within

\* Where there is no frame, a cut may stay or move through.
LEMMA WithinBounds ==
  ASSUME NEW s, NEW lo, NEW hi, Within(s, lo, hi)
  PROVE  lo <= hi
BY DEF Within

LEMMA WithinAppend ==
  ASSUME NEW s \in Seq(Nat), NEW x \in Nat, NEW lo \in Nat, NEW mid \in Nat, NEW hi \in Nat,
         Within(s, lo, mid), mid < x, x <= hi
  PROVE  Within(Append(s, x), lo, hi)
<1>1. /\ Len(Append(s, x)) = Len(s) + 1 /\ Len(s) \in Nat
      /\ \A i \in 1..Len(s) : Append(s, x)[i] = s[i] /\ s[i] \in Nat
      /\ Append(s, x)[Len(s) + 1] = x
  OBVIOUS
<1>2. \A i \in 1..Len(s) : lo < s[i] /\ s[i] <= mid
  BY DEF Within
<1>3. lo <= mid /\ \A i, j \in 1..Len(s) : i < j => s[i] < s[j]
  BY DEF Within
<1>4. ASSUME NEW i \in 1..Len(s) + 1 PROVE lo < Append(s, x)[i] /\ Append(s, x)[i] <= hi
  BY <1>2, <1>3
<1>5. ASSUME NEW i \in 1..Len(s) + 1, NEW j \in 1..Len(s) + 1, i < j
      PROVE  Append(s, x)[i] < Append(s, x)[j]
  <2>1. i \in 1..Len(s) /\ Append(s, x)[i] = s[i]
    BY <1>5
  <2>2. CASE j \in 1..Len(s)
    BY <1>3, <1>5, <2>2
  <2>3. CASE j = Len(s) + 1
    BY <1>2, <2>1, <2>3
  <2> QED  BY <2>2, <2>3
<1> QED  BY <1>1, <1>4 DEF Within

\* A sequence that loses its first k elements; the cut before it may follow.
LEMMA WithinBack ==
  ASSUME NEW s \in Seq(Nat), NEW lo \in Nat, NEW hi \in Nat, Within(s, lo, hi),
         NEW k \in 0..Len(s)
  PROVE  /\ Within(SubSeq(s, k + 1, Len(s)), lo, hi)
         /\ k > 0 => /\ lo < s[k] /\ s[k] <= hi
                     /\ Within(SubSeq(s, k + 1, Len(s)), s[k], hi)
<1> DEFINE t == SubSeq(s, k + 1, Len(s))
<1>2. lo <= hi /\ \A i \in 1..Len(s) : lo < s[i] /\ s[i] <= hi
  BY DEF Within
<1>3. \A i, j \in 1..Len(s) : i < j => s[i] < s[j]
  BY DEF Within
<1>4. Len(t) = Len(s) - k /\ \A i \in 1..Len(s) - k : t[i] = s[k + i] /\ k + i \in 1..Len(s)
  BY BackElements
<1> HIDE DEF t
<1>5. Within(t, lo, hi)
  <2>1. \A i \in 1..Len(t) : lo < t[i] /\ t[i] <= hi
    BY <1>2, <1>4
  <2>2. ASSUME NEW i \in 1..Len(t), NEW j \in 1..Len(t), i < j PROVE t[i] < t[j]
    <3>2. k + i \in 1..Len(s) /\ k + j \in 1..Len(s) /\ t[i] = s[k + i] /\ t[j] = s[k + j]
      BY <1>4
    <3>3. k + i < k + j
      BY <2>2
    <3> QED  BY <1>3, <3>2, <3>3
  <2> QED  BY <2>1, <2>2 DEF Within
<1>6. ASSUME k > 0
      PROVE  lo < s[k] /\ s[k] <= hi /\ Within(t, s[k], hi)
  <2>1. k \in 1..Len(s)
    BY <1>6
  <2>2. lo < s[k] /\ s[k] <= hi
    BY <1>2, <2>1
  <2>3. ASSUME NEW i \in 1..Len(t) PROVE s[k] < t[i] /\ t[i] <= hi
    <3>1. t[i] = s[k + i] /\ k + i \in 1..Len(s) /\ k < k + i
      BY <1>4
    <3> QED  BY <1>2, <1>3, <2>1, <3>1
  <2>4. \A i, j \in 1..Len(t) : i < j => t[i] < t[j]
    BY <1>5 DEF Within
  <2> QED  BY <2>2, <2>3, <2>4 DEF Within
<1> QED  BY <1>5, <1>6 DEF t

\* Two pieces of the line, one after the other.
LEMMA WithinConcat ==
  ASSUME NEW s \in Seq(Nat), NEW t \in Seq(Nat),
         NEW lo \in Int, NEW mid \in Nat, NEW hi \in Nat,
         Within(s, lo, mid), Within(t, mid, hi)
  PROVE  s \o t \in Seq(Nat) /\ Within(s \o t, lo, hi)
<1> DEFINE u == s \o t
<1>1. /\ u \in Seq(Nat) /\ Len(u) = Len(s) + Len(t) /\ Len(s) \in Nat /\ Len(t) \in Nat
      /\ \A i \in 1..Len(s) + Len(t) : u[i] = IF i <= Len(s) THEN s[i] ELSE t[i - Len(s)]
  OBVIOUS
<1>2. /\ lo <= mid /\ mid <= hi
      /\ \A i \in 1..Len(s) : lo < s[i] /\ s[i] <= mid /\ s[i] \in Nat
      /\ \A i \in 1..Len(t) : mid < t[i] /\ t[i] <= hi /\ t[i] \in Nat
  BY DEF Within
<1>3. /\ \A i, j \in 1..Len(s) : i < j => s[i] < s[j]
      /\ \A i, j \in 1..Len(t) : i < j => t[i] < t[j]
  BY DEF Within
<1> HIDE DEF u
<1>4. ASSUME NEW i \in 1..Len(u)
      PROVE  \/ i \in 1..Len(s) /\ u[i] = s[i]
             \/ i - Len(s) \in 1..Len(t) /\ u[i] = t[i - Len(s)] /\ i > Len(s)
  <2>2. CASE i <= Len(s)
    BY <1>1
  <2>3. CASE ~(i <= Len(s))
    BY <1>1
  <2> QED  BY <2>2, <2>3
<1>6. ASSUME NEW i \in 1..Len(u), NEW j \in 1..Len(u), i < j PROVE u[i] < u[j]
  <2>1. CASE i \in 1..Len(s) /\ u[i] = s[i] /\ j \in 1..Len(s) /\ u[j] = s[j]
    BY <1>3, <1>6, <2>1
  <2>2. CASE i \in 1..Len(s) /\ u[i] = s[i] /\ j - Len(s) \in 1..Len(t) /\ u[j] = t[j - Len(s)]
    <3>1. s[i] <= mid /\ mid < t[j - Len(s)] /\ s[i] \in Nat /\ t[j - Len(s)] \in Nat
      BY <1>2, <2>2
    <3>3. s[i] < t[j - Len(s)]
      BY <3>1
    <3> QED  BY <2>2, <3>3
  <2>3. CASE /\ i - Len(s) \in 1..Len(t) /\ u[i] = t[i - Len(s)]
             /\ j - Len(s) \in 1..Len(t) /\ u[j] = t[j - Len(s)]
    <3>1. i - Len(s) < j - Len(s)
      BY <1>6
    <3> QED  BY <1>3, <2>3, <3>1
  <2>4. /\ \/ i \in 1..Len(s) /\ u[i] = s[i]
           \/ i - Len(s) \in 1..Len(t) /\ u[i] = t[i - Len(s)] /\ i > Len(s)
        /\ \/ j \in 1..Len(s) /\ u[j] = s[j]
           \/ j - Len(s) \in 1..Len(t) /\ u[j] = t[j - Len(s)] /\ j > Len(s)
    BY <1>4
  <2>5. ~(i > Len(s) /\ j \in 1..Len(s))
    <3>1. i \in Nat /\ j \in Nat /\ Len(s) \in Nat
      BY <1>1
    <3> QED  BY <1>6, <3>1
  <2> QED  BY <2>1, <2>2, <2>3, <2>4, <2>5
<1>7. ASSUME NEW i \in 1..Len(u) PROVE lo < u[i] /\ u[i] <= hi
  <2>1. CASE i \in 1..Len(s) /\ u[i] = s[i]
    <3>1. lo < s[i] /\ s[i] <= mid /\ s[i] \in Nat /\ mid <= hi
      BY <1>2, <2>1
    <3> QED  BY <2>1, <3>1
  <2>2. CASE i - Len(s) \in 1..Len(t) /\ u[i] = t[i - Len(s)]
    <3>1. mid < t[i - Len(s)] /\ t[i - Len(s)] <= hi /\ t[i - Len(s)] \in Nat /\ lo <= mid
      BY <1>2, <2>2
    <3> QED  BY <2>2, <3>1
  <2> QED  BY <1>4, <2>1, <2>2
<1>8. Within(u, lo, hi)
  <2>1. lo <= hi
    BY <1>2
  <2> QED  BY <1>6, <1>7, <2>1 DEF Within
<1> QED  BY <1>1, <1>8 DEF u

------------------------------------------------------------------------------
\* The packets of a queue, as a function of the frames' contents m: PacketsOf is
\* Packets of mediaFrame.
Packets(m, s) == [i \in DOMAIN s |-> m[s[i]].packet]
Frames == [packet : 0..MaxCaptured, release : Releases]

LEMMA NumbersAreNat ==
  ASSUME NEW s \in Seq(1..MaxCaptured)
  PROVE  s \in Seq(Nat)
<1>1. 1..MaxCaptured \subseteq Nat
  BY PipelineAssumption
<1> QED  BY <1>1, SeqMonotonic

LEMMA PacketsTyped ==
  ASSUME NEW m \in [Descriptors -> Frames], NEW s \in Seq(Descriptors)
  PROVE  /\ Packets(m, s) \in Seq(Nat) /\ Len(Packets(m, s)) = Len(s) /\ Len(s) \in Nat
         /\ \A i \in 1..Len(s) : Packets(m, s)[i] = m[s[i]].packet
<1>2. \A i \in 1..Len(s) : m[s[i]].packet \in Nat
  BY DEF Frames
<1>3. Packets(m, s) = [i \in 1..Len(s) |-> m[s[i]].packet]
  BY DEF Packets
<1>4. Packets(m, s) \in [1..Len(s) -> Nat]
  BY <1>2, <1>3
<1>5. Packets(m, s) \in Seq(Nat) /\ Len(Packets(m, s)) = Len(s)
  BY <1>4
<1> QED  BY <1>3, <1>5

\* They are the same if the contents of the queue's frames are.
LEMMA PacketsSame ==
  ASSUME NEW m \in [Descriptors -> Frames], NEW n \in [Descriptors -> Frames],
         NEW s \in Seq(Descriptors), \A d \in ToSet(s) : n[d] = m[d]
  PROVE  Packets(n, s) = Packets(m, s)
<1>1. \A i \in DOMAIN s : n[s[i]] = m[s[i]]
  BY DEF ToSet
<1> QED  BY <1>1 DEF Packets

LEMMA PacketsAppend ==
  ASSUME NEW m \in [Descriptors -> Frames], NEW s \in Seq(Descriptors), NEW d \in Descriptors
  PROVE  Packets(m, Append(s, d)) = Append(Packets(m, s), m[d].packet)
<1> DEFINE q == Append(s, d)
           p == Append(Packets(m, s), m[d].packet)
<1>1. /\ q \in Seq(Descriptors) /\ Len(q) = Len(s) + 1 /\ Len(s) \in Nat
      /\ \A i \in 1..Len(s) : q[i] = s[i]
      /\ q[Len(s) + 1] = d
  OBVIOUS
<1>2. /\ Packets(m, s) \in Seq(Nat) /\ Len(Packets(m, s)) = Len(s) /\ m[d].packet \in Nat
      /\ \A i \in 1..Len(s) : Packets(m, s)[i] = m[s[i]].packet
  <2>1. m[d] \in Frames
    OBVIOUS
  <2>2. m[d].packet \in Nat
    BY <2>1, PipelineAssumption DEF Frames
  <2> QED  BY <2>2, PacketsTyped
<1>3. /\ p \in Seq(Nat) /\ Len(p) = Len(s) + 1
      /\ \A i \in 1..Len(s) : p[i] = m[s[i]].packet
      /\ p[Len(s) + 1] = m[d].packet
  BY <1>2
<1> HIDE DEF q, p
<1>4. /\ Packets(m, q) \in Seq(Nat) /\ Len(Packets(m, q)) = Len(s) + 1
      /\ \A i \in 1..Len(s) + 1 : Packets(m, q)[i] = m[q[i]].packet
  BY <1>1, PacketsTyped
<1>5. \A i \in 1..Len(s) + 1 : Packets(m, q)[i] = p[i]
  <2>1. ASSUME NEW i \in 1..Len(s) + 1 PROVE i \in 1..Len(s) \/ i = Len(s) + 1
    BY <1>1
  <2> QED  BY <1>1, <1>3, <1>4, <2>1
<1>6. Packets(m, q) = p
  BY <1>3, <1>4, <1>5
<1> QED  BY <1>6 DEF q, p

LEMMA PacketsBack ==
  ASSUME NEW m \in [Descriptors -> Frames], NEW s \in Seq(Descriptors), NEW k \in 0..Len(s)
  PROVE  Packets(m, SubSeq(s, k + 1, Len(s))) = SubSeq(Packets(m, s), k + 1, Len(s))
<1> DEFINE q == SubSeq(s, k + 1, Len(s))
           p == SubSeq(Packets(m, s), k + 1, Len(s))
<1>1. /\ q \in Seq(Descriptors) /\ Len(q) = Len(s) - k
      /\ \A i \in 1..Len(s) - k : q[i] = s[k + i] /\ k + i \in 1..Len(s)
  BY BackElements
<1>2. /\ Packets(m, s) \in Seq(Nat) /\ Len(Packets(m, s)) = Len(s) /\ Len(s) \in Nat
      /\ \A i \in 1..Len(s) : Packets(m, s)[i] = m[s[i]].packet
  BY PacketsTyped
<1>3. /\ p \in Seq(Nat) /\ Len(p) = Len(s) - k
      /\ \A i \in 1..Len(s) - k : p[i] = Packets(m, s)[k + i]
  BY <1>2
<1> HIDE DEF q, p
<1>4. /\ Packets(m, q) \in Seq(Nat) /\ Len(Packets(m, q)) = Len(s) - k
      /\ \A i \in 1..Len(s) - k : Packets(m, q)[i] = m[q[i]].packet
  BY <1>1, PacketsTyped
<1>5. \A i \in 1..Len(s) - k : Packets(m, q)[i] = p[i]
  BY <1>1, <1>2, <1>3, <1>4
<1>6. Packets(m, q) = p
  BY <1>3, <1>4, <1>5, SeqEqual
<1> QED  BY <1>6 DEF q, p

------------------------------------------------------------------------------
\* The threads that do not step, and the queues that the step leaves alone, keep
\* their frames if only descriptors of a set C change, of which they have none.
LEMMA OthersKept ==
  ASSUME IInv, NEW t \in Threads, NEW C \in SUBSET Descriptors,
         mediaFrame' \in [Descriptors -> Frames],
         \A d \in Descriptors \ C : mediaFrame'[d] = mediaFrame[d],
         C \cap (Held \ {hand[t]}) = {},
         \A u \in Threads \ {t} : pc'[u] = pc[u] /\ hand'[u] = hand[u]
  PROVE  /\ \A u \in Threads \ {t} : hand[u] # NoFrame => mediaFrame'[hand'[u]] = mediaFrame[hand[u]]
         /\ \A u \in Threads \ {t} : \A label \in Holding : PacketAt(u, label)' = PacketAt(u, label)
         /\ raw' = raw /\ C \cap ToSet(raw) = {} => PacketsOf(raw)' = PacketsOf(raw)
         /\ es' = es /\ C \cap ToSet(es) = {} => PacketsOf(es)' = PacketsOf(es)
<1>1. OneOwner /\ HandsByLabel
  BY DEF IInv
<1>2. mediaFrame \in [Descriptors -> Frames]
  BY <1>1 DEF OneOwner, TypeOK, Frames
<1>3. ASSUME NEW u \in Threads \ {t}, hand[u] # NoFrame
      PROVE  mediaFrame'[hand'[u]] = mediaFrame[hand[u]]
  <2>1. hand[u] \in Descriptors /\ hand[u] \in Held /\ hand[u] # hand[t]
    BY <1>1, <1>3 DEF OneOwner, TypeOK, Held
  <2> QED  BY <2>1
<1>4. ASSUME NEW u \in Threads \ {t}, NEW label \in Holding
      PROVE  PacketAt(u, label)' = PacketAt(u, label)
  <2>1. CASE pc[u] = label
    <3>1. hand[u] # NoFrame /\ pc'[u] = label
      BY <1>1, <2>1 DEF HandsByLabel
    <3>2. mediaFrame'[hand'[u]] = mediaFrame[hand[u]]
      BY <1>3, <3>1
    <3> QED  BY <3>2 DEF PacketAt
  <2>2. CASE pc[u] # label
    BY <2>2 DEF PacketAt
  <2> QED  BY <2>1, <2>2
<1>5. ASSUME raw' = raw, C \cap ToSet(raw) = {} PROVE PacketsOf(raw)' = PacketsOf(raw)
  <2>1. raw \in Seq(Descriptors) /\ ToSet(raw) \subseteq Descriptors
    BY <1>1, Sequences, ElementsTyped
  <2>2. Packets(mediaFrame', raw) = Packets(mediaFrame, raw)
    BY <1>2, <1>5, <2>1, PacketsSame
  <2> QED  BY <1>5, <2>2 DEF PacketsOf, Packets
<1>6. ASSUME es' = es, C \cap ToSet(es) = {} PROVE PacketsOf(es)' = PacketsOf(es)
  <2>1. es \in Seq(Descriptors) /\ ToSet(es) \subseteq Descriptors
    BY <1>1, Sequences, ElementsTyped
  <2>2. Packets(mediaFrame', es) = Packets(mediaFrame, es)
    BY <1>2, <1>6, <2>1, PacketsSame
  <2> QED  BY <1>6, <2>2 DEF PacketsOf, Packets
<1> QED  BY <1>3, <1>4, <1>5, <1>6

\* A step that moves no frame and no packet, and no thread into or out of a label
\* where it holds one.
LEMMA QuietStep ==
  ASSUME IInv, UNCHANGED <<frameVars, codec, captured, written>>, ControlOK', Started',
         pc' \in [Threads -> Labels],
         \A u \in Threads : pc'[u] = pc[u] \/ (pc'[u] \notin Holding /\ pc[u] \notin Holding),
         pc["encoder"] = "got" => pc'["encoder"] = "got"
  PROVE  IInv'
<1>1. OneOwner'
  <2>1. Held' = Held
    BY DEF frameVars, Held
  <2>2. FramesOK'
    BY <2>1 DEF frameVars, FramesOK, IInv, OneOwner, TypeOK
  <2>3. OneOwner' <=> FramesOK' /\ ControlOK'
    BY DEF OneOwner, TypeOK, FramesOK, ControlOK
  <2> QED  BY <2>2, <2>3
<1>2. ReleaseFits'
  BY DEF frameVars, IInv, ReleaseFits, Threads, Holding
<1>3. HandsByLabel'
  BY DEF frameVars, IInv, HandsByLabel
<1>4. CodecBound'
  BY DEF IInv, CodecBound
<1>5. Cuts'
  <2>1. \A u \in Threads, label \in Holding : PacketAt(u, label)' = PacketAt(u, label)
    BY DEF PacketAt, frameVars
  <2>2. PacketsOf(raw)' = PacketsOf(raw) /\ PacketsOf(es)' = PacketsOf(es)
    BY DEF PacketsOf, frameVars
  <2>3. PICK a, b, c, d, e, f, g \in 0..MaxCaptured : CutsAre(a, b, c, d, e, f, g)
    BY DEF IInv, Cuts
  <2>4. CutsAre(a, b, c, d, e, f, g)'
    BY <2>1, <2>2, <2>3 DEF CutsAre, Threads, Holding
  <2> QED  BY <2>4 DEF Cuts
<1> QED  BY <1>1, <1>2, <1>3, <1>4, <1>5 DEF IInv

LEMMA GotoStep ==
  ASSUME pc \in [Threads -> Labels], NEW t \in Threads, NEW label \in Labels, Goto(t, label)
  PROVE  /\ pc' \in [Threads -> Labels] /\ pc'[t] = label
         /\ \A u \in Threads \ {t} : pc'[u] = pc[u]
BY DEF Goto

LEMMA QuietActions ==
  ASSUME IInv,
         \/ ReaderLoop \/ ReaderGetSize \/ EncoderLoop \/ CreateReader \/ Start \/ Pause
         \/ MuxStart \/ SetStop \/ Stop \/ StopJoin \/ UNCHANGED vars
  PROVE  IInv'
<1>1. pc \in [Threads -> Labels] /\ ControlOK /\ Started
  BY OwnerSplit DEF IInv, HandsByLabel
<1>2. CASE ReaderLoop
  <2>1. PICK label \in {"ended", "read"} : Goto("reader", label)
    BY <1>2 DEF ReaderLoop
  <2>2. /\ pc' \in [Threads -> Labels] /\ pc'["reader"] = label
        /\ \A u \in Threads \ {"reader"} : pc'[u] = pc[u]
    BY <1>1, <2>1, GotoStep DEF Threads, Labels
  <2>3. ControlOK' /\ Started'
    BY <1>1, <1>2, <2>2 DEF ReaderLoop, ControlOK, Started, Threads
  <2> QED  BY <1>2, <2>2, <2>3, QuietStep DEF ReaderLoop, Holding, Threads
<1>3. CASE ReaderGetSize
  <2>1. PICK label \in {"cleanIf", "loop"} : Goto("reader", label)
    BY <1>3 DEF ReaderGetSize
  <2>2. /\ pc' \in [Threads -> Labels] /\ pc'["reader"] = label
        /\ \A u \in Threads \ {"reader"} : pc'[u] = pc[u]
    BY <1>1, <2>1, GotoStep DEF Threads, Labels
  <2>3. ControlOK' /\ Started'
    BY <1>1, <1>3, <2>2 DEF ReaderGetSize, ControlOK, Started, Threads
  <2> QED  BY <1>3, <2>2, <2>3, QuietStep DEF ReaderGetSize, Holding, Threads
<1>4. CASE EncoderLoop
  <2>1. PICK label \in {"ended", "dequeue"} : Goto("encoder", label)
    BY <1>4 DEF EncoderLoop
  <2>2. /\ pc' \in [Threads -> Labels] /\ pc'["encoder"] = label
        /\ \A u \in Threads \ {"encoder"} : pc'[u] = pc[u]
    BY <1>1, <2>1, GotoStep DEF Threads, Labels
  <2>3. ControlOK' /\ Started'
    BY <1>1, <1>4, <2>2 DEF EncoderLoop, ControlOK, Started, Threads
  <2> QED  BY <1>4, <2>2, <2>3, QuietStep DEF EncoderLoop, Holding
<1>5. CASE MuxStart
  <2>1. PICK label \in {"dequeue"} : Goto("mux", label)
    BY <1>5 DEF MuxStart
  <2>2. /\ pc' \in [Threads -> Labels] /\ pc'["mux"] = label
        /\ \A u \in Threads \ {"mux"} : pc'[u] = pc[u]
    BY <1>1, <2>1, GotoStep DEF Threads, Labels
  <2>3. ControlOK' /\ Started'
    BY <1>1, <1>5, <2>2 DEF MuxStart, ControlOK, Started, Threads
  <2> QED  BY <1>5, <2>2, <2>3, QuietStep DEF MuxStart, Holding, Threads
<1>6. CASE Stop
  <2>1. PICK label \in {"join"} : Goto("main", label)
    BY <1>6 DEF Stop
  <2>2. /\ pc' \in [Threads -> Labels] /\ pc'["main"] = label
        /\ \A u \in Threads \ {"main"} : pc'[u] = pc[u]
    BY <1>1, <2>1, GotoStep DEF Threads, Labels
  <2>3. ControlOK' /\ Started'
    BY <1>1, <1>6, <2>2 DEF Stop, ControlOK, Started, Threads
  <2> QED  BY <1>6, <2>2, <2>3, QuietStep DEF Stop, Holding, Threads
<1>7. CASE StopJoin
  <2>1. PICK label \in {"joined"} : Goto("main", label)
    BY <1>7 DEF StopJoin
  <2>2. /\ pc' \in [Threads -> Labels] /\ pc'["main"] = label
        /\ \A u \in Threads \ {"main"} : pc'[u] = pc[u]
    BY <1>1, <2>1, GotoStep DEF Threads, Labels
  <2>3. ControlOK' /\ Started'
    BY <1>1, <1>7, <2>2 DEF StopJoin, ControlOK, Started, Threads
  <2> QED  BY <1>7, <2>2, <2>3, QuietStep DEF StopJoin, Holding
<1>8. CASE CreateReader
  <2>1. /\ pc' \in [Threads -> Labels] /\ pc'["main"] = "start" /\ pc'["reader"] = "loop"
        /\ \A u \in Threads \ {"main", "reader"} : pc'[u] = pc[u]
    BY <1>1, <1>8 DEF CreateReader, Threads, Labels
  <2>2. ControlOK' /\ Started' /\ pc["reader"] = "off"
    BY <1>1, <1>8 DEF CreateReader, ControlOK, Started, Threads
  <2> QED  BY <1>8, <2>1, <2>2, QuietStep DEF CreateReader, Holding, Threads
<1>9. CASE Start
  <2>1. /\ pc' \in [Threads -> Labels] /\ pc'["main"] = "run" /\ pc'["encoder"] = "loop"
        /\ \A u \in Threads \ {"main", "encoder"} : pc'[u] = pc[u]
    BY <1>1, <1>9 DEF Start, Threads, Labels
  <2>2. ControlOK' /\ Started' /\ pc["encoder"] = "off"
    BY <1>1, <1>9 DEF Start, ControlOK, Started, Threads
  <2> QED  BY <1>9, <2>1, <2>2, QuietStep DEF Start, Holding
<1>10. CASE Pause
  <2>1. ControlOK' /\ Started' /\ pc' \in [Threads -> Labels]
    BY <1>1, <1>10 DEF Pause, ControlOK, Started
  <2> QED  BY <1>10, <2>1, QuietStep DEF Pause
<1>11. CASE SetStop
  <2>1. ControlOK' /\ Started' /\ pc' \in [Threads -> Labels]
    BY <1>1, <1>11 DEF SetStop, ControlOK, Started
  <2> QED  BY <1>11, <2>1, QuietStep DEF SetStop
<1>12. CASE UNCHANGED vars
  <2>1. ControlOK' /\ Started' /\ pc' \in [Threads -> Labels]
    BY <1>1, <1>12 DEF vars, ControlOK, Started
  <2> QED  BY <1>12, <2>1, QuietStep DEF vars
<1> QED  BY <1>2, <1>3, <1>4, <1>5, <1>6, <1>7, <1>8, <1>9, <1>10, <1>11, <1>12

------------------------------------------------------------------------------
\* The steps that move frames, one lemma each.

\* A step of a thread that has started, and what it has in its hand afterwards.
LEMMA LabelsStep ==
  ASSUME IInv, NEW t \in {"reader", "encoder", "mux"}, NEW label \in Labels, Goto(t, label),
         pc[t] # "off", hand'[t] # NoFrame <=> label \in Holding,
         \A u \in Threads \ {t} : hand'[u] = hand[u]
  PROVE  /\ HandsByLabel' /\ Started' /\ pc'[t] = label
         /\ \A u \in Threads \ {t} : pc'[u] = pc[u]
<1>1. HandsByLabel /\ Started /\ t \in Threads
  BY DEF IInv, Threads
<1>2. /\ pc' \in [Threads -> Labels] /\ pc'[t] = label
      /\ \A u \in Threads \ {t} : pc'[u] = pc[u]
  BY <1>1, GotoStep DEF HandsByLabel
<1>3. HandsByLabel'
  BY <1>1, <1>2 DEF HandsByLabel
<1>4. Started'
  BY <1>1, <1>2 DEF Started, Threads
<1> QED  BY <1>2, <1>3, <1>4

LEMMA Assemble ==
  ASSUME FramesOK', ControlOK', ReleaseFits', HandsByLabel', Started', CodecBound', Cuts'
  PROVE  IInv'
BY DEF IInv, OneOwner, TypeOK, FramesOK, ControlOK

\* What the queues and the hands have to do with a descriptor that is taken.
LEMMA Apart ==
  ASSUME OneOwner
  PROVE  /\ ToSet(raw) \subseteq Descriptors /\ ToSet(es) \subseteq Descriptors
         /\ NoFrame \notin Descriptors /\ NoFrame \notin Held
         /\ \A t \in Threads : hand[t] # NoFrame =>
              hand[t] \in Descriptors /\ hand[t] \in Held /\ hand[t] \notin ToSet(raw) \cup ToSet(es) \cup ToSet(pool)
         /\ mediaFrame \in [Descriptors -> Frames]
<1>1. ToSet(raw) \subseteq Descriptors /\ ToSet(es) \subseteq Descriptors
  BY Sequences, ElementsTyped
<1>2. ASSUME NEW t \in Threads, hand[t] # NoFrame
      PROVE  hand[t] \in Descriptors /\ hand[t] \in Held /\ hand[t] \notin ToSet(raw) \cup ToSet(es) \cup ToSet(pool)
  <2>1. hand[t] \in Descriptors /\ hand[t] \in Held
    BY <1>2 DEF OneOwner, TypeOK, Held
  <2> QED  BY <2>1 DEF OneOwner
<1> QED  BY <1>1, PipelineAssumption DEF OneOwner, TypeOK, Frames, Held

\* What a step of thread t leaves as it was for the other threads.
OthersSame(t) ==
  \A u \in Threads \ {t} :
    /\ pc'[u] = pc[u] /\ hand'[u] = hand[u]
    /\ hand[u] # NoFrame => mediaFrame'[hand'[u]] = mediaFrame[hand[u]]
    /\ \A label \in Holding : PacketAt(u, label)' = PacketAt(u, label)

\* A thread that takes a descriptor for a new frame.
LEMMA TakeStep ==
  ASSUME IInv, NEW t \in {"reader", "encoder"}, pc[t] \notin Holding \cup {"off"},
         NEW packet \in 0..MaxCaptured, NEW release \in Releases, NEW label \in Holding,
         getMediaFrame(t, packet, release), Goto(t, label), UNCHANGED <<raw, es, leaked>>
  PROVE  /\ FramesOK' /\ HandsByLabel' /\ Started' /\ pc'[t] = label /\ OthersSame(t)
         /\ PacketsOf(raw)' = PacketsOf(raw) /\ PacketsOf(es)' = PacketsOf(es)
         /\ \A y \in ToSet(raw) \cup ToSet(es) : mediaFrame'[y] = mediaFrame[y]
         /\ mediaFrame'[hand'[t]] = [packet |-> packet, release |-> release]
<1>1. OneOwner /\ HandsByLabel /\ FramesOK /\ t \in Threads /\ label \in Labels
  BY OwnerSplit DEF IInv, Threads, Holding, Labels
<1>3. FramesOK'
  BY <1>1, GetOwned
<1>4. PICK x \in Descriptors :
        /\ x \notin ToSet(raw) \cup ToSet(es) \cup Held \cup leaked
        /\ Keep(t, x)
        /\ mediaFrame'[x] = [packet |-> packet, release |-> release]
        /\ \A y \in Descriptors \ {x} : mediaFrame'[y] = mediaFrame[y]
  BY <1>1, GetStep
<1>5. hand'[t] = x /\ x # NoFrame /\ \A u \in Threads \ {t} : hand'[u] = hand[u]
  BY <1>1, <1>4, Apart DEF Keep, FramesOK
<1>6. /\ HandsByLabel' /\ Started' /\ pc'[t] = label
      /\ \A u \in Threads \ {t} : pc'[u] = pc[u]
  BY <1>1, <1>5, LabelsStep
<1>7. \A y \in ToSet(raw) \cup ToSet(es) : mediaFrame'[y] = mediaFrame[y]
  BY <1>1, <1>4, Apart
<1>8. OthersSame(t) /\ PacketsOf(raw)' = PacketsOf(raw) /\ PacketsOf(es)' = PacketsOf(es)
  <2>1. mediaFrame' \in [Descriptors -> Frames]
    BY <1>3 DEF FramesOK, Frames
  <2>2. {x} \cap (Held \ {hand[t]}) = {} /\ {x} \cap ToSet(raw) = {} /\ {x} \cap ToSet(es) = {}
    BY <1>4
  <2>3. \A u \in Threads \ {t} : pc'[u] = pc[u] /\ hand'[u] = hand[u]
    BY <1>5, <1>6
  <2>4. {x} \in SUBSET Descriptors /\ \A y \in Descriptors \ {x} : mediaFrame'[y] = mediaFrame[y]
    BY <1>4
  <2>5. /\ \A u \in Threads \ {t} : hand[u] # NoFrame => mediaFrame'[hand'[u]] = mediaFrame[hand[u]]
        /\ \A u \in Threads \ {t} : \A l \in Holding : PacketAt(u, l)' = PacketAt(u, l)
        /\ PacketsOf(raw)' = PacketsOf(raw) /\ PacketsOf(es)' = PacketsOf(es)
    BY <1>1, <2>1, <2>2, <2>3, <2>4, OthersKept
  <2> QED  BY <2>3, <2>5 DEF OthersSame
<1> QED  BY <1>3, <1>4, <1>5, <1>6, <1>7, <1>8

\* A thread that gives its descriptor back.
LEMMA GiveStep ==
  ASSUME IInv, NEW t \in {"reader", "encoder", "mux"}, pc[t] \in Holding,
         NEW label \in Labels \ Holding,
         mediaFrameRelease(t), Goto(t, label), UNCHANGED <<raw, es, leaked>>
  PROVE  /\ FramesOK' /\ HandsByLabel' /\ Started' /\ pc'[t] = label /\ OthersSame(t)
         /\ PacketsOf(raw)' = PacketsOf(raw) /\ PacketsOf(es)' = PacketsOf(es)
         /\ \A y \in ToSet(raw) \cup ToSet(es) : mediaFrame'[y] = mediaFrame[y]
<1>1. OneOwner /\ HandsByLabel /\ FramesOK /\ t \in Threads /\ TypeOK /\ IsInjective(pool)
  BY OwnerSplit DEF IInv, OneOwner, Threads
<1>2. /\ hand[t] # NoFrame /\ hand[t] \in Descriptors /\ hand[t] \in Held
      /\ hand[t] \notin ToSet(raw) \cup ToSet(es) \cup ToSet(pool)
      /\ ToSet(raw) \subseteq Descriptors /\ ToSet(es) \subseteq Descriptors
  BY <1>1, Apart DEF HandsByLabel
<1>3. FramesOK'
  BY <1>1, <1>2, ReleaseOwned
<1>4. hand'[t] = NoFrame /\ \A u \in Threads \ {t} : hand'[u] = hand[u]
  BY <1>1 DEF mediaFrameRelease, Keep, FramesOK
<1>5. /\ HandsByLabel' /\ Started' /\ pc'[t] = label
      /\ \A u \in Threads \ {t} : pc'[u] = pc[u]
  <2>1. pc[t] # "off"
    BY DEF Holding
  <2> QED  BY <1>4, <2>1, LabelsStep
<1>6. \A y \in Descriptors \ {hand[t]} : mediaFrame'[y] = mediaFrame[y]
  <2>1. /\ <<hand[t]>> \in Seq(Descriptors) /\ IsInjective(<<hand[t]>>) /\ ToSet(<<hand[t]>>) = {hand[t]}
    BY <1>2, OneElement
  <2>2. ToSet(pool) \cap ToSet(<<hand[t]>>) = {} /\ Release(<<hand[t]>>)
    BY <1>2, <2>1 DEF mediaFrameRelease
  <2> QED  BY <1>1, <2>1, <2>2, ReleaseStep
<1>7. \A y \in ToSet(raw) \cup ToSet(es) : mediaFrame'[y] = mediaFrame[y]
  BY <1>2, <1>6
<1>8. OthersSame(t) /\ PacketsOf(raw)' = PacketsOf(raw) /\ PacketsOf(es)' = PacketsOf(es)
  <2>1. mediaFrame' \in [Descriptors -> Frames]
    BY <1>3 DEF FramesOK, Frames
  <2> DEFINE C == {hand[t]}
  <2>2. C \cap (Held \ {hand[t]}) = {} /\ C \cap ToSet(raw) = {} /\ C \cap ToSet(es) = {}
    BY <1>2
  <2>3. \A u \in Threads \ {t} : pc'[u] = pc[u] /\ hand'[u] = hand[u]
    BY <1>4, <1>5
  <2>4. C \in SUBSET Descriptors /\ \A y \in Descriptors \ C : mediaFrame'[y] = mediaFrame[y]
    BY <1>2, <1>6
  <2>5. /\ \A u \in Threads \ {t} : hand[u] # NoFrame => mediaFrame'[hand'[u]] = mediaFrame[hand[u]]
        /\ \A u \in Threads \ {t} : \A l \in Holding : PacketAt(u, l)' = PacketAt(u, l)
        /\ PacketsOf(raw)' = PacketsOf(raw) /\ PacketsOf(es)' = PacketsOf(es)
    <3> HIDE DEF C
    <3> QED  BY <1>1, <2>1, <2>2, <2>3, <2>4, OthersKept
  <2> QED  BY <2>3, <2>5 DEF OthersSame
<1> QED  BY <1>3, <1>5, <1>7, <1>8

\* Steps that leave the frames' contents alone.
LEMMA ContentsKept ==
  ASSUME IInv, NEW t \in {"reader", "encoder", "mux"}, pc[t] # "off", NEW label \in Labels,
         NEW d \in Descriptors \cup {NoFrame}, d # NoFrame <=> label \in Holding,
         Keep(t, d), Goto(t, label), UNCHANGED mediaFrame
  PROVE  /\ HandsByLabel' /\ Started' /\ pc'[t] = label /\ hand'[t] = d /\ OthersSame(t)
         /\ raw' = raw => PacketsOf(raw)' = PacketsOf(raw)
         /\ es' = es => PacketsOf(es)' = PacketsOf(es)
<1>1. OneOwner /\ HandsByLabel /\ FramesOK /\ t \in Threads /\ mediaFrame \in [Descriptors -> Frames]
  BY OwnerSplit DEF IInv, Threads, FramesOK, Frames
<1>2. hand'[t] = d /\ \A u \in Threads \ {t} : hand'[u] = hand[u]
  BY <1>1 DEF Keep, FramesOK
<1>3. /\ HandsByLabel' /\ Started' /\ pc'[t] = label
      /\ \A u \in Threads \ {t} : pc'[u] = pc[u]
  BY <1>2, LabelsStep
<1>4. /\ {} \cap (Held \ {hand[t]}) = {} /\ {} \cap ToSet(raw) = {} /\ {} \cap ToSet(es) = {}
      /\ {} \in SUBSET Descriptors /\ \A y \in Descriptors \ {} : mediaFrame'[y] = mediaFrame[y]
      /\ \A u \in Threads \ {t} : pc'[u] = pc[u] /\ hand'[u] = hand[u]
      /\ mediaFrame' \in [Descriptors -> Frames]
  BY <1>1, <1>2, <1>3
<1>5. /\ \A u \in Threads \ {t} : hand[u] # NoFrame => mediaFrame'[hand'[u]] = mediaFrame[hand[u]]
      /\ \A u \in Threads \ {t} : \A l \in Holding : PacketAt(u, l)' = PacketAt(u, l)
      /\ raw' = raw => PacketsOf(raw)' = PacketsOf(raw)
      /\ es' = es => PacketsOf(es)' = PacketsOf(es)
  BY <1>1, <1>4, OthersKept
<1> QED  BY <1>2, <1>3, <1>5 DEF OthersSame

------------------------------------------------------------------------------
\* The reader.
LEMMA ReadStep ==
  ASSUME IInv, Read
  PROVE  IInv'
<1>1. OneOwner /\ ReleaseFits /\ HandsByLabel /\ CodecBound /\ ControlOK
  BY OwnerSplit DEF IInv
<1>2. /\ captured + 1 \in 0..MaxCaptured /\ captured' = captured + 1 /\ "ReleasePkt" \in Releases
      /\ captured \in Nat /\ MaxCaptured \in Nat
      /\ pc["reader"] = "read" /\ "read" \notin Holding \cup {"off"} /\ "enqueue" \in Holding
  BY <1>1, PipelineAssumption DEF Read, Holding, ControlOK, Releases
<1>3. /\ FramesOK' /\ HandsByLabel' /\ Started' /\ pc'["reader"] = "enqueue" /\ OthersSame("reader")
      /\ PacketsOf(raw)' = PacketsOf(raw) /\ PacketsOf(es)' = PacketsOf(es)
      /\ \A y \in ToSet(raw) \cup ToSet(es) : mediaFrame'[y] = mediaFrame[y]
      /\ mediaFrame'[hand'["reader"]] = [packet |-> captured + 1, release |-> "ReleasePkt"]
  BY <1>2, TakeStep DEF Read
<1>4. ControlOK' /\ CodecBound'
  BY <1>1, <1>2, <1>3 DEF Read, ControlOK, CodecBound, Threads, OthersSame
<1>5. ReleaseFits'
  BY <1>1, <1>3 DEF Read, ReleaseFits, HandsByLabel, Threads, Holding, OthersSame
<1>6. Cuts'
  <2>1. PICK a, b, c, d, e, f, g \in 0..MaxCaptured : CutsAre(a, b, c, d, e, f, g)
    BY DEF IInv, Cuts
  <2>2. PacketAt("reader", "enqueue") = << >> /\ PacketAt("reader", "enqueue")' = <<captured + 1>>
    BY <1>2, <1>3 DEF PacketAt
  <2>3. f <= captured
    BY <1>2, <2>1 DEF CutsAre, Within
  <2>4. PICK n \in 0..MaxCaptured : n = captured + 1
    BY <1>2
  <2>5. Within(<<n>>, f, n)
    BY <1>2, <2>3, <2>4, WithinOne
  <2>6. CutsAre(a, b, c, d, e, f, n)'
    <3>1. Within(PacketAt("reader", "enqueue"), f, n)' /\ n <= captured'
      BY <1>2, <2>2, <2>4, <2>5
    <3>2. /\ PacketAt("mux", "write")' = PacketAt("mux", "write")
          /\ PacketAt("encoder", "enqueue")' = PacketAt("encoder", "enqueue")
          /\ PacketAt("encoder", "deal")' = PacketAt("encoder", "deal")
      BY <1>3 DEF OthersSame, Threads, Holding
    <3>3. UNCHANGED <<codec, written>>
      BY DEF Read
    <3> QED  BY <1>3, <2>1, <3>1, <3>2, <3>3 DEF CutsAre
  <2> QED  BY <2>6 DEF Cuts
<1> QED  BY <1>3, <1>4, <1>5, <1>6, Assemble

LEMMA ReadOtherStep ==
  ASSUME IInv, ReadOther
  PROVE  IInv'
<1>1. OneOwner /\ ReleaseFits /\ HandsByLabel /\ CodecBound /\ ControlOK
  BY OwnerSplit DEF IInv
<1>2. /\ 0 \in 0..MaxCaptured /\ "ReleasePkt" \in Releases
      /\ pc["reader"] = "read" /\ "read" \notin Holding \cup {"off"} /\ "discard" \in Holding
  BY PipelineAssumption DEF ReadOther, Holding, Releases
<1>3. /\ FramesOK' /\ HandsByLabel' /\ Started' /\ pc'["reader"] = "discard" /\ OthersSame("reader")
      /\ PacketsOf(raw)' = PacketsOf(raw) /\ PacketsOf(es)' = PacketsOf(es)
      /\ \A y \in ToSet(raw) \cup ToSet(es) : mediaFrame'[y] = mediaFrame[y]
  <2>1. PICK n \in 0..MaxCaptured : n = 0
    BY <1>2
  <2>2. getMediaFrame("reader", n, "ReleasePkt") /\ Goto("reader", "discard")
    BY <2>1 DEF ReadOther
  <2>3. UNCHANGED <<raw, es, leaked>>
    BY DEF ReadOther
  <2>5. /\ FramesOK' /\ HandsByLabel' /\ Started' /\ pc'["reader"] = "discard" /\ OthersSame("reader")
        /\ PacketsOf(raw)' = PacketsOf(raw) /\ PacketsOf(es)' = PacketsOf(es)
        /\ \A y \in ToSet(raw) \cup ToSet(es) : mediaFrame'[y] = mediaFrame[y]
        /\ mediaFrame'[hand'["reader"]] = [packet |-> n, release |-> "ReleasePkt"]
    BY <1>2, <2>2, <2>3, TakeStep
  <2> QED  BY <2>5
<1>4. ControlOK' /\ CodecBound'
  BY <1>1, <1>3 DEF ReadOther, ControlOK, CodecBound, Threads, OthersSame
<1>5. ReleaseFits'
  BY <1>1, <1>3 DEF ReadOther, ReleaseFits, HandsByLabel, Threads, Holding, OthersSame
<1>6. Cuts'
  <2>1. PICK a, b, c, d, e, f, g \in 0..MaxCaptured : CutsAre(a, b, c, d, e, f, g)
    BY DEF IInv, Cuts
  <2>2. PacketAt("reader", "enqueue") = << >> /\ PacketAt("reader", "enqueue")' = << >>
    BY <1>2, <1>3 DEF PacketAt
  <2>3. CutsAre(a, b, c, d, e, f, g)'
    <3>1. /\ PacketAt("mux", "write")' = PacketAt("mux", "write")
          /\ PacketAt("encoder", "enqueue")' = PacketAt("encoder", "enqueue")
          /\ PacketAt("encoder", "deal")' = PacketAt("encoder", "deal")
      BY <1>3 DEF OthersSame, Threads, Holding
    <3>2. UNCHANGED <<codec, captured, written>>
      BY DEF ReadOther
    <3> QED  BY <1>3, <2>1, <2>2, <3>1, <3>2 DEF CutsAre
  <2> QED  BY <2>3 DEF Cuts
<1> QED  BY <1>3, <1>4, <1>5, <1>6, Assemble

LEMMA ReaderDiscardStep ==
  ASSUME IInv, ReaderDiscard
  PROVE  IInv'
<1>1. OneOwner /\ ReleaseFits /\ HandsByLabel /\ CodecBound /\ ControlOK
  BY OwnerSplit DEF IInv
<1>2. pc["reader"] = "discard" /\ "discard" \in Holding /\ "getSize" \in Labels \ Holding
  BY DEF ReaderDiscard, Holding, Labels
<1>3. /\ FramesOK' /\ HandsByLabel' /\ Started' /\ pc'["reader"] = "getSize" /\ OthersSame("reader")
      /\ PacketsOf(raw)' = PacketsOf(raw) /\ PacketsOf(es)' = PacketsOf(es)
      /\ \A y \in ToSet(raw) \cup ToSet(es) : mediaFrame'[y] = mediaFrame[y]
  BY <1>2, GiveStep DEF ReaderDiscard
<1>4. ControlOK' /\ CodecBound'
  BY <1>1, <1>3 DEF ReaderDiscard, ControlOK, CodecBound, Threads, OthersSame
<1>5. ReleaseFits'
  BY <1>1, <1>3 DEF ReaderDiscard, ReleaseFits, HandsByLabel, Threads, Holding, OthersSame
<1>6. Cuts'
  <2>1. PICK a, b, c, d, e, f, g \in 0..MaxCaptured : CutsAre(a, b, c, d, e, f, g)
    BY DEF IInv, Cuts
  <2>2. PacketAt("reader", "enqueue") = << >> /\ PacketAt("reader", "enqueue")' = << >>
    BY <1>2, <1>3 DEF PacketAt
  <2>3. CutsAre(a, b, c, d, e, f, g)'
    <3>1. /\ PacketAt("mux", "write")' = PacketAt("mux", "write")
          /\ PacketAt("encoder", "enqueue")' = PacketAt("encoder", "enqueue")
          /\ PacketAt("encoder", "deal")' = PacketAt("encoder", "deal")
      BY <1>3 DEF OthersSame, Threads, Holding
    <3>2. UNCHANGED <<codec, captured, written>>
      BY DEF ReaderDiscard
    <3> QED  BY <1>3, <2>1, <2>2, <3>1, <3>2 DEF CutsAre
  <2> QED  BY <2>3 DEF Cuts
<1> QED  BY <1>3, <1>4, <1>5, <1>6, Assemble

\* Appending one descriptor to a queue appends its packet to the queue's packets.
LEMMA PacketAppended ==
  ASSUME NEW m \in [Descriptors -> Frames], NEW s \in Seq(Descriptors), NEW x \in Descriptors,
         NEW lo \in 0..MaxCaptured, NEW mid \in 0..MaxCaptured, NEW hi \in 0..MaxCaptured,
         Within(Packets(m, s), lo, mid), Within(<<m[x].packet>>, mid, hi)
  PROVE  Within(Packets(m, Append(s, x)), lo, hi)
<1>1. {lo, mid, hi, m[x].packet} \subseteq Nat
  BY DEF Frames
<1>2. mid < m[x].packet /\ m[x].packet <= hi
  BY WithinOne
<1>3. Packets(m, s) \in Seq(Nat)
  BY PacketsTyped
<1>4. Within(Append(Packets(m, s), m[x].packet), lo, hi)
  <2> DEFINE q == Packets(m, s)
             p == m[x].packet
  <2>1. q \in Seq(Nat) /\ p \in Nat /\ lo \in Nat /\ mid \in Nat /\ hi \in Nat
        /\ Within(q, lo, mid) /\ mid < p /\ p <= hi
    BY <1>1, <1>2, <1>3
  <2> HIDE DEF q, p
  <2>2. Within(Append(q, p), lo, hi)
    BY <2>1, WithinAppend
  <2> QED  BY <2>2 DEF q, p
<1> QED  BY <1>4, PacketsAppend

LEMMA ReaderEnqueueStep ==
  ASSUME IInv, ReaderEnqueue
  PROVE  IInv'
<1>1. OneOwner /\ ReleaseFits /\ HandsByLabel /\ CodecBound /\ ControlOK
  BY OwnerSplit DEF IInv
<1>2. /\ pc["reader"] = "enqueue" /\ "enqueue" \in Holding /\ "getSize" \in Labels
      /\ "getSize" \notin Holding /\ "reader" \in Threads /\ pc["reader"] # "off"
  BY DEF ReaderEnqueue, Holding, Labels, Threads
<1>3. /\ hand["reader"] # NoFrame /\ hand["reader"] \in Descriptors
      /\ hand["reader"] \notin ToSet(raw) \cup ToSet(es)
      /\ mediaFrame \in [Descriptors -> Frames] /\ raw \in Seq(Descriptors) /\ IsInjective(raw)
  BY <1>1, <1>2, Apart, Sequences DEF HandsByLabel
<1>4. /\ HandsByLabel' /\ Started' /\ pc'["reader"] = "getSize" /\ OthersSame("reader")
      /\ raw' = raw => PacketsOf(raw)' = PacketsOf(raw)
      /\ PacketsOf(es)' = PacketsOf(es) /\ mediaFrame' = mediaFrame /\ es' = es
  BY <1>2, ContentsKept DEF ReaderEnqueue
<1>5. FramesOK'
  BY <1>1, <1>2, <1>3, EnqueueOwned, LoseOwned DEF ReaderEnqueue
<1>6. ControlOK' /\ CodecBound'
  BY <1>1, <1>4 DEF ReaderEnqueue, ControlOK, CodecBound, Threads, OthersSame
<1>7. PICK a, b, c, d, e, f, g \in 0..MaxCaptured : CutsAre(a, b, c, d, e, f, g)
  BY DEF IInv, Cuts
<1>8. PacketAt("reader", "enqueue") = <<mediaFrame[hand["reader"]].packet>> /\ PacketAt("reader", "enqueue")' = << >>
  BY <1>2, <1>4 DEF PacketAt
<1>9. CASE Len(raw) < RawCapacity
  <2>1. raw' = Append(raw, hand["reader"])
    BY <1>9 DEF ReaderEnqueue
  <2>2. ToSet(raw') = ToSet(raw) \cup {hand["reader"]}
    BY <1>3, <2>1, AppendOnce
  <2>3. ReleaseFits'
    BY <1>1, <1>2, <1>4, <2>2 DEF ReleaseFits, Threads, OthersSame
  <2>4. Within(Packets(mediaFrame, raw'), e, g)
    <3>1. Within(Packets(mediaFrame, raw), e, f) /\ Within(<<mediaFrame[hand["reader"]].packet>>, f, g)
      BY <1>7, <1>8 DEF CutsAre, PacketsOf, Packets
    <3> QED  BY <1>3, <2>1, <3>1, PacketAppended
  <2>5. CutsAre(a, b, c, d, e, g, g)'
    <3>1. Within(PacketsOf(raw), e, g)'
      BY <1>4, <2>4 DEF PacketsOf, Packets
    <3>2. Within(PacketAt("reader", "enqueue"), g, g)'
      BY <1>8, PipelineAssumption DEF Within
    <3> QED  BY <1>4, <1>7, <3>1, <3>2 DEF CutsAre, Threads, Holding, ReaderEnqueue, OthersSame
  <2>6. Cuts'
    BY <2>5 DEF Cuts
  <2> QED  BY <1>4, <1>5, <1>6, <2>3, <2>6, Assemble
<1>10. CASE ~(Len(raw) < RawCapacity)
  <2>1. raw' = raw /\ PacketsOf(raw)' = PacketsOf(raw)
    BY <1>4, <1>10 DEF ReaderEnqueue
  <2>2. ReleaseFits'
    BY <1>1, <1>4, <2>1 DEF ReleaseFits, Threads, OthersSame
  <2>3. f <= g /\ g <= captured /\ g \in Nat
    BY <1>7 DEF CutsAre, Within
  <2>4. CutsAre(a, b, c, d, e, f, g)'
    <3>1. Within(PacketAt("reader", "enqueue"), f, g)'
      BY <1>8, <2>3 DEF Within
    <3> QED  BY <1>4, <1>7, <2>1, <3>1 DEF CutsAre, Threads, Holding, ReaderEnqueue, OthersSame
  <2>5. Cuts'
    BY <2>4 DEF Cuts
  <2> QED  BY <1>4, <1>5, <1>6, <2>2, <2>5, Assemble
<1> QED  BY <1>9, <1>10

\* cleanIf, and the mux thread that drops a frame because it shall stop: the front of
\* es goes back to the stack.
LEMMA CleanStep ==
  ASSUME IInv, NEW t \in {"reader", "mux"}, pc[t] \notin Holding \cup {"off"},
         NEW label \in Labels \ Holding, Goto(t, label),
         NEW k \in 0..Len(es), es' = SubSeq(es, k + 1, Len(es)), Release(SubSeq(es, 1, k)),
         UNCHANGED <<hand, raw, leaked, codec, mStatus, stop, captured, written>>, ControlOK'
  PROVE  IInv'
<1>1. /\ OneOwner /\ ReleaseFits /\ HandsByLabel /\ CodecBound /\ ControlOK
      /\ TypeOK /\ IsInjective(pool) /\ t \in Threads
  BY OwnerSplit DEF IInv, OneOwner, Threads
<1> DEFINE front == SubSeq(es, 1, k)
<1>2. /\ front \in Seq(Descriptors) /\ IsInjective(front)
      /\ es' \in Seq(Descriptors)
      /\ ToSet(front) \cap ToSet(es') = {} /\ ToSet(front) \cup ToSet(es') = ToSet(es)
  BY <1>1, Sequences, CutOnce
<1> HIDE DEF front
<1>3. ToSet(pool) \cap ToSet(front) = {} /\ Release(front)
  BY <1>1, <1>2 DEF OneOwner, front
<1>4. FramesOK'
  BY <1>1, CleanOwned
<1>5. /\ \A y \in Descriptors : mediaFrame'[y].release = mediaFrame[y].release
      /\ \A y \in Descriptors \ ToSet(front) : mediaFrame'[y] = mediaFrame[y]
  BY <1>1, <1>2, <1>3, ReleaseStep
<1>6. /\ HandsByLabel' /\ Started' /\ pc'[t] = label
      /\ \A u \in Threads \ {t} : pc'[u] = pc[u]
  BY <1>1, LabelsStep DEF HandsByLabel
<1>7. /\ ToSet(front) \in SUBSET Descriptors
      /\ ToSet(front) \cap (Held \ {hand[t]}) = {} /\ ToSet(front) \cap ToSet(raw) = {}
      /\ ToSet(raw) \subseteq Descriptors /\ ToSet(es') \subseteq Descriptors
      /\ mediaFrame \in [Descriptors -> Frames] /\ mediaFrame' \in [Descriptors -> Frames]
  BY <1>1, <1>2, <1>4, Apart DEF OneOwner, FramesOK, Frames
<1>8. /\ \A u \in Threads \ {t} : hand[u] # NoFrame => mediaFrame'[hand'[u]] = mediaFrame[hand[u]]
      /\ \A u \in Threads \ {t} : \A l \in Holding : PacketAt(u, l)' = PacketAt(u, l)
      /\ PacketsOf(raw)' = PacketsOf(raw)
  <2>1. ToSet(front) \in SUBSET Descriptors /\ ToSet(front) \cap (Held \ {hand[t]}) = {}
    BY <1>7
  <2>2. /\ \A u \in Threads \ {t} : pc'[u] = pc[u] /\ hand'[u] = hand[u]
        /\ raw' = raw /\ ToSet(front) \cap ToSet(raw) = {}
    BY <1>6, <1>7
  <2> QED  BY <1>1, <1>5, <1>7, <2>1, <2>2, OthersKept
<1>9. CodecBound'
  BY <1>1, <1>6 DEF CodecBound, Threads
<1>10. ReleaseFits'
  <2>1. \A y \in ToSet(raw') : mediaFrame'[y].release = "ReleasePkt"
    BY <1>1, <1>5, <1>7 DEF ReleaseFits
  <2>2. \A y \in ToSet(es') : mediaFrame'[y].release = "release_pkt_buffer"
    BY <1>1, <1>2, <1>5, <1>7 DEF ReleaseFits
  <2> QED  BY <1>1, <1>6, <1>8, <2>1, <2>2 DEF ReleaseFits, HandsByLabel, Threads, Holding
<1>11. Cuts'
  <2>1. PICK a, b, c, d, e, f, g \in 0..MaxCaptured : CutsAre(a, b, c, d, e, f, g)
    BY DEF IInv, Cuts
  <2>2. \A l \in Holding : PacketAt(t, l) = << >> /\ PacketAt(t, l)' = << >>
    BY <1>6 DEF PacketAt
  <2>3. \A u \in Threads : \A l \in Holding : PacketAt(u, l)' = PacketAt(u, l)
    BY <1>8, <2>2
  <2>4. Within(PacketsOf(es), a, b)'
    <3>1. Packets(mediaFrame', es') = Packets(mediaFrame, es')
      <4>1. \A y \in ToSet(es') : mediaFrame'[y] = mediaFrame[y]
        BY <1>2, <1>5, <1>7
      <4>2. es' \in Seq(Descriptors) /\ mediaFrame \in [Descriptors -> Frames] /\ mediaFrame' \in [Descriptors -> Frames]
        BY <1>2, <1>7
      <4> QED  BY <4>1, <4>2, PacketsSame
    <3>2. Packets(mediaFrame, es') = SubSeq(Packets(mediaFrame, es), k + 1, Len(es))
      BY <1>1, <1>7, Sequences, PacketsBack
    <3>3. /\ Packets(mediaFrame, es) \in Seq(Nat) /\ Len(Packets(mediaFrame, es)) = Len(es)
          /\ Within(Packets(mediaFrame, es), a, b) /\ a \in Nat /\ b \in Nat
      <4>1. Packets(mediaFrame, es) \in Seq(Nat) /\ Len(Packets(mediaFrame, es)) = Len(es)
        BY <1>1, <1>7, Sequences, PacketsTyped
      <4>2. Within(Packets(mediaFrame, es), a, b)
        BY <2>1 DEF CutsAre, PacketsOf, Packets
      <4> QED  BY <4>1, <4>2
    <3>4. Within(SubSeq(Packets(mediaFrame, es), k + 1, Len(es)), a, b)
      BY <3>3, WithinBack
    <3> QED  BY <3>1, <3>2, <3>4 DEF PacketsOf, Packets
  <2>5. CutsAre(a, b, c, d, e, f, g)'
    BY <1>8, <2>1, <2>3, <2>4 DEF CutsAre, Threads, Holding
  <2> QED  BY <2>5 DEF Cuts
<1> QED  BY <1>4, <1>6, <1>9, <1>10, <1>11, Assemble

LEMMA ReaderCleanIfStep ==
  ASSUME IInv, ReaderCleanIf
  PROVE  IInv'
<1>1. /\ pc["reader"] = "cleanIf" /\ pc["reader"] \notin Holding \cup {"off"}
      /\ "loop" \in Labels \ Holding /\ Goto("reader", "loop")
  BY DEF ReaderCleanIf, Holding, Labels
<1>2. PICK k \in 0..Len(es) : es' = SubSeq(es, k + 1, Len(es)) /\ Release(SubSeq(es, 1, k))
  BY DEF ReaderCleanIf
<1>3. ControlOK'
  <2>1. ControlOK /\ HandsByLabel
    BY OwnerSplit DEF IInv
  <2>2. pc'["reader"] = "loop" /\ \A u \in Threads \ {"reader"} : pc'[u] = pc[u]
    BY <1>1, <2>1, GotoStep DEF HandsByLabel, Threads
  <2> QED  BY <2>1, <2>2 DEF ControlOK, ReaderCleanIf, Threads
<1> QED  BY <1>1, <1>3, CleanStep DEF ReaderCleanIf

------------------------------------------------------------------------------
\* The encoder.

\* Taking the oldest descriptor of a queue: its packet is the first, and becomes the
\* cut before the others.
LEMMA PacketTaken ==
  ASSUME NEW m \in [Descriptors -> Frames], NEW s \in Seq(Descriptors), s # << >>, IsInjective(s),
         NEW lo \in 0..MaxCaptured, NEW hi \in 0..MaxCaptured, Within(Packets(m, s), lo, hi)
  PROVE  /\ m[Head(s)].packet \in 0..MaxCaptured
         /\ Within(<<m[Head(s)].packet>>, lo, m[Head(s)].packet)
         /\ Within(Packets(m, Tail(s)), m[Head(s)].packet, hi)
         /\ Within(Packets(m, Tail(s)), lo, hi)
<1>1. Len(s) \in Nat \ {0} /\ Head(s) = s[1] /\ Head(s) \in Descriptors /\ 1 \in 0..Len(s)
  BY HeadOnce
<1>2. Tail(s) = SubSeq(s, 1 + 1, Len(s))
  BY TailIsSubSeq
<1>3. Packets(m, Tail(s)) = SubSeq(Packets(m, s), 1 + 1, Len(s))
  BY <1>1, <1>2, PacketsBack
<1>4. /\ Packets(m, s) \in Seq(Nat) /\ Len(Packets(m, s)) = Len(s)
      /\ Packets(m, s)[1] = m[Head(s)].packet
  BY PacketsTyped
<1>5. m[Head(s)].packet \in 0..MaxCaptured /\ {m[Head(s)].packet, lo, hi} \subseteq Nat
  BY DEF Frames
<1> DEFINE q == Packets(m, s)
<1>6. /\ Within(SubSeq(q, 1 + 1, Len(q)), lo, hi)
      /\ lo < q[1] /\ Within(SubSeq(q, 1 + 1, Len(q)), q[1], hi)
  <2>1. q \in Seq(Nat) /\ lo \in Nat /\ hi \in Nat /\ 1 \in 0..Len(q) /\ Within(q, lo, hi)
    BY <1>4
  <2> HIDE DEF q
  <2> QED  BY <2>1, WithinBack
<1>7. Within(<<m[Head(s)].packet>>, lo, m[Head(s)].packet)
  BY <1>4, <1>6, WithinOne
<1> QED  BY <1>3, <1>4, <1>5, <1>6, <1>7

LEMMA EncoderDequeueStep ==
  ASSUME IInv, EncoderDequeue
  PROVE  IInv'
<1>1. OneOwner /\ ReleaseFits /\ HandsByLabel /\ CodecBound /\ ControlOK /\ Started
  BY OwnerSplit DEF IInv
<1>2. /\ pc["encoder"] = "dequeue" /\ "dequeue" \notin Holding /\ "encoder" \in Threads
      /\ pc["encoder"] # "off" /\ "deal" \in Holding /\ {"deal", "loop"} \subseteq Labels /\ "loop" \notin Holding
  BY DEF EncoderDequeue, Holding, Labels, Threads
<1>3. CASE raw = << >>
  <2>1. pc' \in [Threads -> Labels] /\ pc'["encoder"] = "loop" /\ \A u \in Threads \ {"encoder"} : pc'[u] = pc[u]
    BY <1>1, <1>2, <1>3, GotoStep DEF EncoderDequeue, HandsByLabel
  <2>2. ControlOK' /\ Started'
    BY <1>1, <2>1 DEF EncoderDequeue, ControlOK, Started, Threads
  <2>3. UNCHANGED <<frameVars, codec, captured, written>>
    BY <1>3 DEF EncoderDequeue, frameVars
  <2> QED  BY <1>2, <2>1, <2>2, <2>3, QuietStep
<1>4. CASE raw # << >>
  <2>1. /\ Head(raw) \in Descriptors /\ Head(raw) \in ToSet(raw) /\ raw \in Seq(Descriptors) /\ IsInjective(raw)
        /\ ToSet(Tail(raw)) \subseteq ToSet(raw)
        /\ Head(raw) # NoFrame /\ mediaFrame \in [Descriptors -> Frames] /\ hand["encoder"] = NoFrame
    BY <1>1, <1>2, <1>4, Sequences, HeadOnce, Apart DEF HandsByLabel
  <2>2. Keep("encoder", Head(raw)) /\ raw' = Tail(raw) /\ Goto("encoder", "deal")
    BY <1>4 DEF EncoderDequeue
  <2>3. FramesOK'
    BY <1>1, <1>2, <1>4, <2>1, DequeueOwned DEF EncoderDequeue
  <2>4. /\ HandsByLabel' /\ Started' /\ pc'["encoder"] = "deal" /\ hand'["encoder"] = Head(raw)
        /\ OthersSame("encoder") /\ PacketsOf(es)' = PacketsOf(es) /\ es' = es /\ mediaFrame' = mediaFrame
    BY <1>2, <2>1, <2>2, ContentsKept DEF EncoderDequeue
  <2>5. ControlOK' /\ CodecBound'
    BY <1>1, <2>4 DEF EncoderDequeue, ControlOK, CodecBound, Threads, OthersSame
  <2>6. ReleaseFits'
    BY <1>1, <2>1, <2>2, <2>4 DEF ReleaseFits, Threads, OthersSame
  <2>7. PICK a, b, c, d, e, f, g \in 0..MaxCaptured : CutsAre(a, b, c, d, e, f, g)
    BY DEF IInv, Cuts
  <2>8. PICK x \in 0..MaxCaptured :
          /\ x = mediaFrame[Head(raw)].packet
          /\ Within(<<x>>, e, x) /\ Within(Packets(mediaFrame, Tail(raw)), x, f)
    <3>1. Within(Packets(mediaFrame, raw), e, f)
      BY <2>7 DEF CutsAre, PacketsOf, Packets
    <3> QED  BY <1>4, <2>1, <3>1, PacketTaken
  <2>9. CutsAre(a, b, c, d, x, f, g)'
    <3>1. PacketAt("encoder", "deal")' = <<x>> /\ PacketAt("encoder", "enqueue")' = << >>
      BY <2>4, <2>8 DEF PacketAt
    <3>2. d <= e /\ PacketAt("encoder", "enqueue") = << >>
      BY <1>2, <2>7 DEF CutsAre, Within, PacketAt
    <3>3. Within(<<x>>, d, x)
      <4>1. {d, e, x} \subseteq Nat /\ e < x
        BY <2>8, WithinOne
      <4> QED  BY <3>2, <4>1, WithinOne
    <3>4. Within(PacketAt("encoder", "deal"), d, x)'
      BY <3>1, <3>3
    <3>5. Within(PacketsOf(raw), x, f)'
      <4>1. PacketsOf(raw)' = Packets(mediaFrame, Tail(raw))
        BY <2>2, <2>4 DEF PacketsOf, Packets
      <4> QED  BY <2>8, <4>1
    <3>6. /\ PacketAt("mux", "write")' = PacketAt("mux", "write")
          /\ PacketAt("reader", "enqueue")' = PacketAt("reader", "enqueue")
      BY <2>4 DEF OthersSame, Threads, Holding
    <3>7. UNCHANGED <<codec, captured, written>>
      BY DEF EncoderDequeue
    <3>8. PacketAt("encoder", "enqueue")' = PacketAt("encoder", "enqueue")
      BY <3>1, <3>2
    <3> QED  BY <2>4, <2>7, <3>4, <3>5, <3>6, <3>7, <3>8 DEF CutsAre
  <2>10. Cuts'
    BY <2>9 DEF Cuts
  <2> QED  BY <2>3, <2>4, <2>5, <2>6, <2>10, Assemble
<1> QED  BY <1>3, <1>4

LEMMA EncoderDealStep ==
  ASSUME IInv, EncoderDeal
  PROVE  IInv'
<1>1. OneOwner /\ ReleaseFits /\ HandsByLabel /\ CodecBound /\ ControlOK
  BY OwnerSplit DEF IInv
<1>2. /\ pc["encoder"] = "deal" /\ "deal" \in Holding /\ "encoder" \in Threads
      /\ hand["encoder"] # NoFrame /\ hand["encoder"] \in Descriptors
  BY <1>1, Apart DEF EncoderDeal, Holding, Threads, HandsByLabel
<1>3. PICK x \in 0..MaxCaptured : x = mediaFrame[hand["encoder"]].packet
  BY <1>1, <1>2, Apart DEF Frames
<1>4. PICK label \in {"got", "loop"} :
        /\ Goto("encoder", label)
        /\ \/ codec' = Append(codec, x) /\ (label = "got" \/ Len(codec') <= EncoderDelay)
           \/ codec' = << >> /\ label = "loop"
  BY <1>3 DEF EncoderDeal
<1>5. /\ FramesOK' /\ HandsByLabel' /\ Started' /\ pc'["encoder"] = label /\ OthersSame("encoder")
      /\ PacketsOf(raw)' = PacketsOf(raw) /\ PacketsOf(es)' = PacketsOf(es)
      /\ \A y \in ToSet(raw) \cup ToSet(es) : mediaFrame'[y] = mediaFrame[y]
  <2>1. label \in Labels \ Holding
    BY DEF Labels, Holding
  <2> QED  BY <1>2, <1>4, <2>1, GiveStep DEF EncoderDeal
<1>6. ReleaseFits'
  BY <1>1, <1>5 DEF EncoderDeal, ReleaseFits, HandsByLabel, Threads, Holding, OthersSame
<1>7. PICK a, b, c, d, e, f, g \in 0..MaxCaptured : CutsAre(a, b, c, d, e, f, g)
  BY DEF IInv, Cuts
<1>8. /\ {b, c, d, e, f, x} \subseteq Nat /\ d < x /\ x <= e /\ c <= d /\ d <= e
      /\ Within(codec, c, d)
  <2>2. Within(<<x>>, d, e) /\ Within(codec, c, d)
    BY <1>2, <1>3, <1>7 DEF CutsAre, PacketAt
  <2> QED  BY <2>2, WithinOne, WithinBounds
<1>9. /\ PacketAt("encoder", "deal")' = << >>
      /\ PacketAt("encoder", "enqueue")' = << >> /\ PacketAt("encoder", "enqueue") = << >>
  BY <1>2, <1>5 DEF PacketAt
<1>10. codec \in Seq(1..MaxCaptured) /\ Len(codec) \in Nat /\ Len(codec) <= EncoderDelay /\ EncoderDelay \in Nat
  BY <1>1, <1>2, Sequences DEF CodecBound
<1>11. CASE codec' = Append(codec, x) /\ (label = "got" \/ Len(codec') <= EncoderDelay)
  <2>1. x \in 1..MaxCaptured
    BY <1>8
  <2>2. codec' \in Seq(1..MaxCaptured) /\ Len(codec') = Len(codec) + 1
    BY <1>10, <1>11, <2>1
  <2>3. codec' \in BoundedSeq(1..MaxCaptured, EncoderDelay + 1)
    <3>1. Len(codec') <= EncoderDelay + 1 /\ EncoderDelay + 1 \in Nat
      BY <1>10, <2>2
    <3> QED  BY <2>2, <3>1, BoundedSeqDef
  <2>4. ControlOK' /\ CodecBound'
    BY <1>1, <1>5, <1>11, <2>3 DEF EncoderDeal, ControlOK, CodecBound, Threads, OthersSame
  <2>5. Within(codec', c, e)
    <3>1. codec \in Seq(Nat)
      BY <1>10, NumbersAreNat
    <3> QED  BY <1>8, <1>11, <3>1, WithinAppend
  <2>6. CutsAre(a, b, c, e, e, f, g)'
    <3>1. Within(codec, c, e)' /\ Within(PacketAt("encoder", "deal"), e, e)'
      BY <1>9, <2>5 DEF Within
    <3> QED  BY <1>5, <1>7, <1>9, <3>1 DEF CutsAre, Threads, Holding, EncoderDeal, OthersSame
  <2>7. Cuts'
    BY <2>6 DEF Cuts
  <2> QED  BY <1>5, <1>6, <2>4, <2>7, Assemble
<1>12. CASE codec' = << >> /\ label = "loop"
  <2>1. codec' \in BoundedSeq(1..MaxCaptured, EncoderDelay + 1) /\ Len(codec') <= EncoderDelay
    <3>1. codec' \in Seq(1..MaxCaptured) /\ Len(codec') = 0
      BY <1>12
    <3>2. EncoderDelay + 1 \in Nat /\ 0 <= EncoderDelay + 1 /\ 0 <= EncoderDelay
      BY <1>10
    <3> QED  BY <3>1, <3>2, BoundedSeqDef
  <2>2. ControlOK' /\ CodecBound'
    BY <1>1, <1>5, <2>1 DEF EncoderDeal, ControlOK, CodecBound, Threads, OthersSame
  <2>3. CutsAre(a, b, c, d, e, f, g)'
    <3>1. Within(codec, c, d)' /\ Within(PacketAt("encoder", "deal"), d, e)'
      BY <1>8, <1>9, <1>12 DEF Within
    <3> QED  BY <1>5, <1>7, <1>9, <3>1 DEF CutsAre, Threads, Holding, EncoderDeal, OthersSame
  <2>4. Cuts'
    BY <2>3 DEF Cuts
  <2> QED  BY <1>5, <1>6, <2>2, <2>4, Assemble
<1> QED  BY <1>4, <1>11, <1>12

LEMMA EncoderGotStep ==
  ASSUME IInv, EncoderGot
  PROVE  IInv'
<1>1. OneOwner /\ ReleaseFits /\ HandsByLabel /\ CodecBound /\ ControlOK
  BY OwnerSplit DEF IInv
<1>2. /\ codec \in Seq(1..MaxCaptured) /\ Len(codec) \in Nat /\ Len(codec) <= EncoderDelay + 1
      /\ EncoderDelay \in Nat /\ MaxCaptured \in Nat
  BY <1>1, Sequences
<1>3. PICK k \in 1..Len(codec) :
        /\ getMediaFrame("encoder", codec[k], "release_pkt_buffer")
        /\ codec' = SubSeq(codec, k + 1, Len(codec))
  BY DEF EncoderGot
<1>4. PICK x \in 0..MaxCaptured : x = codec[k] /\ x \in 1..MaxCaptured
  BY <1>2
<1>5. /\ pc["encoder"] = "got" /\ "got" \notin Holding \cup {"off"} /\ "enqueue" \in Holding
      /\ "release_pkt_buffer" \in Releases
  BY DEF EncoderGot, Holding, Releases
<1>6. /\ FramesOK' /\ HandsByLabel' /\ Started' /\ pc'["encoder"] = "enqueue" /\ OthersSame("encoder")
      /\ PacketsOf(raw)' = PacketsOf(raw) /\ PacketsOf(es)' = PacketsOf(es)
      /\ \A y \in ToSet(raw) \cup ToSet(es) : mediaFrame'[y] = mediaFrame[y]
      /\ mediaFrame'[hand'["encoder"]] = [packet |-> x, release |-> "release_pkt_buffer"]
  BY <1>3, <1>4, <1>5, TakeStep DEF EncoderGot
<1>7. codec' \in Seq(1..MaxCaptured) /\ Len(codec') = Len(codec) - k
  <2>1. k \in 0..Len(codec)
    BY <1>2
  <2> QED  BY <1>2, <1>3, <2>1
<1>8. codec' \in BoundedSeq(1..MaxCaptured, EncoderDelay + 1) /\ Len(codec') <= EncoderDelay
  <2>1. Len(codec') <= EncoderDelay /\ Len(codec') <= EncoderDelay + 1 /\ EncoderDelay + 1 \in Nat
    BY <1>2, <1>7
  <2> QED  BY <1>7, <2>1, BoundedSeqDef
<1>9. ControlOK' /\ CodecBound'
  BY <1>1, <1>6, <1>8 DEF EncoderGot, ControlOK, CodecBound, Threads, OthersSame
<1>10. ReleaseFits'
  <2>1. raw' = raw /\ es' = es
    BY DEF EncoderGot
  <2>2. /\ \A y \in ToSet(raw') : mediaFrame'[y].release = "ReleasePkt"
        /\ \A y \in ToSet(es') : mediaFrame'[y].release = "release_pkt_buffer"
    BY <1>1, <1>6, <2>1 DEF ReleaseFits
  <2>4. pc'["reader"] = "enqueue" => mediaFrame'[hand'["reader"]].release = "ReleasePkt"
    BY <1>1, <1>6 DEF ReleaseFits, HandsByLabel, Threads, Holding, OthersSame
  <2>5. pc'["mux"] = "write" => mediaFrame'[hand'["mux"]].release = "release_pkt_buffer"
    BY <1>1, <1>6 DEF ReleaseFits, HandsByLabel, Threads, Holding, OthersSame
  <2> QED  BY <1>6, <2>2, <2>4, <2>5 DEF ReleaseFits
<1>11. Cuts'
  <2>1. PICK a, b, c, d, e, f, g \in 0..MaxCaptured : CutsAre(a, b, c, d, e, f, g)
    BY DEF IInv, Cuts
  <2>2. /\ PacketAt("encoder", "deal")' = << >> /\ PacketAt("encoder", "deal") = << >>
        /\ PacketAt("encoder", "enqueue")' = <<x>>
    BY <1>5, <1>6 DEF PacketAt
  <2>3. Within(codec, c, d) /\ b <= c /\ {b, c, d, x} \subseteq Nat
    BY <2>1 DEF CutsAre, Within
  <2>4. c < x /\ Within(codec', x, d)
    <3>1. codec \in Seq(Nat) /\ k \in 0..Len(codec) /\ k > 0
      BY <1>2
    <3> QED  BY <1>3, <1>4, <2>3, <3>1, WithinBack
  <2>5. Within(<<x>>, b, x)
    BY <2>3, <2>4, WithinOne
  <2>6. CutsAre(a, b, x, d, e, f, g)'
    <3>1. Within(codec, x, d)' /\ Within(PacketAt("encoder", "enqueue"), b, x)'
      BY <2>2, <2>4, <2>5
    <3> QED  BY <1>6, <2>1, <2>2, <3>1 DEF CutsAre, Threads, Holding, EncoderGot, OthersSame
  <2> QED  BY <2>6 DEF Cuts
<1> QED  BY <1>6, <1>9, <1>10, <1>11, Assemble

LEMMA EncoderEnqueueStep ==
  ASSUME IInv, EncoderEnqueue \/ EncoderLoses
  PROVE  IInv'
<1>1. OneOwner /\ ReleaseFits /\ HandsByLabel /\ CodecBound /\ ControlOK
  BY OwnerSplit DEF IInv
<1>2. /\ pc["encoder"] = "enqueue" /\ "enqueue" \in Holding /\ "loop" \in Labels
      /\ "loop" \notin Holding /\ "encoder" \in Threads /\ pc["encoder"] # "off"
      /\ Keep("encoder", NoFrame) /\ Goto("encoder", "loop")
      /\ UNCHANGED <<raw, pool, mediaFrame, codec, mStatus, stop, captured, written>>
  BY DEF EncoderEnqueue, EncoderLoses, Holding, Labels, Threads
<1>3. /\ hand["encoder"] # NoFrame /\ hand["encoder"] \in Descriptors
      /\ hand["encoder"] \notin ToSet(raw) \cup ToSet(es)
      /\ mediaFrame \in [Descriptors -> Frames] /\ es \in Seq(Descriptors) /\ IsInjective(es)
  BY <1>1, <1>2, Apart, Sequences DEF HandsByLabel
<1>4. /\ HandsByLabel' /\ Started' /\ pc'["encoder"] = "loop" /\ OthersSame("encoder")
      /\ es' = es => PacketsOf(es)' = PacketsOf(es)
      /\ PacketsOf(raw)' = PacketsOf(raw) /\ mediaFrame' = mediaFrame /\ raw' = raw
  BY <1>2, ContentsKept
<1>5. FramesOK'
  BY <1>1, <1>2, <1>3, EnqueueOwned, LoseOwned DEF EncoderEnqueue, EncoderLoses
<1>6. ControlOK' /\ CodecBound'
  BY <1>1, <1>2, <1>4 DEF ControlOK, CodecBound, Threads, OthersSame
<1>7. PICK a, b, c, d, e, f, g \in 0..MaxCaptured : CutsAre(a, b, c, d, e, f, g)
  BY DEF IInv, Cuts
<1>8. /\ PacketAt("encoder", "enqueue") = <<mediaFrame[hand["encoder"]].packet>>
      /\ PacketAt("encoder", "enqueue")' = << >>
      /\ PacketAt("encoder", "deal") = << >> /\ PacketAt("encoder", "deal")' = << >>
  BY <1>2, <1>4 DEF PacketAt
<1>9. CASE EncoderEnqueue
  <2>1. es' = Append(es, hand["encoder"])
    BY <1>9 DEF EncoderEnqueue
  <2>2. ToSet(es') = ToSet(es) \cup {hand["encoder"]}
    BY <1>3, <2>1, AppendOnce
  <2>3. ReleaseFits'
    BY <1>1, <1>2, <1>4, <2>2 DEF ReleaseFits, Threads, OthersSame
  <2>4. Within(Packets(mediaFrame, es'), a, c)
    <3>1. Within(Packets(mediaFrame, es), a, b) /\ Within(<<mediaFrame[hand["encoder"]].packet>>, b, c)
      BY <1>7, <1>8 DEF CutsAre, PacketsOf, Packets
    <3> QED  BY <1>3, <2>1, <3>1, PacketAppended
  <2>5. CutsAre(a, c, c, d, e, f, g)'
    <3>1. Within(PacketsOf(es), a, c)'
      BY <1>4, <2>4 DEF PacketsOf, Packets
    <3>2. Within(PacketAt("encoder", "enqueue"), c, c)'
      BY <1>8 DEF Within
    <3> QED  BY <1>2, <1>4, <1>7, <1>8, <3>1, <3>2 DEF CutsAre, Threads, Holding, OthersSame
  <2>6. Cuts'
    BY <2>5 DEF Cuts
  <2> QED  BY <1>4, <1>5, <1>6, <2>3, <2>6, Assemble
<1>10. CASE EncoderLoses
  <2>1. es' = es /\ PacketsOf(es)' = PacketsOf(es)
    BY <1>4, <1>10 DEF EncoderLoses
  <2>2. ReleaseFits'
    BY <1>1, <1>4, <2>1 DEF ReleaseFits, Threads, OthersSame
  <2>3. CutsAre(a, b, c, d, e, f, g)'
    <3>1. b <= c
      BY <1>7 DEF CutsAre, Within
    <3>2. Within(PacketAt("encoder", "enqueue"), b, c)'
      BY <1>8, <3>1 DEF Within
    <3> QED  BY <1>2, <1>4, <1>7, <1>8, <2>1, <3>2 DEF CutsAre, Threads, Holding, OthersSame
  <2>4. Cuts'
    BY <2>3 DEF Cuts
  <2> QED  BY <1>4, <1>5, <1>6, <2>2, <2>4, Assemble
<1> QED  BY <1>9, <1>10

LEMMA EncoderGivesUpStep ==
  ASSUME IInv, EncoderGivesUp
  PROVE  IInv'
<1>1. OneOwner /\ ReleaseFits /\ HandsByLabel /\ CodecBound /\ ControlOK
  BY OwnerSplit DEF IInv
<1>2. pc["encoder"] = "enqueue" /\ "enqueue" \in Holding /\ "loop" \in Labels \ Holding
  BY DEF EncoderGivesUp, Holding, Labels
<1>3. /\ FramesOK' /\ HandsByLabel' /\ Started' /\ pc'["encoder"] = "loop" /\ OthersSame("encoder")
      /\ PacketsOf(raw)' = PacketsOf(raw) /\ PacketsOf(es)' = PacketsOf(es)
      /\ \A y \in ToSet(raw) \cup ToSet(es) : mediaFrame'[y] = mediaFrame[y]
  BY <1>2, GiveStep DEF EncoderGivesUp
<1>4. ControlOK' /\ CodecBound'
  BY <1>1, <1>3 DEF EncoderGivesUp, ControlOK, CodecBound, Threads, OthersSame
<1>5. ReleaseFits'
  BY <1>1, <1>3 DEF EncoderGivesUp, ReleaseFits, HandsByLabel, Threads, Holding, OthersSame
<1>6. Cuts'
  <2>1. PICK a, b, c, d, e, f, g \in 0..MaxCaptured : CutsAre(a, b, c, d, e, f, g)
    BY DEF IInv, Cuts
  <2>2. /\ PacketAt("encoder", "enqueue")' = << >>
        /\ PacketAt("encoder", "deal") = << >> /\ PacketAt("encoder", "deal")' = << >>
    BY <1>2, <1>3 DEF PacketAt
  <2>3. b <= c
    BY <2>1 DEF CutsAre, Within
  <2>4. CutsAre(a, b, c, d, e, f, g)'
    <3>1. Within(PacketAt("encoder", "enqueue"), b, c)'
      BY <2>2, <2>3 DEF Within
    <3>2. /\ PacketAt("mux", "write")' = PacketAt("mux", "write")
          /\ PacketAt("reader", "enqueue")' = PacketAt("reader", "enqueue")
      BY <1>3 DEF OthersSame, Threads, Holding
    <3>3. UNCHANGED <<codec, captured, written>>
      BY DEF EncoderGivesUp
    <3> QED  BY <1>3, <2>1, <2>2, <3>1, <3>2, <3>3 DEF CutsAre
  <2> QED  BY <2>4 DEF Cuts
<1> QED  BY <1>3, <1>4, <1>5, <1>6, Assemble

------------------------------------------------------------------------------
\* The mux thread.
LEMMA MuxTakesFrame ==
  ASSUME IInv, pc["mux"] \in {"dequeue", "again"}, es # << >>,
         Keep("mux", Head(es)), es' = Tail(es), Goto("mux", "write"),
         UNCHANGED <<raw, pool, mediaFrame, leaked, codec, mStatus, stop, captured, written>>
  PROVE  IInv'
<1>1. OneOwner /\ ReleaseFits /\ HandsByLabel /\ CodecBound /\ ControlOK
  BY OwnerSplit DEF IInv
<1>2. /\ pc["mux"] \notin Holding /\ "mux" \in Threads /\ pc["mux"] # "off"
      /\ "write" \in Holding /\ "write" \in Labels
  BY DEF Holding, Labels, Threads
<1>3. /\ Head(es) \in Descriptors /\ Head(es) \in ToSet(es) /\ es \in Seq(Descriptors) /\ IsInjective(es)
      /\ ToSet(Tail(es)) \subseteq ToSet(es)
      /\ Head(es) # NoFrame /\ mediaFrame \in [Descriptors -> Frames] /\ hand["mux"] = NoFrame
  BY <1>1, <1>2, Sequences, HeadOnce, Apart DEF HandsByLabel
<1>4. FramesOK'
  BY <1>1, <1>2, <1>3, DequeueOwned
<1>5. /\ HandsByLabel' /\ Started' /\ pc'["mux"] = "write" /\ hand'["mux"] = Head(es)
      /\ OthersSame("mux") /\ PacketsOf(raw)' = PacketsOf(raw)
  BY <1>2, <1>3, ContentsKept
<1>6. ControlOK' /\ CodecBound'
  BY <1>1, <1>5 DEF ControlOK, CodecBound, Threads, OthersSame
<1>7. ReleaseFits'
  BY <1>1, <1>3, <1>5 DEF ReleaseFits, Threads, OthersSame
<1>8. PICK a, b, c, d, e, f, g \in 0..MaxCaptured : CutsAre(a, b, c, d, e, f, g)
  BY DEF IInv, Cuts
<1>9. PICK x \in 0..MaxCaptured :
        /\ x = mediaFrame[Head(es)].packet
        /\ Within(<<x>>, a, x) /\ Within(Packets(mediaFrame, Tail(es)), x, b)
  <2>1. Within(Packets(mediaFrame, es), a, b)
    BY <1>8 DEF CutsAre, PacketsOf, Packets
  <2> QED  BY <1>3, <2>1, PacketTaken
<1>10. CutsAre(x, b, c, d, e, f, g)'
  <2>1. PacketAt("mux", "write")' = <<x>>
    BY <1>5, <1>9 DEF PacketAt
  <2>2. Within(<<x>>, written, x)
    <3>1. {written, a, x} \subseteq Nat /\ written <= a /\ a < x
      <4>1. {written, a, x} \subseteq Nat
        BY <1>1 DEF ControlOK
      <4>2. written <= a
        BY <1>8 DEF CutsAre, Within
      <4>3. a < x
        BY <1>9, WithinOne
      <4> QED  BY <4>1, <4>2, <4>3
    <3> QED  BY <3>1, WithinOne
  <2>3. Within(PacketAt("mux", "write"), written, x)' /\ Within(PacketsOf(es), x, b)'
    BY <1>9, <2>1, <2>2 DEF PacketsOf, Packets
  <2> QED  BY <1>5, <1>8, <2>3 DEF CutsAre, Threads, Holding, OthersSame
<1>11. Cuts'
  BY <1>10 DEF Cuts
<1> QED  BY <1>4, <1>5, <1>6, <1>7, <1>11, Assemble

LEMMA MuxDequeueStep ==
  ASSUME IInv, MuxDequeue
  PROVE  IInv'
<1>1. CASE es = << >>
  <2>1. ControlOK /\ HandsByLabel /\ Started /\ pc["mux"] = "dequeue"
    BY OwnerSplit DEF IInv, MuxDequeue
  <2>2. pc' \in [Threads -> Labels] /\ pc'["mux"] = "again" /\ \A u \in Threads \ {"mux"} : pc'[u] = pc[u]
    BY <1>1, <2>1, GotoStep DEF MuxDequeue, HandsByLabel, Threads, Labels
  <2>3. ControlOK' /\ Started'
    BY <2>1, <2>2 DEF MuxDequeue, ControlOK, Started, Threads
  <2>4. UNCHANGED <<frameVars, codec, captured, written>>
    BY <1>1 DEF MuxDequeue, frameVars
  <2> QED  BY <2>1, <2>2, <2>3, <2>4, QuietStep DEF Holding, Threads
<1>2. CASE es # << >>
  BY <1>2, MuxTakesFrame DEF MuxDequeue
<1> QED  BY <1>1, <1>2

LEMMA MuxAgainStep ==
  ASSUME IInv, MuxAgain
  PROVE  IInv'
<1>1. OneOwner /\ ControlOK /\ HandsByLabel /\ Started /\ pc["mux"] = "again"
  BY OwnerSplit DEF IInv, MuxAgain
<1>2. CASE ~stop
  BY <1>2, MuxTakesFrame DEF MuxAgain
<1>3. CASE stop
  <2>1. Goto("mux", "ended") /\ "ended" \in Labels \ Holding /\ pc["mux"] \notin Holding \cup {"off"}
    BY <1>3 DEF MuxAgain, Labels, Holding
  <2>2. pc' \in [Threads -> Labels] /\ pc'["mux"] = "ended" /\ \A u \in Threads \ {"mux"} : pc'[u] = pc[u]
    BY <1>1, <2>1, GotoStep DEF HandsByLabel, Threads
  <2>3. ControlOK' /\ Started'
    BY <1>1, <2>2 DEF MuxAgain, ControlOK, Started, Threads
  <2>4. CASE es = << >>
    <3>1. UNCHANGED <<frameVars, codec, captured, written>>
      BY <2>4 DEF MuxAgain, frameVars
    <3> QED  BY <2>1, <2>2, <2>3, <3>1, QuietStep DEF Threads
  <2>5. CASE es # << >>
    <3>1. es \in Seq(Descriptors) /\ Len(es) \in Nat \ {0} /\ Head(es) = es[1] /\ Head(es) \in Descriptors
      BY <1>1, <2>5, Sequences
    <3>2. es' = SubSeq(es, 1 + 1, Len(es))
      BY <3>1 DEF MuxAgain
    <3>3. SubSeq(es, 1, 1) = <<Head(es)>>
      <4>1. /\ SubSeq(es, 1, 1) \in Seq(Descriptors) /\ Len(SubSeq(es, 1, 1)) = 1
            /\ SubSeq(es, 1, 1)[1] = Head(es)
        BY <3>1
      <4>2. <<Head(es)>> \in Seq(Descriptors) /\ Len(<<Head(es)>>) = 1 /\ <<Head(es)>>[1] = Head(es)
        BY <3>1
      <4>3. \A s, t \in Seq(Descriptors) : Len(s) = 1 /\ Len(t) = 1 /\ s[1] = t[1] => s = t
        OBVIOUS
      <4> QED  BY <4>1, <4>2, <4>3
    <3>4. Release(SubSeq(es, 1, 1))
      BY <1>3, <2>5, <3>3 DEF MuxAgain
    <3>5. 1 \in 0..Len(es)
      BY <3>1
    <3>6. UNCHANGED <<hand, raw, leaked, codec, mStatus, stop, captured, written>>
      BY <1>3 DEF MuxAgain
    <3> QED  BY <2>1, <2>3, <3>2, <3>4, <3>5, <3>6, CleanStep
  <2> QED  BY <2>4, <2>5
<1> QED  BY <1>2, <1>3

LEMMA MuxWriteStep ==
  ASSUME IInv, MuxWrite
  PROVE  IInv'
<1>1. OneOwner /\ ReleaseFits /\ HandsByLabel /\ CodecBound /\ ControlOK
  BY OwnerSplit DEF IInv
<1>2. pc["mux"] = "write" /\ "write" \in Holding /\ hand["mux"] \in Descriptors
  BY <1>1, Apart DEF MuxWrite, Holding, HandsByLabel, Threads
<1>3. PICK label \in {"dequeue", "ended"} : Goto("mux", label)
  BY DEF MuxWrite
<1>4. /\ FramesOK' /\ HandsByLabel' /\ Started' /\ pc'["mux"] = label /\ OthersSame("mux")
      /\ PacketsOf(raw)' = PacketsOf(raw) /\ PacketsOf(es)' = PacketsOf(es)
      /\ \A y \in ToSet(raw) \cup ToSet(es) : mediaFrame'[y] = mediaFrame[y]
  <2>1. label \in Labels \ Holding
    BY DEF Labels, Holding
  <2> QED  BY <1>2, <1>3, <2>1, GiveStep DEF MuxWrite
<1>5. PICK x \in 0..MaxCaptured : x = mediaFrame[hand["mux"]].packet
  BY <1>1, <1>2, Apart DEF Frames
<1>6. written' \in {written, x}
  BY <1>5 DEF MuxWrite
<1>7. ControlOK' /\ CodecBound'
  BY <1>1, <1>4, <1>6 DEF MuxWrite, ControlOK, CodecBound, Threads, OthersSame
<1>8. ReleaseFits'
  BY <1>1, <1>4 DEF MuxWrite, ReleaseFits, HandsByLabel, Threads, Holding, OthersSame
<1>9. Cuts'
  <2>1. PICK a, b, c, d, e, f, g \in 0..MaxCaptured : CutsAre(a, b, c, d, e, f, g)
    BY DEF IInv, Cuts
  <2>2. Within(<<x>>, written, a)
    BY <1>2, <1>5, <2>1 DEF CutsAre, PacketAt
  <2>3. written' <= a
    BY <1>1, <1>6, <2>2, WithinOne DEF ControlOK
  <2>4. PacketAt("mux", "write")' = << >>
    BY <1>4 DEF PacketAt
  <2>5. CutsAre(a, b, c, d, e, f, g)'
    <3>1. Within(PacketAt("mux", "write"), written, a)'
      BY <2>3, <2>4 DEF Within
    <3> QED  BY <1>4, <2>1, <3>1 DEF CutsAre, Threads, Holding, MuxWrite, OthersSame
  <2> QED  BY <2>5 DEF Cuts
<1> QED  BY <1>4, <1>7, <1>8, <1>9, Assemble

------------------------------------------------------------------------------
\* The invariant holds at the start, when nobody has a frame.
LEMMA InitInv == Init => IInv
<1> SUFFICES ASSUME Init PROVE IInv
  OBVIOUS
<1> USE PipelineAssumption
<1>1. TypeOK
  <2>1. /\ << >> \in BoundedSeq(Descriptors, RawCapacity) /\ << >> \in BoundedSeq(Descriptors, EsCapacity)
        /\ << >> \in BoundedSeq(Descriptors, PoolCapacity)
        /\ << >> \in BoundedSeq(1..MaxCaptured, EncoderDelay + 1)
    BY EmptyBounded
  <2>2. mediaFrame \in [Descriptors -> [packet : 0..MaxCaptured, release : Releases]]
    BY DEF Init, Releases
  <2>3. hand \in [Threads -> Descriptors \cup {NoFrame}]
    BY DEF Init
  <2>4. pc["main"] = "create" /\ \A t \in Threads \ {"main"} : pc[t] = "off"
    BY DEF Init, Threads
  <2>5. mStatus \in {"NULL", "Runing", "Pause", "Stop"} /\ stop \in BOOLEAN /\ leaked \subseteq Descriptors
    BY DEF Init
  <2>6. captured \in 0..MaxCaptured /\ written \in 0..MaxCaptured
    BY DEF Init
  <2>7. raw = << >> /\ es = << >> /\ pool = << >> /\ codec = << >>
    BY DEF Init
  <2>8. /\ pc["main"] = "create" /\ pc["reader"] = "off" /\ pc["encoder"] = "off" /\ pc["mux"] = "off"
    BY <2>4 DEF Threads
  <2> QED  BY <2>1, <2>2, <2>3, <2>5, <2>6, <2>7, <2>8 DEF TypeOK
<1>3. OneOwner
  BY <1>1, EmptyOnce DEF Init, OneOwner
<1>4. ReleaseFits
  BY EmptyOnce DEF Init, ReleaseFits, Threads
<1>5. HandsByLabel /\ Started /\ CodecBound
  BY DEF Init, HandsByLabel, Started, CodecBound, Threads, Labels, Holding
<1>6. Cuts
  <2>1. /\ PacketAt("mux", "write") = << >> /\ PacketAt("encoder", "enqueue") = << >>
        /\ PacketAt("encoder", "deal") = << >> /\ PacketAt("reader", "enqueue") = << >>
    BY DEF Init, PacketAt, Threads
  <2>2. PacketsOf(raw) = << >> /\ PacketsOf(es) = << >> /\ codec = << >>
    BY DEF Init, PacketsOf
  <2>3. Within(<< >>, 0, 0)
    BY WithinEmpty
  <2>4. CutsAre(0, 0, 0, 0, 0, 0, 0)
    BY <2>1, <2>2, <2>3 DEF Init, CutsAre
  <2> QED  BY <2>4 DEF Cuts
<1> QED  BY <1>3, <1>4, <1>5, <1>6 DEF IInv

\* Every step keeps it.
LEMMA NextInv == IInv /\ [Next]_vars => IInv'
<1> SUFFICES ASSUME IInv, [Next]_vars PROVE IInv'
  OBVIOUS
<1>1. CASE ReaderStep
  BY <1>1, QuietActions, ReadStep, ReadOtherStep, ReaderDiscardStep, ReaderEnqueueStep, ReaderCleanIfStep
     DEF ReaderStep
<1>2. CASE EncoderStep \/ EncoderLoses
  BY <1>2, QuietActions, EncoderDequeueStep, EncoderDealStep, EncoderGotStep, EncoderEnqueueStep,
     EncoderGivesUpStep DEF EncoderStep
<1>3. CASE MuxStep
  BY <1>3, MuxDequeueStep, MuxAgainStep, MuxWriteStep DEF MuxStep
<1>4. CASE MainStep \/ MuxStart \/ Pause \/ SetStop \/ UNCHANGED vars
  BY <1>4, QuietActions DEF MainStep
<1> QED  BY <1>1, <1>2, <1>3, <1>4 DEF Next

\* The inductive invariant: it holds whatever the threads, the codec and the network do.
THEOREM Invariance == Spec => []IInv
BY InitInv, NextInv, PTL DEF Spec

\* The capacities of the queues and of the stack hold, and every variable has its type.
THEOREM TypeCorrect == Spec => []TypeOK
<1>1. IInv => TypeOK
  BY DEF IInv, OneOwner
<1> QED  BY <1>1, Invariance, PTL

\* No descriptor is ever in two places: the discipline of the threads is enough, with
\* no lock around a frame.
THEOREM Ownership == Spec => []OneOwner
<1>1. IInv => OneOwner
  BY DEF IInv
<1> QED  BY <1>1, Invariance, PTL

\* A recycled descriptor is always released through the callback of what it holds now.
THEOREM ReleaseMatches == Spec => []ReleaseFits
<1>1. IInv => ReleaseFits
  BY DEF IInv
<1> QED  BY <1>1, Invariance, PTL

\* No thread ends, or begins another round, with a descriptor in its hand.
THEOREM FramesAccountedFor == Spec => []NothingStranded
<1>1. IInv => NothingStranded
  BY DEF IInv, HandsByLabel, NothingStranded, Holding
<1> QED  BY <1>1, Invariance, PTL

\* The cuts give the order of the whole line.
LEMMA LineRises == IInv => InOrder
<1> SUFFICES ASSUME IInv PROVE InOrder
  OBVIOUS
<1>1. OneOwner /\ ControlOK /\ HandsByLabel
  BY OwnerSplit DEF IInv
<1>2. PICK a, b, c, d, e, f, g \in 0..MaxCaptured : CutsAre(a, b, c, d, e, f, g)
  BY DEF IInv, Cuts
<1>3. {a, b, c, d, e, f, g, written} \subseteq Nat
  BY <1>1 DEF ControlOK
<1>4. \A t \in Threads, label \in Holding : PacketAt(t, label) \in Seq(Nat)
  <2> SUFFICES ASSUME NEW t \in Threads, NEW label \in Holding, pc[t] = label
               PROVE  <<mediaFrame[hand[t]].packet>> \in Seq(Nat)
    BY DEF PacketAt
  <2>1. mediaFrame[hand[t]] \in Frames
    BY <1>1, Apart DEF HandsByLabel
  <2>2. mediaFrame[hand[t]].packet \in Nat
    BY <2>1 DEF Frames
  <2> QED  BY <2>2
<1>5. PacketsOf(raw) \in Seq(Nat) /\ PacketsOf(es) \in Seq(Nat) /\ codec \in Seq(Nat)
  <2>1. PacketsOf(raw) = Packets(mediaFrame, raw) /\ PacketsOf(es) = Packets(mediaFrame, es)
    BY DEF PacketsOf, Packets
  <2>2. codec \in Seq(Nat)
    BY <1>1, Sequences, SeqMonotonic
  <2> QED  BY <1>1, <2>1, <2>2, Sequences, Apart, PacketsTyped
<1> DEFINE p1 == PacketAt("mux", "write")
           p2 == PacketsOf(es)
           p3 == PacketAt("encoder", "enqueue")
           p5 == PacketAt("encoder", "deal")
           p6 == PacketsOf(raw)
           p7 == PacketAt("reader", "enqueue")
<1>6. /\ Within(p1, written, a) /\ Within(p2, a, b) /\ Within(p3, b, c) /\ Within(codec, c, d)
      /\ Within(p5, d, e) /\ Within(p6, e, f) /\ Within(p7, f, g)
      /\ {p1, p2, p3, p5, p6, p7} \subseteq Seq(Nat)
  BY <1>2, <1>4, <1>5 DEF CutsAre, Threads, Holding
<1> HIDE DEF p1, p2, p3, p5, p6, p7
<1> DEFINE p0 == <<written>>
           low == written - 1
<1>7. p0 \in Seq(Nat) /\ low \in Int /\ Within(p0, low, written)
  BY <1>3 DEF Within
<1> HIDE DEF p0, low
<1>11. p0 \o p1 \o p2 \o p3 \o codec \in Seq(Nat) /\ Within(p0 \o p1 \o p2 \o p3 \o codec, low, d)
  BY <1>3, <1>5, <1>6, <1>7, WithinConcat
<1>12. /\ p0 \o p1 \o p2 \o p3 \o codec \o p5 \in Seq(Nat)
       /\ Within(p0 \o p1 \o p2 \o p3 \o codec \o p5, low, e)
  BY <1>3, <1>6, <1>7, <1>11, WithinConcat
<1>13. /\ p0 \o p1 \o p2 \o p3 \o codec \o p5 \o p6 \in Seq(Nat)
       /\ Within(p0 \o p1 \o p2 \o p3 \o codec \o p5 \o p6, low, f)
  BY <1>3, <1>6, <1>7, <1>12, WithinConcat
<1>14. Within(p0 \o p1 \o p2 \o p3 \o codec \o p5 \o p6 \o p7, low, g)
  BY <1>3, <1>6, <1>7, <1>13, WithinConcat
<1>15. Line = p0 \o p1 \o p2 \o p3 \o codec \o p5 \o p6 \o p7
  BY DEF Line, p0, p1, p2, p3, p5, p6, p7
<1> QED  BY <1>14, <1>15 DEF InOrder, IsSorted, Within

\* From the device to the muxer packets never overtake one another.
THEOREM OrderKept == Spec => []InOrder
BY LineRises, Invariance, PTL
------------------------------------------------------------------------------
\* What MediaFrameQueue is proved to implement is what the pipeline does with its queues.
RawFifo == INSTANCE FrameFifo WITH fifo <- raw, Frames <- Descriptors, Capacity <- RawCapacity
EsFifo == INSTANCE FrameFifo WITH fifo <- es, Frames <- Descriptors, Capacity <- EsCapacity

LEMMA TailIsBack ==
  ASSUME NEW S, NEW s \in Seq(S), s # << >>
  PROVE  Tail(s) = SubSeq(s, 2, Len(s)) /\ 1 \in 1..Len(s)
<1>1. Len(s) \in Nat /\ Len(s) # 0
  OBVIOUS
<1> QED  BY <1>1

\* Who changes the raw queue,
LEMMA RawMoves ==
  ASSUME Next
  PROVE  ReaderEnqueue \/ EncoderDequeue \/ raw' = raw
<1>1. CASE ReaderStep
  BY <1>1 DEF ReaderStep, ReaderLoop, Read, ReadOther, ReaderDiscard, ReaderGetSize, ReaderCleanIf, frameVars
<1>2. CASE EncoderStep \/ EncoderLoses
  BY <1>2 DEF EncoderStep, EncoderLoop, EncoderDeal, EncoderGot, EncoderEnqueue, EncoderGivesUp, EncoderLoses,
              frameVars
<1>3. CASE MuxStep
  BY <1>3 DEF MuxStep, MuxDequeue, MuxAgain, MuxWrite
<1>4. CASE MainStep \/ MuxStart \/ Pause \/ SetStop
  BY <1>4 DEF MainStep, CreateReader, Start, Stop, StopJoin, MuxStart, Pause, SetStop, frameVars
<1> QED  BY <1>1, <1>2, <1>3, <1>4 DEF Next

\* and who the ES queue.
LEMMA EsMoves ==
  ASSUME Next
  PROVE  ReaderCleanIf \/ EncoderEnqueue \/ MuxDequeue \/ MuxAgain \/ es' = es
<1>1. CASE ReaderStep
  BY <1>1 DEF ReaderStep, ReaderLoop, Read, ReadOther, ReaderDiscard, ReaderEnqueue, ReaderGetSize, frameVars
<1>2. CASE EncoderStep \/ EncoderLoses
  BY <1>2 DEF EncoderStep, EncoderLoop, EncoderDequeue, EncoderDeal, EncoderGot, EncoderGivesUp, EncoderLoses,
              frameVars
<1>3. CASE MuxStep
  BY <1>3 DEF MuxStep, MuxWrite
<1>4. CASE MainStep \/ MuxStart \/ Pause \/ SetStop
  BY <1>4 DEF MainStep, CreateReader, Start, Stop, StopJoin, MuxStart, Pause, SetStop, frameVars
<1> QED  BY <1>1, <1>2, <1>3, <1>4 DEF Next

\* A thread at enqueue has a descriptor that is in no queue.
LEMMA NewToQueues ==
  ASSUME IInv, NEW t \in {"reader", "encoder"}, pc[t] = "enqueue"
  PROVE  hand[t] \in Descriptors /\ hand[t] \notin ToSet(raw) \cup ToSet(es)
<1>1. hand[t] # NoFrame /\ hand[t] \in Descriptors \cup {NoFrame} /\ t \in Threads
  BY DEF IInv, HandsByLabel, Holding, Threads, OneOwner, TypeOK
<1>2. hand[t] \in Held
  BY <1>1 DEF Held
<1> QED  BY <1>1, <1>2 DEF IInv, OneOwner

LEMMA RawStep ==
  ASSUME IInv, Next
  PROVE  RawFifo!Next \/ raw' = raw
<1>1. raw \in Seq(Descriptors)
  BY Sequences DEF IInv
<1>2. CASE ReaderEnqueue
  <2> DEFINE d == hand["reader"]
  <2>1. d \in Descriptors /\ d \notin ToSet(raw)
    BY <1>2, NewToQueues DEF ReaderEnqueue
  <2>2. ~RawFifo!InFifo(d)
    BY <1>1, <2>1 DEF RawFifo!InFifo, ToSet
  <2>3. (Len(raw) < RawCapacity /\ raw' = Append(raw, d)) \/ raw' = raw
    BY <1>2 DEF ReaderEnqueue
  <2> QED  BY <2>1, <2>2, <2>3 DEF RawFifo!Next, RawFifo!Put
<1>3. CASE EncoderDequeue
  <2>1. CASE raw # << >>
    <3>1. raw' = SubSeq(raw, 1 + 1, Len(raw)) /\ 1 \in 1..Len(raw)
      BY <1>1, <1>3, <2>1, TailIsBack DEF EncoderDequeue
    <3> QED  BY <3>1 DEF RawFifo!Next, RawFifo!DropFront
  <2> QED  BY <1>3, <2>1 DEF EncoderDequeue
<1> QED  BY <1>2, <1>3, RawMoves

LEMMA EsStep ==
  ASSUME IInv, Next
  PROVE  EsFifo!Next \/ es' = es
<1>1. es \in Seq(Descriptors) /\ Len(es) \in Nat
  BY Sequences DEF IInv
<1>2. CASE EncoderEnqueue
  <2> DEFINE d == hand["encoder"]
  <2>1. d \in Descriptors /\ d \notin ToSet(es)
    BY <1>2, NewToQueues DEF EncoderEnqueue
  <2>2. ~EsFifo!InFifo(d)
    BY <1>1, <2>1 DEF EsFifo!InFifo, ToSet
  <2>3. Len(es) < EsCapacity /\ es' = Append(es, d)
    BY <1>2 DEF EncoderEnqueue
  <2> QED  BY <2>1, <2>2, <2>3 DEF EsFifo!Next, EsFifo!Put
<1>3. ASSUME es # << >>, es' = Tail(es) PROVE EsFifo!Next
  <2>1. es' = SubSeq(es, 1 + 1, Len(es)) /\ 1 \in 1..Len(es)
    BY <1>1, <1>3, TailIsBack
  <2> QED  BY <2>1 DEF EsFifo!Next, EsFifo!DropFront
<1>4. CASE MuxDequeue \/ MuxAgain
  BY <1>3, <1>4 DEF MuxDequeue, MuxAgain
<1>5. CASE ReaderCleanIf
  <2>1. PICK k \in 0..Len(es) : (k = 0 => es = << >>) /\ es' = SubSeq(es, k + 1, Len(es))
    BY <1>5 DEF ReaderCleanIf
  <2>2. CASE k = 0
    <3>1. es = << >> /\ es' = SubSeq(es, 1, 0)
      BY <2>1, <2>2
    <3>2. es' = << >>
      BY <1>1, <3>1
    <3> QED  BY <3>1, <3>2
  <2>3. CASE k # 0
    <3>1. k \in 1..Len(es)
      BY <1>1, <2>3
    <3> QED  BY <2>1, <3>1 DEF EsFifo!Next, EsFifo!DropFront
  <2> QED  BY <2>2, <2>3
<1> QED  BY <1>2, <1>4, <1>5, EsMoves

\* The pipeline asks of its queues what a mediaFrameQueue is proved to promise: both are
\* bounded first-in first-out queues of distinct frames, into which nobody puts a descriptor
\* twice, also while it is recycled.
THEOREM QueuesAreFifos == Spec => RawFifo!Spec /\ EsFifo!Spec
<1>1. Init => RawFifo!Init /\ EsFifo!Init
  BY DEF Init, RawFifo!Init, EsFifo!Init
<1>2. IInv /\ [Next]_vars => [RawFifo!Next]_raw /\ [EsFifo!Next]_es
  <2>1. CASE Next
    BY <2>1, RawStep, EsStep
  <2>2. CASE UNCHANGED vars
    BY <2>2 DEF vars, frameVars
  <2> QED  BY <2>1, <2>2
<1> QED  BY <1>1, <1>2, Invariance, PTL DEF Spec, RawFifo!Spec, EsFifo!Spec
==============================================================================
