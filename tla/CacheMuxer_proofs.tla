------------------------- MODULE CacheMuxer_proofs -------------------------
(***************************************************************************)
(* Theorems about CacheMuxer, for every length of the cache, distance of   *)
(* the key frames and number of frames and audio packets.                  *)
(*   A saved file is one run of the packets, it begins with a key frame    *)
(* and, ended by time, it lasts as long after the event as the cache does  *)
(* before it.                                                              *)
(***************************************************************************)
EXTENDS CacheMuxer, SequenceTheorems, FiniteSetTheorems, WellFoundedInduction, TLAPS

-----------------------------------------------------------------------------
(* The frames in a list.                                                   *)

Videos(s) == {i \in DOMAIN s : IsVideo(s[i])}
Ordered(s) == \A i, j \in Videos(s) : i < j => s[i].t < s[j].t
\* The video packets of s are the frames of the times a to b, each of them once.
Spans(s, a, b) ==
  /\ Ordered(s)
  /\ \A i \in Videos(s) : s[i].t \in a..b
  /\ \A t \in a..b : \E i \in Videos(s) : s[i].t = t
HasKey(s, t) == \E k \in KeyPositions(s) : s[k].t = t
\* Any Gop frames behind one another have a key frame among them.
Paced(s, a, b) == \A t \in a..(b - Gop) : \E u \in (t + 1)..(t + Gop) : HasKey(s, u)
\* The last key frame, since frames ago, is in the list unless it is too old.
KeepsKey(s, a, b, since) ==
  since > 0 /\ b - since + 1 >= a => HasKey(s, b - since + 1)
Group(s, a, b, since) == Spans(s, a, b) /\ Paced(s, a, b) /\ KeepsKey(s, a, b, since)
\* The packets of s are numbered one by one, after m.
Run(s, m) == \A i \in DOMAIN s : s[i].n = m + i

\* r is what is left of s without its first d packets.
IsRest(r, s, d) == /\ d \in 0..Len(s) /\ Len(r) = Len(s) - d
                   /\ \A i \in 1..Len(r) : r[i] = s[d + i]

LEMMA PacketFields ==
  ASSUME NEW s \in Seq(Packet)
  PROVE  /\ Len(s) \in Nat /\ DOMAIN s = 1..Len(s) /\ Videos(s) \subseteq 1..Len(s)
         /\ KeyPositions(s) \subseteq Videos(s)
         /\ \A i \in 1..Len(s) : s[i] \in Packet /\ s[i].t \in Nat /\ s[i].n \in Nat
<1>1. Len(s) \in Nat /\ DOMAIN s = 1..Len(s) /\ \A i \in 1..Len(s) : s[i] \in Packet
  BY LenProperties, ElementOfSeq
<1>2. \A p \in Packet : p.t \in Nat /\ p.n \in Nat
  BY ConstantsAssumption DEF ConstantsAssumption, Packet
<1>3. KeyPositions(s) \subseteq Videos(s)
  BY DEF KeyPositions, Videos, IsVideo
<1> QED BY <1>1, <1>2, <1>3 DEF Videos

\* Counting frames is counting times.
LEMMA SpanCount ==
  ASSUME NEW s \in Seq(Packet), NEW a \in Int, NEW b \in Int, NEW e \in Int,
         Spans(s, a, b), a <= e, e <= b + 1
  PROVE  Cardinality({i \in Videos(s) : s[i].t >= e}) = b + 1 - e
<1> DEFINE late == {i \in Videos(s) : s[i].t >= e}
           f == [i \in late |-> s[i].t]
<1>1. /\ Videos(s) \subseteq 1..Len(s) /\ Len(s) \in Nat
      /\ \A i \in 1..Len(s) : s[i].t \in Nat
  BY PacketFields
<1>2. f \in Bijection(late, e..b)
  <2>1. f \in [late -> e..b]
    BY <1>1 DEF Spans
  <2>2. ASSUME NEW i \in late, NEW j \in late, f[i] = f[j] PROVE i = j
    <3>1. i \in Videos(s) /\ j \in Videos(s) /\ i \in Nat /\ j \in Nat /\ s[i].t = s[j].t
          /\ s[i].t \in Nat
      BY <1>1, <2>2
    <3>2. ~(i < j) /\ ~(j < i)
      BY <3>1 DEF Spans, Ordered
    <3> QED BY <3>1, <3>2
  <2>3. ASSUME NEW t \in e..b PROVE \E i \in late : f[i] = t
    <3>1. t \in a..b
      OBVIOUS
    <3>2. PICK i \in Videos(s) : s[i].t = t
      BY <3>1 DEF Spans
    <3>3. i \in late
      BY <3>2
    <3> QED BY <3>2, <3>3
  <2> HIDE DEF f, late
  <2> QED BY <2>1, <2>2, <2>3 DEF Bijection, Injection, Surjection, IsInjective
<1>3. IsFiniteSet(late)
  <2>1. late \subseteq 1..Len(s) /\ IsFiniteSet(1..Len(s))
    BY <1>1, FS_Interval
  <2> QED BY <2>1, FS_Subset
<1>4. ExistsBijection(late, e..b)
  BY <1>2 DEF ExistsBijection
<1>5. Cardinality(late) = Cardinality(e..b)
  <2> HIDE DEF late
  <2> QED BY <1>3, <1>4, FS_Bijection
<1>6. Cardinality(e..b) = b + 1 - e
  BY FS_Interval
<1> QED BY <1>5, <1>6

LEMMA VideosCounted ==
  ASSUME NEW s \in Seq(Packet), NEW a \in Int, NEW b \in Int,
         Spans(s, a, b), a <= b + 1
  PROVE  VideoCount(s) = b + 1 - a
<1>1. {i \in Videos(s) : s[i].t >= a} = {i \in DOMAIN s : IsVideo(s[i])}
  BY DEF Videos, Spans
<1> QED BY <1>1, SpanCount DEF VideoCount

\* No frame at all.
LEMMA EmptySpan ==
  ASSUME NEW b \in Int, NEW since \in Nat
  PROVE  /\ Group(<<>>, b + 1, b, since)
         /\ \A m : Run(<<>>, m)
         /\ <<>> \in Seq(Packet)
<1>1. Videos(<<>>) = {} /\ DOMAIN <<>> = {}
  BY DEF Videos
<1>2. Gop \in Nat \ {0}
  BY ConstantsAssumption DEF ConstantsAssumption
<1>3. Paced(<<>>, b + 1, b)
  BY <1>2 DEF Paced
<1>4. KeepsKey(<<>>, b + 1, b, since)
  BY DEF KeepsKey
<1> QED BY <1>1, <1>3, <1>4 DEF Group, Spans, Ordered, Run

\* A list without its first d packets, which are the frames before c.
Left(r, s, a, c, b, d) ==
  /\ Spans(r, c, b)
  /\ \A t \in Int : t >= c /\ HasKey(s, t) => HasKey(r, t)
  /\ \A t \in Int : HasKey(r, t) => t >= c /\ HasKey(s, t)
  /\ \A since \in Nat : Group(s, a, b, since) => Group(r, c, b, since)
  /\ \A m \in Int : Run(s, m) => Run(r, m + d)

LEMMA RestGroup ==
  ASSUME NEW s \in Seq(Packet), NEW r \in Seq(Packet), NEW d \in Nat, IsRest(r, s, d),
         NEW a \in Int, NEW c \in Int, NEW b \in Int,
         Spans(s, a, b), a <= c, c <= b + 1,
         \A i \in Videos(s) : i > d <=> s[i].t >= c
  PROVE  Left(r, s, a, c, b, d)
<1>1. /\ Len(s) \in Nat /\ DOMAIN s = 1..Len(s) /\ Videos(s) \subseteq 1..Len(s)
      /\ \A i \in 1..Len(s) : s[i].t \in Nat /\ s[i].n \in Nat
      /\ Len(r) \in Nat /\ DOMAIN r = 1..Len(r) /\ Videos(r) \subseteq 1..Len(r)
      /\ KeyPositions(s) \subseteq Videos(s)
      /\ KeyPositions(r) \subseteq Videos(r)
  BY PacketFields
<1>2. \A i \in 1..Len(r) : d + i \in 1..Len(s) /\ d + i > d /\ r[i] = s[d + i]
  BY <1>1 DEF IsRest
<1>3. \A i \in Videos(r) : d + i \in Videos(s) /\ i \in 1..Len(r)
  BY <1>1, <1>2 DEF Videos
<1>4. \A i \in KeyPositions(r) : d + i \in KeyPositions(s) /\ i \in 1..Len(r)
  BY <1>1, <1>2 DEF KeyPositions
<1>5. ASSUME NEW i \in 1..Len(s), i > d PROVE /\ i - d \in 1..Len(r) /\ r[i - d] = s[i]
                                              /\ i \in Videos(s) => i - d \in Videos(r)
                                              /\ i \in KeyPositions(s) => i - d \in KeyPositions(r)
  <2>1. i - d \in 1..Len(r) /\ d + (i - d) = i
    BY <1>1, <1>5 DEF IsRest
  <2>2. r[i - d] = s[i]
    BY <2>1, <1>2
  <2> QED BY <2>1, <2>2, <1>1 DEF Videos, KeyPositions
<1>6. Spans(r, c, b)
  <2>1. Ordered(r)
    <3> SUFFICES ASSUME NEW i \in Videos(r), NEW j \in Videos(r), i < j PROVE r[i].t < r[j].t
      BY DEF Ordered
    <3>1. d + i < d + j
      BY <1>3
    <3> QED BY <3>1, <1>2, <1>3 DEF Spans, Ordered
  <2>2. ASSUME NEW i \in Videos(r) PROVE r[i].t \in c..b
    <3>1. d + i \in Videos(s) /\ d + i > d /\ r[i] = s[d + i]
      BY <1>2, <1>3
    <3> QED BY <3>1 DEF Spans
  <2>3. ASSUME NEW t \in c..b PROVE \E i \in Videos(r) : r[i].t = t
    <3>1. t \in a..b
      OBVIOUS
    <3>2. PICK i \in Videos(s) : s[i].t = t
      BY <3>1 DEF Spans
    <3>3. i > d /\ i \in 1..Len(s)
      BY <3>2, <1>1
    <3> QED BY <3>2, <3>3, <1>5
  <2> QED BY <2>1, <2>2, <2>3 DEF Spans
<1>7. ASSUME NEW t \in Int, t >= c, HasKey(s, t) PROVE HasKey(r, t)
  <2>1. PICK k \in KeyPositions(s) : s[k].t = t
    BY <1>7 DEF HasKey
  <2>2. k > d /\ k \in 1..Len(s)
    BY <2>1, <1>1, <1>7
  <2>3. k - d \in KeyPositions(r) /\ r[k - d] = s[k]
    BY <2>2, <1>5
  <2> QED BY <2>1, <2>3 DEF HasKey
<1>8. ASSUME NEW t \in Int, HasKey(r, t) PROVE t >= c /\ HasKey(s, t)
  <2>1. PICK k \in KeyPositions(r) : r[k].t = t
    BY <1>8 DEF HasKey
  <2>2. d + k \in KeyPositions(s) /\ d + k > d /\ r[k] = s[d + k] /\ d + k \in Videos(s)
    BY <1>1, <1>2, <1>4
  <2> QED BY <2>1, <2>2 DEF HasKey
<1>9. ASSUME NEW since \in Nat, Group(s, a, b, since) PROVE Group(r, c, b, since)
  <2>1. Paced(r, c, b)
    <3> SUFFICES ASSUME NEW t \in c..(b - Gop)
                 PROVE  \E u \in (t + 1)..(t + Gop) : HasKey(r, u)
      BY DEF Paced
    <3>1. Gop \in Nat
      BY ConstantsAssumption DEF ConstantsAssumption
    <3>2. t \in a..(b - Gop)
      BY <3>1
    <3>3. PICK u \in (t + 1)..(t + Gop) : HasKey(s, u)
      BY <3>2, <1>9 DEF Group, Paced
    <3>4. u >= c /\ u \in Int
      BY <3>1
    <3> QED BY <3>3, <3>4, <1>7
  <2>2. KeepsKey(r, c, b, since)
    BY <1>7, <1>9 DEF Group, KeepsKey
  <2> QED BY <2>1, <2>2, <1>6 DEF Group
<1>10. ASSUME NEW m \in Int, Run(s, m) PROVE Run(r, m + d)
  BY <1>1, <1>2, <1>10 DEF Run
<1> QED BY <1>6, <1>7, <1>8, <1>9, <1>10 DEF Left

-----------------------------------------------------------------------------
(* What an overflow leaves.                                                *)

LEMMA LeastOf ==
  ASSUME NEW T \in SUBSET Nat, T # {}
  PROVE  \E x \in T : \A y \in T : x <= y
<1> DEFINE less == OpToRel(<, Nat)
<1>1. \E x \in T : \A y \in T : ~(<<y, x>> \in less)
  <2> HIDE DEF less
  <2>1. IsWellFoundedOn(less, Nat)
    BY NatLessThanWellFounded DEF less
  <2> QED BY <2>1, WFMin
<1>2. \A x, y \in Nat : y < x => <<y, x>> \in less
  <2> SUFFICES ASSUME NEW x \in Nat, NEW y \in Nat, y < x PROVE <<y, x>> \in less
    OBVIOUS
  <2>1. <<y, x>> \in Nat \X Nat /\ <<y, x>>[1] < <<y, x>>[2]
    OBVIOUS
  <2> QED BY <2>1 DEF OpToRel
<1> HIDE DEF less
<1>3. PICK x \in T : \A y \in T : ~(<<y, x>> \in less)
  BY <1>1
<1>4. ASSUME NEW y \in T PROVE x <= y
  <2>1. ~(y < x)
    BY <1>2, <1>3
  <2> QED BY <2>1
<1> QED BY <1>4

\* With two key frames there is a second one, and it is not after the later.
LEMMA SecondKey ==
  ASSUME NEW s \in Seq(Packet), NEW j \in KeyPositions(s), NEW k \in KeyPositions(s), j < k
  PROVE  /\ \E i \in DOMAIN s : IsSecondKey(s, i)
         /\ \A i \in DOMAIN s : IsSecondKey(s, i) => i <= k
<1>1. Len(s) \in Nat /\ DOMAIN s = 1..Len(s) /\ KeyPositions(s) \subseteq 1..Len(s)
  BY PacketFields DEF KeyPositions
<1>2. KeyPositions(s) \in SUBSET Nat /\ KeyPositions(s) # {}
  BY <1>1
<1>3. PICK x \in KeyPositions(s) : \A y \in KeyPositions(s) : x <= y
  BY <1>2, LeastOf
<1>4. KeyPositions(s) \ {x} \in SUBSET Nat /\ KeyPositions(s) \ {x} # {}
  BY <1>2
<1>5. PICK z \in KeyPositions(s) \ {x} : \A y \in KeyPositions(s) \ {x} : z <= y
  BY <1>4, LeastOf
<1>6. {y \in KeyPositions(s) : y < z} = {x}
  <2>1. x < z
    BY <1>2, <1>3, <1>5
  <2>2. \A y \in KeyPositions(s) : y < z => y = x
    BY <1>2, <1>5
  <2> QED BY <2>1, <2>2
<1>7. IsSecondKey(s, z) /\ z \in DOMAIN s
  BY <1>1, <1>5, <1>6, FS_Singleton DEF IsSecondKey
<1>8. ASSUME NEW i \in DOMAIN s, IsSecondKey(s, i), i > k PROVE FALSE
  <2> DEFINE before == {y \in KeyPositions(s) : y < i}
  <2>1. IsFiniteSet(before)
    <3>1. before \in SUBSET (1..Len(s)) /\ IsFiniteSet(1..Len(s))
      BY <1>1, FS_Interval
    <3> QED BY <3>1, FS_Subset
  <2>2. Cardinality(before) = 1
    BY <1>8 DEF IsSecondKey
  <2>3. j \in before /\ k \in before /\ j # k
    BY <1>1, <1>8
  <2> HIDE DEF before
  <2>4. PICK x1 : before = {x1}
    BY <2>1, <2>2, FS_Singleton
  <2> QED BY <2>3, <2>4
<1>9. ASSUME NEW i \in DOMAIN s, IsSecondKey(s, i) PROVE i <= k
  BY <1>1, <1>8, <1>9
<1> QED BY <1>7, <1>9

\* Which packets a list begins with, and how many went.
LEMMA DropRest ==
  ASSUME NEW s \in Seq(Packet), NEW a \in Int, NEW b \in Int, Spans(s, a, b), a <= b
  PROVE  \E d \in Nat, c \in (a + 1)..(b + 1) :
           /\ DropTo(s) \in Seq(Packet) /\ IsRest(DropTo(s), s, d)
           /\ \A i \in Videos(s) : i > d <=> s[i].t >= c
           /\ c <= b => IsSecondKey(s, d + 1) /\ s[d + 1].t = c
           /\ c = b + 1 => ~\E i \in DOMAIN s : IsSecondKey(s, i)
<1>1. /\ Len(s) \in Nat /\ DOMAIN s = 1..Len(s) /\ Videos(s) \subseteq 1..Len(s)
      /\ KeyPositions(s) \subseteq Videos(s)
      /\ \A i \in 1..Len(s) : s[i] \in Packet /\ s[i].t \in Nat
  BY PacketFields
<1>2. CASE \E i \in DOMAIN s : IsSecondKey(s, i)
  <2> DEFINE i == CHOOSE i \in DOMAIN s : IsSecondKey(s, i)
  <2>1. i \in 1..Len(s) /\ IsSecondKey(s, i) /\ DropTo(s) = SubSeq(s, i, Len(s))
    BY <1>1, <1>2 DEF DropTo
  <2> HIDE DEF i
  <2>2. /\ DropTo(s) \in Seq(Packet) /\ Len(DropTo(s)) = Len(s) - i + 1
        /\ \A j \in 1..(Len(s) - i + 1) : DropTo(s)[j] = s[i + j - 1]
    BY <2>1, <1>1, SubSeqProperties
  <2>3. IsRest(DropTo(s), s, i - 1)
    <3>1. \A j \in 1..Len(DropTo(s)) : i + j - 1 = (i - 1) + j
      BY <1>1, <2>1, <2>2
    <3> QED BY <3>1, <1>1, <2>1, <2>2 DEF IsRest
  <2>4. i \in Videos(s)
    BY <1>1, <2>1 DEF IsSecondKey
  <2>5. \A j \in Videos(s) : j > i - 1 <=> s[j].t >= s[i].t
    <3> SUFFICES ASSUME NEW j \in Videos(s) PROVE j > i - 1 <=> s[j].t >= s[i].t
      OBVIOUS
    <3>1. j \in Nat /\ i \in Nat /\ s[j].t \in Nat /\ s[i].t \in Nat
      BY <1>1, <2>4
    <3>2. (j < i => s[j].t < s[i].t) /\ (i < j => s[i].t < s[j].t)
      BY <2>4 DEF Spans, Ordered
    <3> QED BY <3>1, <3>2
  <2>6. s[i].t \in (a + 1)..b
    <3> DEFINE before == {y \in KeyPositions(s) : y < i}
    <3>1. Cardinality(before) = 1
      BY <2>1 DEF IsSecondKey
    <3>2. before # {}
      BY <3>1, FS_EmptySet
    <3>3. PICK y \in before : TRUE
      BY <3>2
    <3>4. y \in Videos(s) /\ y < i
      BY <1>1, <3>3
    <3>5. s[y].t \in a..b /\ s[i].t \in a..b /\ s[y].t < s[i].t
      BY <2>4, <3>4 DEF Spans, Ordered
    <3> QED BY <3>5
  <2>7. i - 1 \in Nat /\ (i - 1) + 1 = i /\ s[i].t \in (a + 1)..(b + 1) /\ s[i].t # b + 1
    BY <1>1, <2>1, <2>6
  <2> QED BY <2>1, <2>2, <2>3, <2>5, <2>7
<1>3. CASE ~\E i \in DOMAIN s : IsSecondKey(s, i)
  <2>1. DropTo(s) = <<>> /\ <<>> \in Seq(Packet) /\ Len(<<>>) = 0
    BY <1>3 DEF DropTo
  <2>2. IsRest(<<>>, s, Len(s))
    BY <1>1 DEF IsRest
  <2>3. \A i \in Videos(s) : i > Len(s) <=> s[i].t >= b + 1
    <3> SUFFICES ASSUME NEW i \in Videos(s) PROVE ~(i > Len(s)) /\ ~(s[i].t >= b + 1)
      OBVIOUS
    <3>1. s[i].t \in a..b /\ i \in 1..Len(s)
      BY <1>1 DEF Spans
    <3> QED BY <3>1
  <2>4. Len(s) \in Nat /\ b + 1 \in (a + 1)..(b + 1) /\ ~(b + 1 <= b)
    BY <1>1
  <2> QED BY <1>3, <2>1, <2>2, <2>3, <2>4
<1> QED BY <1>2, <1>3

\* Where the keys are, so are their positions.
LEMMA KeysInOrder ==
  ASSUME NEW s \in Seq(Packet), NEW t \in Int, NEW u \in Int, Ordered(s),
         HasKey(s, t), HasKey(s, u), t < u
  PROVE  /\ \E i \in DOMAIN s : IsSecondKey(s, i)
         /\ \A i \in DOMAIN s : IsSecondKey(s, i) => s[i].t <= u
<1>1. /\ Len(s) \in Nat /\ DOMAIN s = 1..Len(s) /\ Videos(s) \subseteq 1..Len(s)
      /\ KeyPositions(s) \subseteq Videos(s)
      /\ \A i \in 1..Len(s) : s[i].t \in Nat
  BY PacketFields
<1>2. PICK j \in KeyPositions(s) : s[j].t = t
  BY DEF HasKey
<1>3. PICK k \in KeyPositions(s) : s[k].t = u
  BY DEF HasKey
<1>4. j \in Videos(s) /\ k \in Videos(s) /\ j \in Nat /\ k \in Nat
  BY <1>1
<1>5. j < k
  <2>1. k < j => s[k].t < s[j].t
    BY <1>4 DEF Ordered
  <2> QED BY <1>2, <1>3, <1>4, <2>1
<1>6. /\ \E i \in DOMAIN s : IsSecondKey(s, i)
      /\ \A i \in DOMAIN s : IsSecondKey(s, i) => i <= k
  BY <1>5, SecondKey
<1>7. ASSUME NEW i \in DOMAIN s, IsSecondKey(s, i) PROVE s[i].t <= u
  <2>1. i \in Videos(s) /\ i <= k /\ i \in Nat /\ s[i].t \in Nat
    BY <1>1, <1>6, <1>7 DEF IsSecondKey
  <2>2. i < k => s[i].t < s[k].t
    BY <2>1, <1>4 DEF Ordered
  <2> QED BY <2>1, <2>2, <1>3, <1>4
<1> QED BY <1>6, <1>7

\* An overflow of a group leaves a later group, which begins with a key frame
\* unless it is empty.  It goes no further than two distances of the key frames,
\* one if the list begins with one.
LEMMA DropGroup ==
  ASSUME NEW s \in Seq(Packet), NEW a \in Int, NEW b \in Int, NEW since \in Nat,
         Group(s, a, b, since), a <= b
  PROVE  \E d \in Nat, c \in (a + 1)..(b + 1) :
           /\ DropTo(s) \in Seq(Packet) /\ Len(DropTo(s)) = Len(s) - d
           /\ Group(DropTo(s), c, b, since)
           /\ \A m \in Int : Run(s, m) => Run(DropTo(s), m + d)
           /\ c <= b => HasKey(DropTo(s), c)
           /\ a + 2 * Gop <= b => c <= a + 2 * Gop
           /\ HasKey(s, a) /\ a + Gop <= b => c <= a + Gop
<1> DEFINE r == DropTo(s)
<1>1. PICK d \in Nat, c \in (a + 1)..(b + 1) :
           /\ DropTo(s) \in Seq(Packet) /\ IsRest(DropTo(s), s, d)
           /\ \A i \in Videos(s) : i > d <=> s[i].t >= c
           /\ c <= b => IsSecondKey(s, d + 1) /\ s[d + 1].t = c
           /\ c = b + 1 => ~\E i \in DOMAIN s : IsSecondKey(s, i)
  BY DropRest DEF Group
<1>2. Spans(s, a, b) /\ Ordered(s) /\ Gop \in Nat \ {0}
  BY ConstantsAssumption DEF Group, Spans, ConstantsAssumption
<1>3. /\ Spans(r, c, b)
      /\ \A t \in Int : t >= c /\ HasKey(s, t) => HasKey(r, t)
      /\ Group(r, c, b, since)
      /\ \A m \in Int : Run(s, m) => Run(r, m + d)
  <2>1. a <= c /\ c <= b + 1 /\ a \in Int /\ c \in Int /\ b \in Int /\ r \in Seq(Packet)
        /\ d \in Nat /\ IsRest(r, s, d) /\ \A i \in Videos(s) : i > d <=> s[i].t >= c
    BY <1>1
  <2> HIDE DEF r
  <2>2. Left(r, s, a, c, b, d)
    BY <2>1, <1>2, RestGroup
  <2> QED BY <2>2 DEF Left
<1>4. Len(r) = Len(s) - d
  BY <1>1 DEF IsRest
<1>5. c <= b => HasKey(r, c)
  <2> SUFFICES ASSUME c <= b PROVE HasKey(r, c)
    OBVIOUS
  <2>1. HasKey(s, c)
    BY <1>1 DEF HasKey, IsSecondKey
  <2> QED BY <2>1, <1>3
<1>6. ASSUME NEW t \in Int, NEW u \in Int, HasKey(s, t), HasKey(s, u), t < u
      PROVE  c <= u
  <2>1. /\ \E i \in DOMAIN s : IsSecondKey(s, i)
        /\ \A i \in DOMAIN s : IsSecondKey(s, i) => s[i].t <= u
    BY <1>2, <1>6, KeysInOrder
  <2>2. c <= b
    BY <1>1, <2>1
  <2>3. IsSecondKey(s, d + 1) /\ s[d + 1].t = c /\ d + 1 \in DOMAIN s
    BY <1>1, <2>2 DEF IsSecondKey, KeyPositions
  <2> QED BY <2>1, <2>3
<1>7. ASSUME NEW t \in Int, t >= a, t + Gop <= b
      PROVE  \E u \in (t + 1)..(t + Gop) : HasKey(s, u)
  <2>1. t \in a..(b - Gop)
    BY <1>2, <1>7
  <2> QED BY <2>1 DEF Group, Paced
<1>8. ASSUME a + 2 * Gop <= b PROVE c <= a + 2 * Gop
  <2>1. PICK t \in (a + 1)..(a + Gop) : HasKey(s, t)
    BY <1>2, <1>7, <1>8
  <2>2. t \in Int /\ t >= a /\ t + Gop <= b
    BY <1>2, <1>8
  <2>3. PICK u \in (t + 1)..(t + Gop) : HasKey(s, u)
    BY <2>2, <1>7
  <2>4. c <= u
    BY <2>1, <2>3, <1>6
  <2> QED BY <2>4, <1>2
<1>9. ASSUME HasKey(s, a), a + Gop <= b PROVE c <= a + Gop
  <2>1. PICK u \in (a + 1)..(a + Gop) : HasKey(s, u)
    BY <1>7, <1>9
  <2>2. c <= u
    BY <2>1, <1>6, <1>9
  <2> QED BY <2>2, <1>2
<1> QED BY <1>1, <1>3, <1>4, <1>5, <1>8, <1>9

-----------------------------------------------------------------------------
(* What a push leaves.                                                     *)

\* Packet p comes when b frames and since have come, and makes them b2 and since2.
Follows(p, b, since, b2, since2) ==
  \/ p.kind = "audio" /\ b2 = b /\ since2 = since
  \/ /\ b2 = b + 1 /\ p.t = b2
     /\ \/ p.kind = "key" /\ since2 = 1
        \/ p.kind = "delta" /\ since \in 1..(Gop - 1) /\ since2 = since + 1

LEMMA AppendSpan ==
  ASSUME NEW s \in Seq(Packet), NEW a \in Int, NEW b \in Int, Spans(s, a, b), a <= b + 1,
         NEW p \in Packet, NEW b2,
         \/ p.kind = "audio" /\ b2 = b
         \/ p.kind \in {"key", "delta"} /\ b2 = b + 1 /\ p.t = b2
  PROVE  /\ Append(s, p) \in Seq(Packet) /\ Len(Append(s, p)) = Len(s) + 1
         /\ Spans(Append(s, p), a, b2)
         /\ \A t \in Int : HasKey(s, t) => HasKey(Append(s, p), t)
         /\ p.kind = "key" => HasKey(Append(s, p), b2)
         /\ \A m \in Int : Run(s, m) /\ p.n = m + Len(s) + 1 => Run(Append(s, p), m)
<1> DEFINE q == Append(s, p)
           l == Len(s)
<1>1. /\ l \in Nat /\ DOMAIN s = 1..l /\ Videos(s) \subseteq 1..l
      /\ KeyPositions(s) \subseteq Videos(s)
      /\ \A i \in 1..l : s[i] \in Packet /\ s[i].t \in Nat
  BY PacketFields
<1>2. /\ q \in Seq(Packet) /\ Len(q) = l + 1
      /\ \A i \in 1..l : q[i] = s[i]
      /\ q[l + 1] = p
  BY AppendProperties
<1>3. DOMAIN q = 1..(l + 1) /\ KeyPositions(q) \subseteq Videos(q)
  BY <1>2, PacketFields
<1> HIDE DEF q, l
<1>4. \A i \in 1..l : (i \in Videos(q) <=> i \in Videos(s))
                      /\ (i \in KeyPositions(q) <=> i \in KeyPositions(s))
  BY <1>1, <1>2, <1>3 DEF Videos, KeyPositions
<1>5. \A i \in Videos(q) : i \in Videos(s) \/ (i = l + 1 /\ IsVideo(p))
  BY <1>1, <1>2, <1>3, <1>4 DEF Videos
<1>6. ASSUME NEW t \in Int, HasKey(s, t) PROVE HasKey(q, t)
  BY <1>1, <1>2, <1>4, <1>6 DEF HasKey
<1>7. ASSUME p.kind = "key" PROVE HasKey(q, b2)
  <2>1. l + 1 \in KeyPositions(q)
    BY <1>1, <1>2, <1>3, <1>7 DEF KeyPositions
  <2>2. p.t = b2
    BY <1>7
  <2> QED BY <2>1, <2>2, <1>2 DEF HasKey
<1>8. ASSUME NEW m \in Int, Run(s, m), p.n = m + l + 1 PROVE Run(q, m)
  <2> SUFFICES ASSUME NEW i \in 1..(l + 1) PROVE q[i].n = m + i
    BY <1>3 DEF Run
  <2>1. CASE i = l + 1
    BY <2>1, <1>1, <1>2, <1>8
  <2>2. CASE i \in 1..l
    BY <2>2, <1>1, <1>2, <1>8 DEF Run
  <2> QED BY <2>1, <2>2, <1>1
<1>9. CASE p.kind = "audio"
  <2>1. b2 = b /\ ~IsVideo(p)
    BY <1>9 DEF IsVideo
  <2>2. Videos(q) = Videos(s)
    BY <2>1, <1>1, <1>4, <1>5
  <2>3. Spans(q, a, b)
    BY <2>2, <1>1, <1>2 DEF Spans, Ordered
  <2> QED BY <2>1, <2>3, <1>2, <1>6, <1>7, <1>8 DEF q, l
<1>10. CASE p.kind # "audio"
  <2>1. b2 = b + 1 /\ p.t = b2 /\ IsVideo(p)
    BY <1>10 DEF IsVideo
  <2>2. l + 1 \in Videos(q)
    BY <2>1, <1>1, <1>2, <1>3 DEF Videos
  <2>3. Ordered(q)
    <3> SUFFICES ASSUME NEW i \in Videos(q), NEW j \in Videos(q), i < j
                 PROVE  q[i].t < q[j].t
      BY DEF Ordered
    <3>1. i \in Videos(s) /\ i \in 1..l
      BY <1>1, <1>3, <1>5 DEF Videos
    <3>2. CASE j \in Videos(s)
      BY <3>1, <3>2, <1>1, <1>2 DEF Spans, Ordered
    <3>3. CASE j = l + 1
      BY <3>1, <3>3, <2>1, <1>2 DEF Spans
    <3> QED BY <3>2, <3>3, <1>5
  <2>4. ASSUME NEW i \in Videos(q) PROVE q[i].t \in a..b2
    <3>1. CASE i \in Videos(s)
      BY <3>1, <2>1, <1>1, <1>2 DEF Spans
    <3>2. CASE i = l + 1
      BY <3>2, <2>1, <1>2
    <3> QED BY <3>1, <3>2, <1>5
  <2>5. ASSUME NEW t \in a..b2 PROVE \E i \in Videos(q) : q[i].t = t
    <3>1. CASE t = b2
      BY <3>1, <2>1, <2>2, <1>2
    <3>2. CASE t \in a..b
      <4>1. PICK i \in Videos(s) : s[i].t = t
        BY <3>2 DEF Spans
      <4> QED BY <4>1, <1>1, <1>2, <1>4
    <3> QED BY <3>1, <3>2, <2>1
  <2>6. Spans(q, a, b2)
    BY <2>3, <2>4, <2>5 DEF Spans
  <2> QED BY <2>6, <1>2, <1>6, <1>7, <1>8 DEF q, l
<1> QED BY <1>9, <1>10

LEMMA AppendGroup ==
  ASSUME NEW s \in Seq(Packet), NEW a \in Int, NEW b \in Int, NEW since \in Nat,
         Group(s, a, b, since), a <= b + 1,
         NEW p \in Packet, NEW b2, NEW since2, Follows(p, b, since, b2, since2)
  PROVE  /\ Append(s, p) \in Seq(Packet) /\ Len(Append(s, p)) = Len(s) + 1
         /\ Group(Append(s, p), a, b2, since2)
         /\ \A t \in Int : HasKey(s, t) => HasKey(Append(s, p), t)
         /\ p.kind = "key" => HasKey(Append(s, p), b2)
         /\ \A m \in Int : Run(s, m) /\ p.n = m + Len(s) + 1 => Run(Append(s, p), m)
<1> DEFINE q == Append(s, p)
           l == Len(s)
<1>1. /\ q \in Seq(Packet) /\ Len(q) = l + 1
      /\ Spans(q, a, b2)
      /\ \A t \in Int : HasKey(s, t) => HasKey(q, t)
      /\ p.kind = "key" => HasKey(q, b2)
      /\ \A m \in Int : Run(s, m) /\ p.n = m + l + 1 => Run(q, m)
  <2>1. Spans(s, a, b)
    BY DEF Group
  <2>2. \/ p.kind = "audio" /\ b2 = b
        \/ p.kind \in {"key", "delta"} /\ b2 = b + 1 /\ p.t = b2
    BY DEF Follows
  <2> QED BY <2>1, <2>2, AppendSpan
<1> HIDE DEF q, l
<1>2. Gop \in Nat \ {0}
  BY ConstantsAssumption DEF ConstantsAssumption
<1>3. ASSUME NEW t \in a..(b - Gop) PROVE \E u \in (t + 1)..(t + Gop) : HasKey(q, u)
  <2>1. PICK u \in (t + 1)..(t + Gop) : HasKey(s, u)
    BY DEF Group, Paced
  <2> QED BY <2>1, <1>1, <1>2
<1>4. CASE p.kind = "audio"
  <2>1. b2 = b /\ since2 = since
    BY <1>4 DEF Follows
  <2>2. Paced(q, a, b)
    BY <1>3 DEF Paced
  <2>3. KeepsKey(q, a, b, since)
    BY <1>1 DEF Group, KeepsKey
  <2> QED BY <2>1, <2>2, <2>3, <1>1 DEF Group, q, l
<1>5. CASE p.kind = "key"
  <2>1. b2 = b + 1 /\ since2 = 1 /\ HasKey(q, b2)
    BY <1>1, <1>5 DEF Follows
  <2>2. Paced(q, a, b2)
    <3> SUFFICES ASSUME NEW t \in a..(b2 - Gop)
                 PROVE  \E u \in (t + 1)..(t + Gop) : HasKey(q, u)
      BY DEF Paced
    <3>1. CASE t = b2 - Gop
      BY <3>1, <2>1, <1>2
    <3>2. CASE t \in a..(b - Gop)
      BY <3>2, <1>3
    <3> QED BY <3>1, <3>2, <2>1, <1>2
  <2>3. KeepsKey(q, a, b2, since2)
    <3>1. b2 - since2 + 1 = b2
      BY <2>1
    <3> QED BY <3>1, <2>1 DEF KeepsKey
  <2> QED BY <2>2, <2>3, <1>1 DEF Group, q, l
<1>6. CASE p.kind = "delta"
  <2>1. /\ b2 = b + 1 /\ since \in 1..(Gop - 1) /\ since2 = since + 1
        /\ b2 - since2 + 1 = b - since + 1
    BY <1>6 DEF Follows
  <2>2. b - since + 1 >= a => HasKey(q, b - since + 1)
    BY <2>1, <1>1 DEF Group, KeepsKey
  <2>3. KeepsKey(q, a, b2, since2)
    BY <2>1, <2>2 DEF KeepsKey
  <2>4. Paced(q, a, b2)
    <3> SUFFICES ASSUME NEW t \in a..(b2 - Gop)
                 PROVE  \E u \in (t + 1)..(t + Gop) : HasKey(q, u)
      BY DEF Paced
    <3>1. CASE t = b2 - Gop
      <4>1. b - since + 1 >= a /\ b - since + 1 \in (t + 1)..(t + Gop)
        BY <3>1, <2>1, <1>2
      <4> QED BY <4>1, <2>2
    <3>2. CASE t \in a..(b - Gop)
      BY <3>2, <1>3
    <3> QED BY <3>1, <3>2, <2>1, <1>2
  <2> QED BY <2>3, <2>4, <1>1 DEF Group, q, l
<1> QED BY <1>4, <1>5, <1>6 DEF Follows

\* A push drops nothing from a list that is not over its length.
LEMMA PushKeeps ==
  ASSUME NEW s \in Seq(Packet), NEW a \in Int, NEW b \in Int,
         Spans(s, a, b), a <= b + 1, NEW max \in Nat, b + 1 - a <= max, NEW p
  PROVE  Pushed(s, max, p) = Append(s, p)
<1>1. VideoCount(s) = b + 1 - a
  BY VideosCounted
<1> QED BY <1>1 DEF Pushed

\* What a push leaves of list s, of the frames from a to b, that overflows: list q
\* without the first d packets, of the frames from c on.
Overflown(q, s, a, b, p, b2, since2, d, c) ==
  /\ q \in Seq(Packet) /\ Len(q) = Len(s) - d + 1
  /\ Group(q, c, b2, since2)
  /\ \A m \in Int : Run(s, m) /\ p.n = m + Len(s) + 1 => Run(q, m + d)
  /\ c <= b => HasKey(q, c)
  /\ a + 2 * Gop <= b => c <= a + 2 * Gop
  /\ HasKey(s, a) /\ a + Gop <= b => c <= a + Gop

\* A push into a list that is too long drops what an overflow drops.
LEMMA PushDrops ==
  ASSUME NEW s \in Seq(Packet), NEW a \in Int, NEW b \in Int, NEW since \in Nat,
         Group(s, a, b, since), a <= b + 1, NEW max \in Nat, b + 1 - a > max,
         NEW p \in Packet, NEW b2, NEW since2, Follows(p, b, since, b2, since2)
  PROVE  \E d \in Nat, c \in (a + 1)..(b + 1) :
           Overflown(Pushed(s, max, p), s, a, b, p, b2, since2, d, c)
<1>1. VideoCount(s) = b + 1 - a /\ a <= b
  BY VideosCounted DEF Group
<1>2. Pushed(s, max, p) = Append(DropTo(s), p)
  BY <1>1 DEF Pushed
<1>3. PICK d \in Nat, c \in (a + 1)..(b + 1) :
           /\ DropTo(s) \in Seq(Packet) /\ Len(DropTo(s)) = Len(s) - d
           /\ Group(DropTo(s), c, b, since)
           /\ \A m \in Int : Run(s, m) => Run(DropTo(s), m + d)
           /\ c <= b => HasKey(DropTo(s), c)
           /\ a + 2 * Gop <= b => c <= a + 2 * Gop
           /\ HasKey(s, a) /\ a + Gop <= b => c <= a + Gop
  BY <1>1, DropGroup
<1> DEFINE r == DropTo(s)
<1>4. r \in Seq(Packet) /\ Group(r, c, b, since) /\ c \in Int /\ c <= b + 1 /\ Len(s) \in Nat
  BY <1>3, LenProperties
<1>5. /\ Append(r, p) \in Seq(Packet) /\ Len(Append(r, p)) = Len(r) + 1
      /\ Group(Append(r, p), c, b2, since2)
      /\ \A t \in Int : HasKey(r, t) => HasKey(Append(r, p), t)
      /\ p.kind = "key" => HasKey(Append(r, p), b2)
      /\ \A m \in Int : Run(r, m) /\ p.n = m + Len(r) + 1 => Run(Append(r, p), m)
  <2> HIDE DEF r
  <2> QED BY <1>4, AppendGroup
<1>6. ASSUME NEW m \in Int, Run(s, m), p.n = m + Len(s) + 1
      PROVE  Run(Append(r, p), m + d)
  <2>1. m + d \in Int /\ p.n = (m + d) + Len(r) + 1
    BY <1>3, <1>4, <1>6
  <2> QED BY <2>1, <1>3, <1>5, <1>6
<1>7. Overflown(Append(r, p), s, a, b, p, b2, since2, d, c)
  BY <1>3, <1>4, <1>5, <1>6 DEF Overflown
<1> QED BY <1>2, <1>7

\* The queue after each packet is found one way only.
LEMMA MovedBy ==
  ASSUME NEW list \in Seq(Packet), NEW g,
         g = [i \in 0..Len(list) |-> IF i = 0 THEN <<>> ELSE SavePush(g[i - 1], list[i])]
  PROVE  Moved(<<>>, list) = g[Len(list)]
<1> DEFINE l == Len(list)
           P(f) == f = [i \in 0..l |-> IF i = 0 THEN <<>> ELSE SavePush(f[i - 1], list[i])]
           after == CHOOSE f : P(f)
<1>1. l \in Nat
  BY PacketFields
<1>2. P(g)
  OBVIOUS
<1>3. P(after)
  <2> HIDE DEF P
  <2> QED BY <1>2
<1>4. Moved(<<>>, list) = after[l]
  BY DEF Moved
<1>5. \A j \in 0..l : /\ after[j] = IF j = 0 THEN <<>> ELSE SavePush(after[j - 1], list[j])
                      /\ g[j] = IF j = 0 THEN <<>> ELSE SavePush(g[j - 1], list[j])
  <2> HIDE DEF after
  <2> QED BY <1>2, <1>3
<1> DEFINE bad == {i \in 0..l : after[i] # g[i]}
<1>6. ASSUME bad # {} PROVE FALSE
  <2>1. bad \in SUBSET Nat
    BY <1>1
  <2> HIDE DEF bad, after, P
  <2>2. PICK i \in bad : \A j \in bad : i <= j
    BY <1>6, <2>1, LeastOf
  <2> USE DEF bad
  <2>3. i # 0
    BY <1>5, <2>2
  <2>4. i \in 1..l /\ i - 1 \in 0..l /\ ~(i <= i - 1)
    BY <2>2, <2>3, <1>1
  <2>5. after[i - 1] = g[i - 1]
    BY <2>2, <2>4
  <2> QED BY <1>5, <2>2, <2>3, <2>5
<1>7. l \in 0..l
  BY <1>1
<1> HIDE DEF after
<1> QED BY <1>4, <1>6, <1>7

\* What StoreMove's loop does to a list that fits: it moves all of it.
LEMMA MovedIsList ==
  ASSUME NEW list \in Seq(Packet), NEW a \in Int, NEW b \in Int,
         Spans(list, a, b), a <= b + 1, b - a <= Window, Accepts
  PROVE  Moved(<<>>, list) = list
<1> DEFINE l == Len(list)
           g == [i \in 0..l |-> SubSeq(list, 1, i)]
<1>1. /\ l \in Nat /\ DOMAIN list = 1..l /\ Videos(list) \subseteq 1..l
      /\ \A i \in 1..l : list[i] \in Packet /\ list[i].t \in Nat
  BY PacketFields
<1>2. Window \in Nat /\ Window >= 1 /\ MaxSaved = 2 * Window /\ MaxSaved \in Nat
  BY ConstantsAssumption DEF ConstantsAssumption, MaxSaved
<1>3. ASSUME NEW i \in 1..l
      PROVE  SavePush(SubSeq(list, 1, i - 1), list[i]) = SubSeq(list, 1, i)
  <2> DEFINE s == SubSeq(list, 1, i - 1)
  <2>1. /\ s \in Seq(Packet) /\ Len(s) = i - 1
        /\ \A j \in 1..(i - 1) : s[j] = list[j]
    <3>1. \A j \in 1..(i - 1) : list[j] \in Packet
      BY <1>1
    <3>2. 1 \in Int /\ i - 1 \in Int /\ (i - 1) - 1 + 1 = i - 1 /\ \A j \in Int : 1 + j - 1 = j
      BY <1>1
    <3>3. /\ SubSeq(list, 1, i - 1) \in Seq(Packet)
          /\ Len(SubSeq(list, 1, i - 1)) = IF 1 <= i - 1 THEN (i - 1) - 1 + 1 ELSE 0
          /\ \A j \in 1..((i - 1) - 1 + 1) : SubSeq(list, 1, i - 1)[j] = list[1 + j - 1]
      BY <3>1, <3>2, SubSeqProperties
    <3> QED BY <3>2, <3>3, <1>1
  <2> HIDE DEF s
  <2>2. VideoCount(s) <= MaxSaved
    <3> DEFINE A == {j \in DOMAIN s : IsVideo(s[j])}
               B == {j \in DOMAIN list : IsVideo(list[j])}
    <3>1. A \subseteq B
      BY <1>1, <2>1, PacketFields
    <3>2. IsFiniteSet(B)
      <4>1. B \subseteq 1..l /\ IsFiniteSet(1..l)
        BY <1>1, FS_Interval
      <4> QED BY <4>1, FS_Subset
    <3>3. Cardinality(A) <= Cardinality(B)
      BY <3>1, <3>2, FS_Subset
    <3>4. Cardinality(B) = b + 1 - a
      BY VideosCounted DEF VideoCount
    <3>5. VideoCount(s) = Cardinality(A) /\ Cardinality(A) \in Nat
      <4>1. IsFiniteSet(A)
        BY <3>1, <3>2, FS_Subset
      <4> QED BY <4>1, FS_CardinalityType DEF VideoCount
    <3> HIDE DEF A, B
    <3> QED BY <3>3, <3>4, <3>5, <1>2
  <2>3. SavePush(s, list[i]) = Append(s, list[i])
    <3>1. VideoCount(s) \in Int /\ ~(VideoCount(s) > MaxSaved)
      <4>1. IsFiniteSet({j \in DOMAIN s : IsVideo(s[j])})
        <5>1. {j \in DOMAIN s : IsVideo(s[j])} \subseteq 1..Len(s) /\ Len(s) \in Nat
          BY <2>1, PacketFields
        <5>2. IsFiniteSet(1..Len(s))
          BY <5>1, FS_Interval
        <5> QED BY <5>1, <5>2, FS_Subset
      <4>2. VideoCount(s) \in Nat
        BY <4>1, FS_CardinalityType DEF VideoCount
      <4> QED BY <4>2, <2>2, <1>2
    <3> QED BY <3>1 DEF SavePush, Pushed
  <2>4. SubSeq(list, 1, i) = SubSeq(list, 1, i - 1) \o <<list[i]>>
    BY <1>1, SubSeqRecursiveSecond
  <2>5. Append(s, list[i]) = s \o <<list[i]>>
    BY <2>1, <1>1, AppendIsConcat
  <2> QED BY <2>3, <2>4, <2>5 DEF s
<1>4. g = [i \in 0..l |-> IF i = 0 THEN <<>> ELSE SavePush(g[i - 1], list[i])]
  <2> DEFINE h == [i \in 0..l |-> IF i = 0 THEN <<>> ELSE SavePush(g[i - 1], list[i])]
  <2>1. ASSUME NEW i \in 0..l PROVE g[i] = h[i]
    <3>1. CASE i = 0
      <4>1. SubSeq(list, 1, 0) = <<>>
        BY SubSeqEmpty
      <4> QED BY <3>1, <4>1
    <3>2. CASE i # 0
      <4>1. i \in 1..l /\ i - 1 \in 0..l
        BY <3>2, <1>1
      <4>2. g[i - 1] = SubSeq(list, 1, i - 1) /\ g[i] = SubSeq(list, 1, i)
        BY <4>1
      <4>3. SavePush(SubSeq(list, 1, i - 1), list[i]) = SubSeq(list, 1, i)
        BY <4>1, <1>3
      <4>4. h[i] = SavePush(g[i - 1], list[i])
        BY <4>1, <3>2
      <4> HIDE DEF g, h
      <4> QED BY <4>2, <4>3, <4>4
    <3> QED BY <3>1, <3>2
  <2>2. g = [i \in 0..l |-> g[i]] /\ h = [i \in 0..l |-> h[i]]
    OBVIOUS
  <2>3. g = h
    <3> HIDE DEF g, h
    <3>1. [i \in 0..l |-> g[i]] = [i \in 0..l |-> h[i]]
      BY <2>1
    <3> QED BY <2>2, <3>1
  <2> QED BY <2>3
<1>5. g[l] = list
  BY <1>1, SubSeqFull
<1> HIDE DEF g
<1> QED BY <1>4, <1>5, MovedBy

\* After a failure the muxer takes nothing.
LEMMA MovedNothing ==
  ASSUME NEW list \in Seq(Packet), ~Accepts
  PROVE  Moved(<<>>, list) = <<>>
<1> DEFINE g == [i \in 0..Len(list) |-> <<>>]
<1>1. Len(list) \in Nat
  BY PacketFields
<1>2. g = [i \in 0..Len(list) |-> IF i = 0 THEN <<>> ELSE SavePush(g[i - 1], list[i])]
  <2>1. \A i \in 0..Len(list) : i # 0 => g[i - 1] = <<>> /\ SavePush(g[i - 1], list[i]) = <<>>
    BY <1>1 DEF SavePush
  <2> QED BY <2>1
<1>3. g[Len(list)] = <<>>
  BY <1>1
<1> HIDE DEF g
<1> QED BY <1>2, <1>3, MovedBy

-----------------------------------------------------------------------------
(* The inductive invariant.                                                *)

CacheType ==
  /\ packet_list \in Seq(Packet) /\ queue \in Seq(Packet) /\ file \in Seq(Packet)
  /\ now \in 0..MaxFrames /\ audio \in 0..MaxAudio /\ sinceKey \in 0..Gop
  /\ store_moment_ \in Int
\* Who is doing what, and which lists are empty then.
Idle == cam = "idle" => (muxer_is_ready_ <=> muxer_ # "null")
Store == cam = "store" =>
  ~muxer_is_ready_ /\ muxer_ # "null" /\ cameracache = "on" /\ queue = <<>> /\ began = origin
Closing == cam = "close" =>
  muxer_is_ready_ /\ muxer_ # "null" /\ exit \in {"time", "stop", "immediate"}
Structure ==
  /\ cam \in {"idle", "store", "close"} /\ Idle /\ Store /\ Closing
  /\ muxer_is_ready_ \in BOOLEAN
  /\ cameracache = "none" => muxer_ = "null"
  /\ cameracache = "none" \/ muxer_is_ready_ => packet_list = <<>>
  /\ muxer_ = "null" => queue = <<>>
  /\ muxer_ # "null" => closed = "open"
  /\ muxer_ # "null" /\ (muxer_ # "ok" \/ cam = "store") => file = <<>>

\* The list is the frames from time a on; no audio packet between them is missing.
ListFrom(a) ==
  /\ a <= now + 1 /\ now - a <= Window
  /\ Group(packet_list, a, now, sinceKey)
  /\ Run(packet_list, now + audio - Len(packet_list))
  /\ origin # "immediate" /\ a <= now => HasKey(packet_list, a)
  /\ origin # "immediate" /\ a > now /\ cameracache = "on" /\ ~muxer_is_ready_ => idr
ListInv == \E a \in Int : ListFrom(a)

\* The file has the frames from time a on, its muxer's list those from c to b;
\* the packets after number m are in the list.
Parts(a, c, b, m) ==
  /\ a <= c /\ c <= b + 1
  /\ Spans(file, a, c - 1) /\ Spans(queue, c, b) /\ Run(queue, m)
  /\ a <= store_moment_ + 1 /\ store_moment_ <= b
  /\ began # "immediate" /\ a <= b => HasKey(file, a) \/ HasKey(queue, a)
  /\ file # <<>> => \/ file[Len(file)].n = m
                    \/ file[Len(file)].n < m /\ a = c
\* While packets come, the list goes on to the newest.
Growing(a, c, b, m) ==
  /\ b = now /\ m + Len(queue) = now + audio
  /\ store_moment_ - a <= Window /\ now - store_moment_ <= Window
  /\ Group(queue, c, now, sinceKey)
  /\ began # "immediate" /\ a > now => idr
SavingAs(a, c, b, m) ==
  /\ Parts(a, c, b, m)
  /\ cam = "idle" => Growing(a, c, b, m)
  /\ cam = "close" /\ exit = "time" => b = store_moment_ + Window
SavingInv ==
  Accepts /\ muxer_is_ready_ => \E a, c, b, m \in Int : SavingAs(a, c, b, m)

BeganWithKey == began # "immediate" => FirstIsKey(file)
FileInv == SavedContiguous /\ SavedLength /\ BeganWithKey

CacheInv == CacheType /\ Structure /\ ListInv /\ FileInv /\ SavingInv

LEMMA Constants ==
  /\ Window \in Nat /\ Gop \in Nat \ {0} /\ 2 * Gop <= Window + 1
  /\ Window >= 1 /\ Gop <= Window
  /\ MaxSaved = 2 * Window /\ MaxSaved \in Nat
  /\ MaxFrames \in Nat /\ MaxAudio \in Nat
BY ConstantsAssumption DEF ConstantsAssumption, MaxSaved

\* The numbers of the state are integers.
LEMMA Numbers ==
  ASSUME CacheType
  PROVE  /\ now \in Int /\ audio \in Int /\ sinceKey \in Nat /\ store_moment_ \in Int
         /\ Len(packet_list) \in Nat /\ Len(queue) \in Nat /\ Len(file) \in Nat
BY Constants, LenProperties DEF CacheType

LEMMA InitCache == Init => CacheInv
<1> SUFFICES ASSUME Init PROVE CacheInv
  OBVIOUS
<1> USE DEF Init
<1>1. CacheType
  BY EmptySpan, Constants DEF CacheType
<1>2. Structure
  BY DEF Structure, Idle, Store, Closing
<1>3. ListInv
  <2>1. Group(<<>>, now + 1, now, sinceKey) /\ Run(<<>>, now + audio - Len(<<>>))
    BY EmptySpan
  <2>2. ListFrom(now + 1)
    BY <2>1, Constants DEF ListFrom
  <2> QED BY <2>2 DEF ListInv
<1>4. FileInv
  BY DEF FileInv, SavedContiguous, SavedLength, BeganWithKey, FirstIsKey
<1>5. SavingInv
  BY DEF SavingInv
<1> QED BY <1>1, <1>2, <1>3, <1>4, <1>5 DEF CacheInv

-----------------------------------------------------------------------------
(* Pushes.                                                                 *)

\* The next packet p is pushed: a frame, which is a key frame when one is due,
\* or an audio packet.
Comes(p) ==
  /\ p \in Packet /\ p.n = now + audio + 1
  /\ Follows(p, now, sinceKey, now', sinceKey')
  /\ \/ now' = now + 1 /\ audio' = audio
     \/ now' = now /\ audio' = audio + 1
  /\ p.kind = "audio" => (idr => idr')
  /\ p.kind = "delta" => ~idr


\* The list, at least as long as two groups, keeps its length and its key frame.
LEMMA ListPush ==
  ASSUME CacheInv, NEW p, Comes(p), cameracache = "on", ~muxer_is_ready_,
         packet_list' = Pushed(packet_list, Window, p),
         UNCHANGED <<cameracache, muxer_is_ready_, origin>>
  PROVE  ListInv'
<1> DEFINE s == packet_list
           q == Pushed(packet_list, Window, p)
           m == now + audio - Len(packet_list)
<1>1. PICK a \in Int : ListFrom(a)
  BY DEF CacheInv, ListInv
<1>2. now \in Int /\ audio \in Int /\ sinceKey \in Nat /\ Len(s) \in Nat /\ m \in Int
  BY Numbers DEF CacheInv
<1>3. s \in Seq(Packet) /\ Group(s, a, now, sinceKey) /\ Spans(s, a, now) /\ Run(s, m)
  BY <1>1 DEF CacheInv, CacheType, ListFrom, Group
<1>4. a <= now + 1 /\ now - a <= Window
  BY <1>1 DEF ListFrom
<1>5. origin # "immediate" /\ a <= now => HasKey(s, a)
  BY <1>1 DEF ListFrom
<1>6. origin # "immediate" /\ a > now => idr
  BY <1>1 DEF ListFrom
<1>7. PICK n2 \in Int, u2 \in Int, k2 \in {sinceKey'} : n2 = now' /\ u2 = audio' /\ k2 = sinceKey'
  BY <1>2 DEF Comes
<1>8. p \in Packet /\ Follows(p, now, sinceKey, n2, k2)
  BY <1>7 DEF Comes
<1>9. (n2 = now + 1 /\ u2 = audio) \/ (n2 = now /\ u2 = audio + 1)
  BY <1>7 DEF Comes
<1>10. (p.kind = "audio" /\ n2 = now) \/ (p.kind \in {"key", "delta"} /\ n2 = now + 1)
  BY <1>8 DEF Follows
<1>11. m = now + audio - Len(s) /\ p.n = now + audio + 1
  BY DEF Comes
<1>12. p.n = m + Len(s) + 1
  BY <1>2, <1>11
<1>13. (p.kind = "audio" => (idr => idr')) /\ (p.kind = "delta" => ~idr)
  BY DEF Comes
<1>14. Window \in Nat /\ Gop \in Nat \ {0} /\ Gop <= Window
  BY Constants
<1> HIDE DEF s, q, m
<1>15. SUFFICES \E e \in Int :
         /\ e <= n2 + 1 /\ n2 - e <= Window
         /\ Group(q, e, n2, k2) /\ Run(q, n2 + u2 - Len(q))
         /\ origin # "immediate" /\ e <= n2 => HasKey(q, e)
         /\ origin # "immediate" /\ e > n2 => idr'
  BY <1>7 DEF ListInv, ListFrom, q
<1>16. CASE now + 1 - a <= Window
  <2>1. q = Append(s, p)
    BY <1>2, <1>3, <1>4, <1>14, <1>16, PushKeeps DEF q, s
  <2>2. /\ Append(s, p) \in Seq(Packet) /\ Len(Append(s, p)) = Len(s) + 1
        /\ Group(Append(s, p), a, n2, k2)
        /\ \A t \in Int : HasKey(s, t) => HasKey(Append(s, p), t)
        /\ p.kind = "key" => HasKey(Append(s, p), n2)
        /\ \A x \in Int : Run(s, x) /\ p.n = x + Len(s) + 1 => Run(Append(s, p), x)
    BY <1>2, <1>3, <1>4, <1>8, AppendGroup
  <2>3. Group(q, a, n2, k2) /\ Run(q, m) /\ Len(q) = Len(s) + 1
    BY <2>1, <2>2, <1>2, <1>3, <1>12
  <2>4. Run(q, n2 + u2 - Len(q))
    <3>1. n2 + u2 - Len(q) = m
      BY <2>3, <1>2, <1>9, <1>11
    <3> QED BY <3>1, <2>3
  <2>5. origin # "immediate" /\ a <= n2 => HasKey(q, a)
    <3> SUFFICES ASSUME origin # "immediate", a <= n2 PROVE HasKey(q, a)
      OBVIOUS
    <3>1. CASE a <= now
      BY <3>1, <2>1, <2>2, <1>5
    <3>2. CASE a > now
      <4>1. a = n2 /\ p.kind # "audio"
        BY <3>2, <1>2, <1>4, <1>10
      <4>2. p.kind = "key"
        BY <3>2, <4>1, <1>6, <1>10, <1>13
      <4> QED BY <4>1, <4>2, <2>1, <2>2
    <3> QED BY <3>1, <3>2, <1>2
  <2>6. origin # "immediate" /\ a > n2 => idr'
    <3>1. a > n2 => a > now /\ p.kind = "audio"
      BY <1>2, <1>4, <1>10
    <3> QED BY <3>1, <1>6, <1>13
  <2>7. a <= n2 + 1 /\ n2 - a <= Window
    BY <1>2, <1>4, <1>9, <1>16, <1>14
  <2> QED BY <2>3, <2>4, <2>5, <2>6, <2>7
<1>17. CASE now + 1 - a > Window
  <2>1. PICK d \in Nat, c \in (a + 1)..(now + 1) :
           Overflown(q, s, a, now, p, n2, k2, d, c)
    <3>1. /\ s \in Seq(Packet) /\ a \in Int /\ now \in Int /\ sinceKey \in Nat
          /\ Group(s, a, now, sinceKey) /\ a <= now + 1 /\ Window \in Nat
          /\ now + 1 - a > Window /\ p \in Packet /\ Follows(p, now, sinceKey, n2, k2)
      BY <1>2, <1>3, <1>4, <1>8, <1>14, <1>17
    <3>2. q = Pushed(s, Window, p)
      BY DEF q, s
    <3> QED BY <3>1, <3>2, PushDrops
  <2>2. Run(q, m + d) /\ Len(q) = Len(s) - d + 1 /\ Group(q, c, n2, k2)
    BY <2>1, <1>2, <1>3, <1>12 DEF Overflown
  <2>3. Run(q, n2 + u2 - Len(q))
    <3>1. n2 + u2 - Len(q) = m + d
      BY <2>2, <1>2, <1>9, <1>11
    <3> QED BY <3>1, <2>2
  <2>4. origin # "immediate" => c <= now
    <3>1. a <= now /\ a + Gop <= now
      BY <1>2, <1>14, <1>17
    <3>2. origin # "immediate" => c <= a + Gop
      BY <3>1, <2>1, <1>5 DEF Overflown
    <3> QED BY <3>1, <3>2, <1>2, <1>14
  <2>5. /\ c \in Int /\ c <= n2 + 1 /\ n2 - c <= Window
        /\ c <= now => ~(c > n2)
    <3>1. c \in Int /\ a + 1 <= c /\ c <= now + 1
      BY <1>2
    <3> QED BY <3>1, <1>2, <1>4, <1>9, <1>14
  <2>6. c <= now => HasKey(q, c)
    BY <2>1 DEF Overflown
  <2> QED BY <2>2, <2>3, <2>4, <2>5, <2>6
<1> QED BY <1>16, <1>17, <1>2, <1>14

\* The list of the file's muxer, twice as long, drops nothing that came after
\* the event, and nothing at all once a frame has been written.
LEMMA QueuePush ==
  ASSUME CacheInv, NEW p, Comes(p), cam = "idle", muxer_is_ready_, Accepts,
         queue' = Pushed(queue, MaxSaved, p), now' - store_moment_ <= Window,
         UNCHANGED <<cam, muxer_, muxer_is_ready_, store_moment_, file, began>>
  PROVE  SavingInv'
<1> DEFINE s == queue
           q == Pushed(queue, MaxSaved, p)
           sm == store_moment_
<1>1. PICK a \in Int, c \in Int, b \in Int, m \in Int : SavingAs(a, c, b, m)
  BY DEF CacheInv, SavingInv
<1>2. Parts(a, c, now, m) /\ Growing(a, c, now, m)
  BY <1>1 DEF SavingAs, Growing
<1>3. now \in Int /\ audio \in Int /\ sinceKey \in Nat /\ Len(s) \in Nat /\ sm \in Int
  BY Numbers DEF CacheInv
<1>4. s \in Seq(Packet) /\ file \in Seq(Packet) /\ Len(file) \in Nat
  BY Numbers DEF CacheInv, CacheType
<1>5. Group(s, c, now, sinceKey) /\ Spans(s, c, now) /\ Run(s, m) /\ Spans(file, a, c - 1)
  BY <1>2 DEF Parts, Growing
<1>6. /\ a <= c /\ c <= now + 1 /\ a <= sm + 1 /\ sm <= now
      /\ sm - a <= Window /\ now - sm <= Window
  BY <1>2 DEF Parts, Growing
<1>7. began # "immediate" /\ a <= now => HasKey(file, a) \/ HasKey(s, a)
  BY <1>2 DEF Parts
<1>8. began # "immediate" /\ a > now => idr
  BY <1>2 DEF Growing
<1>9. file # <<>> => \/ file[Len(file)].n = m
                     \/ file[Len(file)].n < m /\ a = c
  BY <1>2 DEF Parts
<1>10. PICK n2 \in Int, u2 \in Int, k2 \in {sinceKey'} : n2 = now' /\ u2 = audio' /\ k2 = sinceKey'
  BY <1>3 DEF Comes
<1>11. p \in Packet /\ Follows(p, now, sinceKey, n2, k2)
  BY <1>10 DEF Comes
<1>12. (n2 = now + 1 /\ u2 = audio) \/ (n2 = now /\ u2 = audio + 1)
  BY <1>10 DEF Comes
<1>13. (p.kind = "audio" /\ n2 = now) \/ (p.kind \in {"key", "delta"} /\ n2 = now + 1)
  BY <1>11 DEF Follows
<1>14. m + Len(s) = now + audio /\ p.n = now + audio + 1
  BY <1>2 DEF Comes, Growing
<1>15. p.n = m + Len(s) + 1
  BY <1>3, <1>14
<1>16. (p.kind = "audio" => (idr => idr')) /\ (p.kind = "delta" => ~idr)
  BY DEF Comes
<1>17. /\ Window \in Nat /\ Window >= 1 /\ Gop \in Nat \ {0} /\ 2 * Gop <= Window + 1
       /\ MaxSaved = 2 * Window /\ MaxSaved \in Nat
  BY Constants
<1>18. queue' = q /\ store_moment_' = sm /\ file' = file /\ began' = began
  OBVIOUS
<1>19. n2 - sm <= Window
  BY <1>10
<1> HIDE DEF s, q, sm
<1> DEFINE Good(e, f, x) ==
        /\ e <= f /\ f <= n2 + 1 /\ e <= sm + 1 /\ sm <= n2 /\ sm - e <= Window
        /\ Spans(file, e, f - 1) /\ Run(q, x) /\ Group(q, f, n2, k2)
        /\ x + Len(q) = n2 + u2
        /\ began # "immediate" /\ e <= n2 => HasKey(file, e) \/ HasKey(q, e)
        /\ began # "immediate" /\ e > n2 => idr'
        /\ file # <<>> => \/ file[Len(file)].n = x
                          \/ file[Len(file)].n < x /\ e = f
<1>20. ASSUME NEW e \in Int, NEW f \in Int, NEW x \in Int, Good(e, f, x) PROVE SavingInv'
  <2>1. Spans(q, f, n2)
    BY <1>20 DEF Group
  <2>2. Parts(e, f, n2, x)'
    BY <1>20, <2>1, <1>18 DEF Parts
  <2>3. Growing(e, f, n2, x)'
    BY <1>20, <1>10, <1>18, <1>19 DEF Growing
  <2>4. SavingAs(e, f, n2, x)'
    BY <2>2, <2>3 DEF SavingAs
  <2> QED BY <2>4 DEF SavingInv
<1>21. CASE now + 1 - c <= MaxSaved
  <2>1. q = Append(s, p)
    BY <1>3, <1>4, <1>5, <1>6, <1>17, <1>21, PushKeeps DEF q, s
  <2>2. /\ Append(s, p) \in Seq(Packet) /\ Len(Append(s, p)) = Len(s) + 1
        /\ Group(Append(s, p), c, n2, k2)
        /\ \A t \in Int : HasKey(s, t) => HasKey(Append(s, p), t)
        /\ p.kind = "key" => HasKey(Append(s, p), n2)
        /\ \A x \in Int : Run(s, x) /\ p.n = x + Len(s) + 1 => Run(Append(s, p), x)
    BY <1>3, <1>4, <1>5, <1>6, <1>11, AppendGroup
  <2>3. Group(q, c, n2, k2) /\ Run(q, m) /\ Len(q) = Len(s) + 1
    BY <2>1, <2>2, <1>5, <1>15
  <2>4. m + Len(q) = n2 + u2
    BY <2>3, <1>3, <1>12, <1>14
  <2>5. began # "immediate" /\ a <= n2 => HasKey(file, a) \/ HasKey(q, a)
    <3> SUFFICES ASSUME began # "immediate", a <= n2 PROVE HasKey(file, a) \/ HasKey(q, a)
      OBVIOUS
    <3>1. CASE a <= now
      BY <3>1, <2>1, <2>2, <1>7
    <3>2. CASE a > now
      <4>1. a = n2 /\ p.kind # "audio"
        BY <3>2, <1>3, <1>6, <1>13
      <4>2. p.kind = "key"
        BY <3>2, <4>1, <1>8, <1>13, <1>16
      <4> QED BY <4>1, <4>2, <2>1, <2>2
    <3> QED BY <3>1, <3>2, <1>3
  <2>6. began # "immediate" /\ a > n2 => idr'
    <3>1. a > n2 => a > now /\ p.kind = "audio"
      BY <1>3, <1>6, <1>13
    <3> QED BY <3>1, <1>8, <1>16
  <2>7. c <= n2 + 1 /\ sm <= n2
    BY <1>3, <1>6, <1>12
  <2>8. Good(a, c, m)
    BY <2>3, <2>4, <2>5, <2>6, <2>7, <1>5, <1>6, <1>9
  <2> QED BY <2>8, <1>20
<1>22. CASE now + 1 - c > MaxSaved
  <2>1. c = a /\ a = sm - Window /\ now = sm + Window
    BY <1>3, <1>6, <1>17, <1>22
  <2>2. n2 = now /\ c + 2 * Gop <= now /\ c + 2 * Gop <= sm + 1
    BY <2>1, <1>3, <1>12, <1>17, <1>19
  <2>3. PICK d \in Nat, e \in (c + 1)..(now + 1) :
           Overflown(q, s, c, now, p, n2, k2, d, e)
    <3>1. /\ s \in Seq(Packet) /\ c \in Int /\ now \in Int /\ sinceKey \in Nat
          /\ Group(s, c, now, sinceKey) /\ c <= now + 1 /\ MaxSaved \in Nat
          /\ now + 1 - c > MaxSaved /\ p \in Packet /\ Follows(p, now, sinceKey, n2, k2)
      BY <1>3, <1>4, <1>5, <1>6, <1>11, <1>17, <1>22
    <3>2. q = Pushed(s, MaxSaved, p)
      BY DEF q, s
    <3> QED BY <3>1, <3>2, PushDrops
  <2>4. e <= c + 2 * Gop
    BY <2>2, <2>3 DEF Overflown
  <2>5. e \in Int /\ e <= sm + 1 /\ e <= now /\ sm - e <= Window
    BY <2>1, <2>2, <2>4, <1>3, <1>17
  <2>6. Run(q, m + d) /\ Len(q) = Len(s) - d + 1 /\ Group(q, e, n2, k2) /\ HasKey(q, e)
    BY <2>3, <2>5, <1>5, <1>15 DEF Overflown
  <2>7. (m + d) + Len(q) = n2 + u2
    <3>1. Len(q) = Len(s) - d + 1
      BY <2>6
    <3> HIDE DEF Good
    <3> QED BY <3>1, <1>3, <1>12, <1>14
  <2>8. Spans(file, e, e - 1)
    <3>1. Videos(file) = {}
      <4>1. \A t : t \notin a..(c - 1)
        BY <2>1, <1>3, <1>17
      <4> QED BY <1>5, <4>1 DEF Spans
    <3>2. \A t : t \notin e..(e - 1)
      BY <2>5
    <3> QED BY <3>1, <3>2 DEF Spans, Ordered
  <2>9. file # <<>> => \/ file[Len(file)].n = m + d
                       \/ file[Len(file)].n < m + d /\ e = e
    <3> SUFFICES ASSUME file # <<>>
                 PROVE  file[Len(file)].n = m + d \/ file[Len(file)].n < m + d
      OBVIOUS
    <3>1. Len(file) \in 1..Len(file)
      BY <1>4, EmptySeq
    <3>2. file[Len(file)].n \in Int
      BY <3>1, <1>4, PacketFields
    <3>3. file[Len(file)].n <= m
      BY <3>2, <1>9
    <3> QED BY <3>2, <3>3
  <2>10. e <= n2 + 1 /\ sm <= n2 /\ ~(e > n2) /\ e <= e
    BY <2>2, <2>5, <1>3, <1>6
  <2>11. Good(e, e, m + d)
    BY <2>5, <2>6, <2>7, <2>8, <2>9, <2>10
  <2> QED BY <2>5, <2>11, <1>20
<1> QED BY <1>21, <1>22, <1>3, <1>17

LEMMA PushType ==
  ASSUME NEW s \in Seq(Packet), NEW max, NEW p \in Packet
  PROVE  Pushed(s, max, p) \in Seq(Packet)
<1>1. DropTo(s) \in Seq(Packet)
  <2>1. CASE \E i \in DOMAIN s : IsSecondKey(s, i)
    <3> DEFINE i == CHOOSE i \in DOMAIN s : IsSecondKey(s, i)
    <3>1. i \in 1..Len(s) /\ Len(s) \in Nat /\ DropTo(s) = SubSeq(s, i, Len(s))
      BY <2>1, LenProperties DEF DropTo
    <3> HIDE DEF i
    <3>2. \A j \in i..Len(s) : s[j] \in Packet
      BY <3>1, PacketFields
    <3> QED BY <3>1, <3>2, SubSeqProperties
  <2>2. CASE ~\E i \in DOMAIN s : IsSecondKey(s, i)
    BY <2>2, EmptySeq DEF DropTo
  <2> QED BY <2>1, <2>2
<1>2. \A q \in Seq(Packet) : Append(q, p) \in Seq(Packet)
  BY AppendProperties
<1> QED BY <1>1, <1>2 DEF Pushed

-----------------------------------------------------------------------------
(* The end of a file.                                                      *)

\* An empty list begins with the next frame.
LEMMA EmptyList ==
  ASSUME CacheType', packet_list' = <<>>,
         origin' # "immediate" /\ cameracache' = "on" /\ ~muxer_is_ready_' => idr'
  PROVE  ListInv'
<1>1. PICK n \in Int, u \in Int, k \in Nat : n = now' /\ u = audio' /\ k = sinceKey'
  BY Constants DEF CacheType
<1>2. Group(<<>>, n + 1, n, k) /\ Run(<<>>, n + u - 0) /\ Len(<<>>) = 0
  BY EmptySpan
<1>3. Window \in Nat /\ n + 1 <= n + 1 /\ n - (n + 1) <= Window /\ ~(n + 1 <= n)
  BY Constants
<1>4. ListFrom(n + 1)'
  BY <1>1, <1>2, <1>3 DEF ListFrom
<1> QED BY <1>4 DEF ListInv

\* The muxer of the file goes, with all it was given if it was ended by time.
LEMMA Ends ==
  ASSUME CacheInv, NEW how \in {"time", "stop", "immediate"}, Finish(how),
         cam # "store", muxer_ # "null", packet_list' = <<>>, CacheType',
         UNCHANGED <<store_moment_, file, began>>,
         how = "time" => idr',
         how = "time" /\ muxer_ = "ok" =>
           Cardinality({i \in DOMAIN file : IsVideo(file[i]) /\ file[i].t > store_moment_})
             = Window
  PROVE  CacheInv'
<1>1. /\ muxer_' = "null" /\ muxer_is_ready_' = FALSE /\ queue' = <<>>
      /\ closed' = (IF muxer_ = "ok" THEN how ELSE "failed") /\ origin' = how
      /\ cameracache' = (IF how = "stop" THEN "none" ELSE cameracache)
      /\ cam' = "idle" /\ exit' = "none"
  BY DEF Finish
<1>2. Structure'
  BY <1>1 DEF CacheInv, Structure, Idle, Store, Closing
<1>3. ListInv'
  <2>1. origin' # "immediate" /\ cameracache' = "on" /\ ~muxer_is_ready_' => idr'
    BY <1>1
  <2> QED BY <2>1, EmptyList
<1>4. FileInv'
  <2>1. SavedLength'
    BY <1>1 DEF SavedLength
  <2>2. SavedContiguous' /\ BeganWithKey'
    BY DEF CacheInv, FileInv, SavedContiguous, BeganWithKey
  <2> QED BY <2>1, <2>2 DEF FileInv
<1>5. SavingInv'
  BY <1>1 DEF SavingInv
<1> QED BY <1>2, <1>3, <1>4, <1>5 DEF CacheInv

\* The camera thread begins to wait for the writer.
LEMMA Waits ==
  ASSUME CacheInv, cam = "idle", muxer_ # "null", cam' = "close",
         exit' \in {"time", "stop", "immediate"}, packet_list' = <<>>, CacheType',
         UNCHANGED <<cameracache, saveVars, origin, file, began, closed>>,
         exit' = "time" /\ Accepts => now = store_moment_ + Window
  PROVE  CacheInv'
<1> USE DEF saveVars
<1>1. muxer_is_ready_ /\ muxer_is_ready_'
  BY DEF CacheInv, Structure, Idle
<1>2. Structure'
  BY <1>1 DEF CacheInv, Structure, Idle, Store, Closing
<1>3. ListInv'
  BY <1>1, EmptyList
<1>4. FileInv'
  BY DEF CacheInv, FileInv, SavedContiguous, SavedLength, BeganWithKey
<1>5. SavingInv'
  <2> SUFFICES ASSUME Accepts PROVE \E a, c, b, m \in Int : SavingAs(a, c, b, m)'
    BY DEF SavingInv, Accepts
  <2>1. PICK a \in Int, c \in Int, b \in Int, m \in Int : SavingAs(a, c, b, m)
    BY <1>1 DEF CacheInv, SavingInv
  <2>2. Parts(a, c, b, m) /\ b = now
    BY <2>1 DEF SavingAs, Growing
  <2>3. Parts(a, c, b, m)'
    BY <2>2 DEF Parts
  <2>4. SavingAs(a, c, b, m)'
    BY <2>2, <2>3 DEF SavingAs
  <2> QED BY <2>4
<1> QED BY <1>2, <1>3, <1>4, <1>5 DEF CacheInv

\* stop_current_job, by whichever request, and whether or not there is a writer.
LEMMA BeginsClose ==
  ASSUME CacheInv, cam = "idle", muxer_ # "null", NEW how \in {"time", "stop", "immediate"},
         BeginClose(how), packet_list' = <<>>, CacheType',
         UNCHANGED <<store_moment_, file, began>>,
         how = "time" /\ Accepts => now = store_moment_ + Window,
         how = "time" /\ muxer_ = "gone" => idr'
  PROVE  CacheInv'
<1>1. CASE muxer_ = "gone"
  BY <1>1, Ends DEF BeginClose
<1>2. CASE muxer_ # "gone"
  BY <1>2, Waits DEF BeginClose
<1> QED BY <1>1, <1>2

\* The writer has answered.  A file that was ended by time has all its frames.
LEMMA CloseInv == CacheInv /\ Close => CacheInv'
<1> SUFFICES ASSUME CacheInv, Close PROVE CacheInv'
  OBVIOUS
<1>1. /\ cam = "close" /\ muxer_ = "ok" /\ Finish(exit) /\ KeyAfter(exit)
      /\ exit \in {"time", "stop"} => queue = <<>>
      /\ UNCHANGED <<packet_list, store_moment_, now, sinceKey, audio, file, began>>
  BY DEF Close
<1>2. /\ exit \in {"time", "stop", "immediate"} /\ muxer_is_ready_ /\ packet_list = <<>>
  BY <1>1 DEF CacheInv, Structure, Closing
<1>3. CacheType'
  BY <1>1, EmptySpan DEF CacheInv, CacheType, Finish
<1>4. exit = "time" => idr'
  BY <1>1 DEF KeyAfter
<1>5. ASSUME exit = "time"
      PROVE  Cardinality({i \in DOMAIN file : IsVideo(file[i]) /\ file[i].t > store_moment_})
               = Window
  <2>1. PICK a \in Int, c \in Int, b \in Int, m \in Int : SavingAs(a, c, b, m)
    BY <1>1, <1>2 DEF CacheInv, SavingInv, Accepts
  <2>2. Parts(a, c, b, m) /\ b = store_moment_ + Window
    BY <2>1, <1>1, <1>5 DEF SavingAs
  <2>3. /\ a <= c /\ c <= b + 1 /\ a <= store_moment_ + 1 /\ store_moment_ <= b
        /\ Spans(file, a, c - 1) /\ Spans(queue, c, b)
    BY <2>2 DEF Parts
  <2>4. queue = <<>> /\ Videos(queue) = {}
    BY <1>1, <1>5 DEF Videos
  <2>5. c = b + 1
    <3>1. c \notin c..b
      BY <2>3, <2>4 DEF Spans
    <3> QED BY <3>1, <2>3
  <2>6. store_moment_ \in Int /\ file \in Seq(Packet) /\ Window \in Nat
    BY Constants DEF CacheInv, CacheType
  <2>7. Cardinality({i \in Videos(file) : file[i].t >= store_moment_ + 1})
          = (c - 1) + 1 - (store_moment_ + 1)
    <3>1. store_moment_ + 1 <= (c - 1) + 1 /\ c - 1 \in Int /\ store_moment_ + 1 \in Int
      BY <2>3, <2>5, <2>6
    <3> QED BY <3>1, <2>3, <2>6, SpanCount
  <2>8. {i \in Videos(file) : file[i].t >= store_moment_ + 1}
          = {i \in DOMAIN file : IsVideo(file[i]) /\ file[i].t > store_moment_}
    <3>1. \A i \in DOMAIN file : file[i].t \in Nat
      BY <2>6, PacketFields
    <3> QED BY <3>1, <2>6 DEF Videos
  <2>9. (c - 1) + 1 - (store_moment_ + 1) = Window
    BY <2>2, <2>5, <2>6
  <2> QED BY <2>7, <2>8, <2>9
<1> QED BY <1>1, <1>2, <1>3, <1>4, <1>5, Ends

-----------------------------------------------------------------------------
(* The steps.                                                              *)

LEMMA StartInv == CacheInv /\ StartCache => CacheInv'
<1> SUFFICES ASSUME CacheInv, StartCache PROVE CacheInv'
  OBVIOUS
<1> USE DEF StartCache, saveVars
<1>1. muxer_ = "null" /\ packet_list = <<>> /\ ~muxer_is_ready_
  BY DEF CacheInv, Structure, Idle
<1>2. CacheType'
  BY DEF CacheInv, CacheType
<1>3. Structure'
  BY <1>1 DEF CacheInv, Structure, Idle, Store, Closing
<1>4. ListInv'
  BY <1>1, <1>2, EmptyList
<1>5. FileInv'
  BY DEF CacheInv, FileInv, SavedContiguous, SavedLength, BeganWithKey
<1>6. SavingInv'
  BY <1>1 DEF SavingInv
<1> QED BY <1>2, <1>3, <1>4, <1>5, <1>6 DEF CacheInv

LEMMA StopInv == CacheInv /\ StopCache => CacheInv'
<1> SUFFICES ASSUME CacheInv, StopCache PROVE CacheInv'
  OBVIOUS
<1>1. CASE muxer_ # "null"
  <2>1. CacheType'
    BY <1>1, EmptySpan DEF StopCache, BeginClose, Finish, saveVars, CacheInv, CacheType
  <2> QED BY <1>1, <2>1, BeginsClose DEF StopCache
<1>2. CASE muxer_ = "null"
  <2> USE <1>2 DEF StopCache, saveVars
  <2>1. ~muxer_is_ready_ /\ cam = "idle" /\ cameracache' = "none"
    BY DEF CacheInv, Structure, Idle
  <2>2. CacheType'
    BY EmptySpan DEF CacheInv, CacheType
  <2>3. Structure'
    BY <2>1 DEF CacheInv, Structure, Idle, Store, Closing
  <2>4. ListInv'
    BY <2>1, <2>2, EmptyList
  <2>5. FileInv'
    BY DEF CacheInv, FileInv, SavedContiguous, SavedLength, BeganWithKey
  <2>6. SavingInv'
    BY <2>1 DEF SavingInv
  <2> QED BY <2>2, <2>3, <2>4, <2>5, <2>6 DEF CacheInv
<1> QED BY <1>1, <1>2

LEMMA SaveStopInv == CacheInv /\ SaveStop => CacheInv'
<1> SUFFICES ASSUME CacheInv, SaveStop PROVE CacheInv'
  OBVIOUS
<1>1. packet_list' = <<>>
  BY DEF SaveStop, CacheInv, Structure, Idle
<1>2. CacheType'
  BY EmptySpan DEF SaveStop, BeginClose, Finish, saveVars, CacheInv, CacheType
<1> QED BY <1>1, <1>2, BeginsClose DEF SaveStop

LEMMA StoreBeginInv == CacheInv /\ StoreBegin => CacheInv'
<1> SUFFICES ASSUME CacheInv, StoreBegin PROVE CacheInv'
  OBVIOUS
<1> USE DEF StoreBegin, cacheVars
<1>1. ~muxer_is_ready_ /\ queue = <<>>
  BY DEF CacheInv, Structure, Idle
<1>2. CacheType'
  BY EmptySpan DEF CacheInv, CacheType
<1>3. Structure'
  BY <1>1 DEF CacheInv, Structure, Idle, Store, Closing
<1>4. ListInv'
  <2>1. PICK a \in Int : ListFrom(a)
    BY DEF CacheInv, ListInv
  <2>2. ListFrom(a)'
    BY <2>1 DEF ListFrom
  <2> QED BY <2>2 DEF ListInv
<1>5. FileInv'
  <2>1. file' = <<>> /\ closed' = "open"
    OBVIOUS
  <2> QED BY <2>1 DEF FileInv, SavedContiguous, SavedLength, BeganWithKey, FirstIsKey
<1>6. SavingInv'
  BY <1>1 DEF SavingInv
<1> QED BY <1>2, <1>3, <1>4, <1>5, <1>6 DEF CacheInv

\* The time of the last frame in the list is that of the last frame there was.
LEMMA MomentIsNow ==
  ASSUME CacheInv, NEW a \in Int, ListFrom(a)
  PROVE  Moment(packet_list) = now
<1> DEFINE videos == {i \in DOMAIN packet_list : IsVideo(packet_list[i])}
<1>1. /\ now \in Int /\ packet_list \in Seq(Packet) /\ Spans(packet_list, a, now)
      /\ videos = Videos(packet_list)
  BY Numbers DEF CacheInv, CacheType, ListFrom, Group, Videos
<1>2. /\ videos \subseteq 1..Len(packet_list) /\ Len(packet_list) \in Nat
      /\ \A i \in videos : packet_list[i].t \in a..now
  BY <1>1, PacketFields DEF Spans
<1>3. CASE videos = {}
  BY <1>3 DEF Moment
<1>4. CASE videos # {}
  <2>1. now \in a..now
    BY <1>1, <1>2, <1>4
  <2>2. PICK l \in videos : packet_list[l].t = now
    BY <2>1, <1>1 DEF Spans
  <2>3. ASSUME NEW j \in videos PROVE j <= l
    <3>1. l < j => packet_list[l].t < packet_list[j].t
      BY <1>1 DEF Spans, Ordered
    <3>2. packet_list[j].t \in a..now /\ l \in Nat /\ j \in Nat
      BY <1>2
    <3> QED BY <3>1, <3>2, <2>2, <1>1
  <2> DEFINE last == CHOOSE i \in videos : \A j \in videos : j <= i
  <2>4. last \in videos /\ \A j \in videos : j <= last
    BY <2>3
  <2>5. last = l
    <3> HIDE DEF last, videos
    <3>1. last \in Nat /\ l \in Nat /\ last <= l /\ l <= last
      BY <1>2, <2>3, <2>4
    <3> QED BY <3>1
  <2>6. Moment(packet_list) = packet_list[last].t
    BY <1>4 DEF Moment
  <2> QED BY <2>2, <2>5, <2>6
<1> QED BY <1>3, <1>4

\* The whole list becomes that of the file's muxer.
LEMMA StoreMoveInv == CacheInv /\ StoreMove => CacheInv'
<1> SUFFICES ASSUME CacheInv, StoreMove PROVE CacheInv'
  OBVIOUS
<1> USE DEF StoreMove
<1>1. /\ ~muxer_is_ready_ /\ muxer_ # "null" /\ queue = <<>> /\ cameracache = "on"
      /\ began = origin /\ file = <<>>
  BY DEF CacheInv, Structure, Store
<1>2. PICK a \in Int : ListFrom(a)
  BY DEF CacheInv, ListInv
<1>3. /\ now \in Int /\ audio \in Int /\ sinceKey \in Nat /\ Len(packet_list) \in Nat
      /\ packet_list \in Seq(Packet)
  BY Numbers DEF CacheInv, CacheType
<1>4. /\ a <= now + 1 /\ now - a <= Window
      /\ Group(packet_list, a, now, sinceKey) /\ Spans(packet_list, a, now)
      /\ Run(packet_list, now + audio - Len(packet_list))
      /\ began # "immediate" /\ a <= now => HasKey(packet_list, a)
      /\ began # "immediate" /\ a > now => idr
  BY <1>1, <1>2 DEF ListFrom, Group
<1>5. store_moment_' = now
  BY <1>2, MomentIsNow
<1>6. Accepts => queue' = packet_list
  BY <1>1, <1>3, <1>4, MovedIsList
<1>7. ~Accepts => queue' = <<>>
  BY <1>1, <1>3, MovedNothing
<1>8. CacheType'
  BY <1>3, <1>5, <1>6, <1>7, EmptySpan DEF CacheInv, CacheType
<1>9. Structure'
  BY <1>1 DEF CacheInv, Structure, Idle, Store, Closing
<1>10. ListInv'
  BY <1>8, EmptyList
<1>11. FileInv'
  <2>1. file' = <<>> /\ closed' = "open"
    BY <1>1 DEF CacheInv, Structure
  <2> QED BY <2>1 DEF FileInv, SavedContiguous, SavedLength, BeganWithKey, FirstIsKey
<1>12. SavingInv'
  <2> SUFFICES ASSUME Accepts PROVE \E e, c, b, m \in Int : SavingAs(e, c, b, m)'
    BY DEF SavingInv, Accepts
  <2> DEFINE m == now + audio - Len(packet_list)
  <2>1. queue' = packet_list /\ file' = <<>> /\ store_moment_' = now /\ began' = began
        /\ now' = now /\ audio' = audio /\ sinceKey' = sinceKey /\ idr' = idr
    BY <1>1, <1>5, <1>6
  <2>2. PICK n \in Int, x \in Int : n = now /\ x = m
    <3>1. m \in Int
      BY <1>3
    <3> HIDE DEF m
    <3> QED BY <3>1, <1>3
  <2>3. Spans(<<>>, a, a - 1)
    <3>1. Videos(<<>>) = {} /\ \A t : t \notin a..(a - 1)
      BY DEF Videos
    <3> QED BY <3>1 DEF Spans, Ordered
  <2>4. Parts(a, a, n, x)'
    <3>1. a <= a /\ a <= n + 1 /\ a <= now + 1 /\ now <= n
      BY <1>3, <1>4, <2>2
    <3> QED BY <3>1, <2>1, <2>2, <2>3, <1>4 DEF Parts
  <2>5. Growing(a, a, n, x)'
    <3>1. x + Len(packet_list) = now + audio /\ now - now <= Window
      BY <1>3, <2>2, Constants
    <3> QED BY <3>1, <2>1, <2>2, <1>4 DEF Growing
  <2>6. SavingAs(a, a, n, x)'
    BY <2>4, <2>5 DEF SavingAs
  <2> QED BY <2>6
<1> QED BY <1>8, <1>9, <1>10, <1>11, <1>12 DEF CacheInv

\* A packet comes, to the list or to that of the file's muxer.
LEMMA PushInv ==
  ASSUME CacheInv, NEW p, Comes(p), cam # "close", cameracache = "on", Push(p),
         now' \in 0..MaxFrames, audio' \in 0..MaxAudio, sinceKey' \in 0..Gop,
         muxer_is_ready_ => now' - store_moment_ <= Window \/ ~Accepts,
         UNCHANGED <<cameracache, muxer_, muxer_is_ready_, store_moment_, cam, exit,
                     origin, file, began, closed>>
  PROVE  CacheInv'
<1>1. p \in Packet /\ packet_list \in Seq(Packet) /\ queue \in Seq(Packet)
  BY DEF Comes, CacheInv, CacheType
<1>2. Structure
  BY DEF CacheInv
<1>3. FileInv'
  BY DEF CacheInv, FileInv, SavedContiguous, SavedLength, BeganWithKey
<1>4. CASE muxer_is_ready_
  <2>1. cam = "idle" /\ packet_list = <<>> /\ muxer_ # "null"
    BY <1>2, <1>4 DEF Structure, Idle, Store
  <2>2. queue' = SavePush(queue, p) /\ packet_list' = packet_list
    BY <1>4 DEF Push
  <2>3. queue' \in Seq(Packet)
    BY <2>2, <1>1, PushType DEF SavePush
  <2>4. CacheType'
    BY <2>2, <2>3 DEF CacheInv, CacheType
  <2>5. Structure'
    BY <2>1, <2>2, <1>2, <1>4 DEF Structure, Idle, Store, Closing
  <2>6. ListInv'
    BY <2>1, <2>2, <2>4, <1>4, EmptyList
  <2>7. SavingInv'
    <3>1. CASE Accepts
      <4>1. queue' = Pushed(queue, MaxSaved, p)
        BY <2>2, <3>1 DEF SavePush
      <4> QED BY <4>1, <2>1, <3>1, <1>4, QueuePush
    <3>2. CASE ~Accepts
      BY <3>2 DEF SavingInv, Accepts
    <3> QED BY <3>1, <3>2
  <2> QED BY <2>4, <2>5, <2>6, <2>7, <1>3 DEF CacheInv
<1>5. CASE ~muxer_is_ready_
  <2>1. packet_list' = Pushed(packet_list, Window, p) /\ queue' = queue
    BY <1>5 DEF Push, CachePush
  <2>2. packet_list' \in Seq(Packet)
    BY <2>1, <1>1, PushType
  <2>3. CacheType'
    BY <2>1, <2>2 DEF CacheInv, CacheType
  <2>4. Structure'
    BY <2>1, <1>2, <1>5 DEF Structure, Idle, Store, Closing
  <2>5. ListInv'
    BY <2>1, <1>5, ListPush
  <2>6. SavingInv'
    BY <1>5 DEF SavingInv
  <2> QED BY <2>3, <2>4, <2>5, <2>6, <1>3 DEF CacheInv
<1> QED BY <1>4, <1>5

LEMMA FrameInv ==
  ASSUME CacheInv, NEW kind \in {"key", "delta"}, Frame(kind)
  PROVE  CacheInv'
<1> DEFINE p == NewPacket(kind, now + 1)
<1>1. /\ cam = "idle" /\ cameracache = "on" /\ now < MaxFrames
      /\ kind = "key" \/ (~idr /\ sinceKey \in 1..(Gop - 1))
      /\ now' = now + 1
      /\ sinceKey' = IF kind = "key" THEN 1 ELSE sinceKey + 1
      /\ UNCHANGED <<store_moment_, audio, file, began>>
  BY DEF Frame
<1>2. now \in 0..MaxFrames /\ audio \in 0..MaxAudio /\ sinceKey \in 0..Gop
      /\ store_moment_ \in Int
  BY DEF CacheInv, CacheType
<1>3. now' \in 0..MaxFrames /\ audio' \in 0..MaxAudio /\ sinceKey' \in 0..Gop
  BY <1>1, <1>2, Constants
<1>4. CASE muxer_is_ready_ /\ TimeOver(now + 1)
  <2>1. BeginClose("time") /\ idr' = (muxer_ = "gone") /\ packet_list' = packet_list
    BY <1>4 DEF Frame
  <2>2. muxer_ # "null" /\ packet_list = <<>>
    BY <1>1, <1>4 DEF CacheInv, Structure, Idle
  <2>3. CacheType'
    BY <2>1, <1>1, <1>3, EmptySpan DEF BeginClose, Finish, saveVars, CacheInv, CacheType
  <2>4. ASSUME Accepts PROVE now = store_moment_ + Window
    <3>1. PICK a \in Int, c \in Int, b \in Int, m \in Int : SavingAs(a, c, b, m)
      BY <1>4, <2>4 DEF CacheInv, SavingInv
    <3>2. now - store_moment_ <= Window
      BY <3>1, <1>1 DEF SavingAs, Growing
    <3> QED BY <3>2, <1>2, <1>4, Constants DEF TimeOver
  <2>5. /\ cam = "idle" /\ UNCHANGED <<store_moment_, file, began>> /\ packet_list' = <<>>
        /\ muxer_ = "gone" => idr'
    BY <2>1, <2>2, <1>1
  <2> QED BY <2>1, <2>2, <2>3, <2>4, <2>5, BeginsClose
<1>5. CASE ~(muxer_is_ready_ /\ TimeOver(now + 1))
  <2>1. Push(p) /\ idr' = FALSE
        /\ UNCHANGED <<cameracache, muxer_, muxer_is_ready_, cam, exit, origin, closed>>
    BY <1>5 DEF Frame
  <2>2. muxer_is_ready_ => now' - store_moment_ <= Window
    BY <1>1, <1>2, <1>5, Constants DEF TimeOver
  <2>3. p \in Packet
    BY <1>1, <1>2, Constants DEF NewPacket, Packet
  <2>4. Comes(p)
    <3>1. p.n = now + audio + 1 /\ p.kind = kind /\ p.t = now + 1
      BY DEF NewPacket
    <3> HIDE DEF p
    <3>2. Follows(p, now, sinceKey, now', sinceKey')
      BY <3>1, <1>1 DEF Follows
    <3> QED BY <3>1, <3>2, <2>3, <1>1 DEF Comes
  <2> HIDE DEF p
  <2> QED BY <2>1, <2>2, <2>4, <1>1, <1>3, PushInv
<1> QED BY <1>4, <1>5

LEMMA AudioPushInv == CacheInv /\ AudioPush => CacheInv'
<1> SUFFICES ASSUME CacheInv, AudioPush PROVE CacheInv'
  OBVIOUS
<1> DEFINE p == NewPacket("audio", now)
<1>1. /\ cameracache = "on" /\ cam # "close" /\ audio < MaxAudio /\ Push(p)
      /\ audio' = audio + 1
      /\ UNCHANGED <<cameracache, muxer_, muxer_is_ready_, store_moment_, cam, exit,
                     now, sinceKey, idr, origin, file, began, closed>>
  BY DEF AudioPush
<1>2. now \in 0..MaxFrames /\ audio \in 0..MaxAudio /\ sinceKey \in 0..Gop
      /\ store_moment_ \in Int
  BY DEF CacheInv, CacheType
<1>3. now' \in 0..MaxFrames /\ audio' \in 0..MaxAudio /\ sinceKey' \in 0..Gop
  BY <1>1, <1>2, Constants
<1>4. p \in Packet
  BY <1>1, <1>2, Constants DEF NewPacket, Packet
<1>5. Comes(p)
  <2>1. p.n = now + audio + 1 /\ p.kind = "audio"
    BY DEF NewPacket
  <2> HIDE DEF p
  <2>2. Follows(p, now, sinceKey, now', sinceKey')
    BY <2>1, <1>1 DEF Follows
  <2> QED BY <2>1, <2>2, <1>1, <1>4 DEF Comes
<1>6. muxer_is_ready_ => now' - store_moment_ <= Window \/ ~Accepts
  <2> SUFFICES ASSUME muxer_is_ready_, Accepts PROVE now' - store_moment_ <= Window
    OBVIOUS
  <2>1. cam = "idle"
    BY <1>1 DEF CacheInv, Structure, Store
  <2>2. PICK a \in Int, c \in Int, b \in Int, m \in Int : SavingAs(a, c, b, m)
    BY DEF CacheInv, SavingInv
  <2> QED BY <2>1, <2>2, <1>1 DEF SavingAs, Growing
<1> HIDE DEF p
<1> QED BY <1>1, <1>3, <1>5, <1>6, PushInv

\* The first frame of the file f is the one its muxer was given first; q is the
\* rest.
LEMMA PartsFirst ==
  ASSUME NEW f \in Seq(Packet), NEW q \in Seq(Packet),
         NEW a \in Int, NEW c \in Int, NEW b \in Int, a <= c, c <= b + 1,
         Spans(f, a, c - 1), Spans(q, c, b), a <= b => HasKey(f, a) \/ HasKey(q, a)
  PROVE  FirstIsKey(f)
<1> SUFFICES ASSUME NEW i \in DOMAIN f, IsVideo(f[i]), \A j \in 1..(i - 1) : ~IsVideo(f[j])
             PROVE  f[i].kind = "key"
  BY DEF FirstIsKey
<1>1. /\ Len(f) \in Nat /\ DOMAIN f = 1..Len(f)
      /\ Videos(f) \subseteq 1..Len(f) /\ KeyPositions(f) \subseteq Videos(f)
      /\ KeyPositions(q) \subseteq Videos(q)
  BY PacketFields
<1>2. i \in Videos(f) /\ i \in Nat
  BY <1>1 DEF Videos
<1>3. f[i].t \in a..(c - 1)
  BY <1>2 DEF Spans
<1>4. ~HasKey(q, a)
  <2> SUFFICES ASSUME HasKey(q, a) PROVE FALSE
    OBVIOUS
  <2>1. PICK k \in Videos(q) : q[k].t = a
    BY <1>1 DEF HasKey
  <2> QED BY <2>1, <1>3 DEF Spans
<1>5. PICK k \in KeyPositions(f) : f[k].t = a
  BY <1>3, <1>4 DEF HasKey
<1>6. k \in Videos(f) /\ k \in 1..Len(f) /\ IsVideo(f[k])
  BY <1>1, <1>5 DEF Videos
<1>7. ~(k < i)
  BY <1>2, <1>6
<1>8. ~(i < k)
  <2>1. i < k => f[i].t < f[k].t
    BY <1>2, <1>6 DEF Spans, Ordered
  <2> QED BY <2>1, <1>3, <1>5
<1>9. k = i
  BY <1>2, <1>6, <1>7, <1>8
<1> QED BY <1>5, <1>9 DEF KeyPositions

\* The writer takes the oldest packet p of the list of frames c to b.
LEMMA HeadSpan ==
  ASSUME NEW s \in Seq(Packet), s # <<>>, NEW c \in Int, NEW b \in Int, Spans(s, c, b),
         c <= b + 1
  PROVE  /\ s[1] \in Packet /\ Head(s) = s[1] /\ IsRest(Tail(s), s, 1)
         /\ Tail(s) \in Seq(Packet) /\ Len(Tail(s)) = Len(s) - 1
         /\ IsVideo(s[1]) => /\ s[1].t = c /\ c <= b
                             /\ \A i \in Videos(s) : i > 1 <=> s[i].t >= c + 1
                             /\ HasKey(s, c) => s[1].kind = "key"
         /\ ~IsVideo(s[1]) => \A i \in Videos(s) : i > 1 <=> s[i].t >= c
<1>1. /\ Len(s) \in Nat /\ DOMAIN s = 1..Len(s) /\ Videos(s) \subseteq 1..Len(s)
      /\ KeyPositions(s) \subseteq Videos(s)
      /\ \A i \in 1..Len(s) : s[i] \in Packet /\ s[i].t \in Nat
  BY PacketFields
<1>2. Len(s) >= 1 /\ 1 \in 1..Len(s)
  BY <1>1, EmptySeq
<1>3. /\ Head(s) = s[1] /\ Tail(s) \in Seq(Packet) /\ Len(Tail(s)) = Len(s) - 1
      /\ \A i \in 1..Len(Tail(s)) : Tail(s)[i] = s[i + 1]
  BY HeadTailProperties
<1>4. IsRest(Tail(s), s, 1)
  <2>1. \A i \in 1..Len(Tail(s)) : 1 + i = i + 1
    BY <1>1, <1>3
  <2> QED BY <2>1, <1>1, <1>2, <1>3 DEF IsRest
<1>5. \A i \in Videos(s) : s[i].t \in c..b /\ i \in Nat /\ i >= 1 /\ s[i].t \in Nat
  BY <1>1 DEF Spans
<1>6. ASSUME IsVideo(s[1])
      PROVE  /\ s[1].t = c /\ c <= b
             /\ \A i \in Videos(s) : i > 1 <=> s[i].t >= c + 1
             /\ HasKey(s, c) => s[1].kind = "key"
  <2>1. 1 \in Videos(s)
    BY <1>1, <1>2, <1>6 DEF Videos
  <2>2. c \in c..b
    BY <2>1, <1>5
  <2>3. PICK j \in Videos(s) : s[j].t = c
    BY <2>2 DEF Spans
  <2>4. \A i \in Videos(s) : i > 1 => s[1].t < s[i].t
    BY <2>1 DEF Spans, Ordered
  <2>5. s[1].t = c
    BY <2>1, <2>3, <2>4, <1>5
  <2>6. \A i \in Videos(s) : i > 1 <=> s[i].t >= c + 1
    BY <2>4, <2>5, <1>5
  <2>7. ASSUME HasKey(s, c) PROVE s[1].kind = "key"
    <3>1. PICK k \in KeyPositions(s) : s[k].t = c
      BY <2>7 DEF HasKey
    <3>2. k = 1
      BY <3>1, <2>6, <1>1, <1>5
    <3> QED BY <3>1, <3>2 DEF KeyPositions
  <2> QED BY <2>2, <2>5, <2>6, <2>7
<1>7. ASSUME ~IsVideo(s[1]) PROVE \A i \in Videos(s) : i > 1 <=> s[i].t >= c
  <2>1. 1 \notin Videos(s)
    BY <1>7 DEF Videos
  <2> QED BY <2>1, <1>5
<1> QED BY <1>1, <1>2, <1>3, <1>4, <1>6, <1>7

\* With it the file f2 and the rest r are the same frames, from another one on.
Advanced(f, q, f2, r, a, c, b, m, c2) ==
  /\ Spans(f2, a, c2 - 1) /\ Spans(r, c2, b) /\ Run(r, m + 1)
  /\ HasKey(f, a) \/ HasKey(q, a) => HasKey(f2, a) \/ HasKey(r, a)
  /\ \A since \in Nat : Group(q, c, b, since) => Group(r, c2, b, since)
  /\ \A x \in Int : m + Len(q) = x => (m + 1) + Len(r) = x
  /\ f2 \in Seq(Packet) /\ r \in Seq(Packet) /\ f2[Len(f2)].n = m + 1

LEMMA HeadMoves ==
  ASSUME NEW f \in Seq(Packet), NEW q \in Seq(Packet), q # <<>>,
         NEW a \in Int, NEW c \in Int, NEW b \in Int, NEW m \in Int,
         Spans(f, a, c - 1), Spans(q, c, b), Run(q, m), a <= c, c <= b + 1
  PROVE  \E c2 \in c..(b + 1) :
           Advanced(f, q, Append(f, Head(q)), Tail(q), a, c, b, m, c2)
<1>1. /\ q[1] \in Packet /\ Head(q) = q[1] /\ IsRest(Tail(q), q, 1)
      /\ Tail(q) \in Seq(Packet) /\ Len(Tail(q)) = Len(q) - 1
      /\ IsVideo(q[1]) => /\ q[1].t = c /\ c <= b
                          /\ \A i \in Videos(q) : i > 1 <=> q[i].t >= c + 1
                          /\ HasKey(q, c) => q[1].kind = "key"
      /\ ~IsVideo(q[1]) => \A i \in Videos(q) : i > 1 <=> q[i].t >= c
  BY HeadSpan
<1>2. PICK p \in Packet, r \in Seq(Packet) : p = q[1] /\ p = Head(q) /\ r = Tail(q)
  BY <1>1
<1>3. p.n = m + 1
  <2>1. 1 \in DOMAIN q
    BY EmptySeq, LenProperties
  <2> QED BY <2>1, <1>2 DEF Run
<1>4. p.kind \in {"key", "delta", "audio"}
  BY DEF Packet
<1>5. PICK c2 \in Int :
        /\ c2 \in c..(b + 1) /\ \A i \in Videos(q) : i > 1 <=> q[i].t >= c2
        /\ \/ p.kind = "audio" /\ c2 = c
           \/ p.kind \in {"key", "delta"} /\ c2 = c + 1 /\ p.t = c
              /\ (HasKey(q, c) => p.kind = "key")
  <2>1. CASE IsVideo(p)
    <3>1. c + 1 \in Int /\ c + 1 \in c..(b + 1)
      BY <2>1, <1>1, <1>2
    <3> QED BY <3>1, <2>1, <1>1, <1>2 DEF IsVideo
  <2>2. CASE ~IsVideo(p)
    <3>1. c \in c..(b + 1) /\ p.kind = "audio"
      BY <2>2, <1>4 DEF IsVideo
    <3> QED BY <3>1, <2>2, <1>1, <1>2
  <2> QED BY <2>1, <2>2
<1>6. PICK g \in Seq(Packet), h \in Int, e \in Int :
        g = Append(f, p) /\ h = c - 1 /\ e = c2 - 1
  <2>1. Append(f, p) \in Seq(Packet) /\ c - 1 \in Int /\ c2 - 1 \in Int
    BY AppendProperties
  <2> QED BY <2>1
<1>7. /\ Spans(g, a, e)
      /\ \A t \in Int : HasKey(f, t) => HasKey(g, t)
      /\ p.kind = "key" => HasKey(g, e)
  <2>1. \/ p.kind = "audio" /\ e = h
        \/ p.kind \in {"key", "delta"} /\ e = h + 1 /\ p.t = e
    <3>1. (c2 = c => e = h) /\ (c2 = c + 1 => e = h + 1 /\ e = c)
      BY <1>6
    <3>2. \/ p.kind = "audio" /\ c2 = c
          \/ p.kind \in {"key", "delta"} /\ c2 = c + 1 /\ p.t = c
      BY <1>5
    <3> QED BY <3>1, <3>2
  <2>2. Spans(f, a, h) /\ a <= h + 1
    BY <1>6
  <2>3. /\ Spans(Append(f, p), a, e)
        /\ \A t \in Int : HasKey(f, t) => HasKey(Append(f, p), t)
        /\ p.kind = "key" => HasKey(Append(f, p), e)
    BY <2>1, <2>2, AppendSpan, ZenonT(60)
  <2> QED BY <2>3, <1>6
<1>8. g[Len(g)].n = m + 1
  BY <1>3, <1>6, AppendProperties
<1>9. /\ Spans(r, c2, b)
      /\ \A t \in Int : t >= c2 /\ HasKey(q, t) => HasKey(r, t)
      /\ \A since \in Nat : Group(q, c, b, since) => Group(r, c2, b, since)
      /\ \A x \in Int : Run(q, x) => Run(r, x + 1)
  <2>1. PICK d \in Nat : d = 1
    OBVIOUS
  <2>2. IsRest(r, q, d) /\ (\A i \in Videos(q) : i > d <=> q[i].t >= c2)
    BY <2>1, <1>1, <1>2, <1>5
  <2>3. c <= c2 /\ c2 <= b + 1
    BY <1>5
  <2>4. Left(r, q, c, c2, b, d)
    BY <2>2, <2>3, RestGroup
  <2> QED BY <2>1, <2>4 DEF Left
<1>10. HasKey(f, a) \/ HasKey(q, a) => HasKey(g, a) \/ HasKey(r, a)
  <2> SUFFICES ASSUME HasKey(q, a) PROVE HasKey(g, a) \/ HasKey(r, a)
    BY <1>7
  <2>1. a = c
    <3>1. a >= c
      BY PacketFields DEF HasKey, Spans
    <3> QED BY <3>1
  <2>2. CASE p.kind = "audio"
    BY <2>1, <2>2, <1>5, <1>9
  <2>3. CASE p.kind # "audio"
    <3>1. p.kind = "key" /\ c2 = c + 1
      BY <2>1, <2>3, <1>5
    <3>2. e = a
      BY <3>1, <2>1, <1>6
    <3> QED BY <3>1, <3>2, <1>7
  <2> QED BY <2>2, <2>3
<1>11. Run(r, m + 1)
  BY <1>9
<1>12. ASSUME NEW x \in Int, m + Len(q) = x PROVE (m + 1) + Len(r) = x
  <2>1. PICK l \in Nat, k \in Nat : l = Len(q) /\ k = Len(r)
    BY LenProperties
  <2>2. k = l - 1
    BY <2>1, <1>1, <1>2
  <2>3. m + l = x
    BY <2>1, <1>12
  <2>4. (m + 1) + k = x
    BY <2>2, <2>3
  <2> QED BY <2>1, <2>4
<1>13. Advanced(f, q, g, r, a, c, b, m, c2)
  BY <1>6, <1>7, <1>8, <1>9, <1>10, <1>11, <1>12 DEF Advanced
<1> QED BY <1>2, <1>5, <1>6, <1>13

\* A packet that follows the last one, or all that came before the first frame.
InOneRun(f) ==
  \A i \in 1..(Len(f) - 1) :
    \/ f[i + 1].n = f[i].n + 1
    \/ f[i + 1].n > f[i].n /\ \A j \in 1..i : ~IsVideo(f[j])

LEMMA RunGoesOn ==
  ASSUME NEW f \in Seq(Packet), NEW p \in Packet, NEW a \in Int, NEW c \in Int, NEW m \in Int,
         InOneRun(f), Spans(f, a, c - 1), p.n = m + 1,
         f # <<>> => f[Len(f)].n = m \/ (f[Len(f)].n < m /\ a = c)
  PROVE  InOneRun(Append(f, p))
<1>1. PICK g \in Seq(Packet), l \in Nat : g = Append(f, p) /\ l = Len(f)
  BY AppendProperties, LenProperties
<1>2. Len(g) = l + 1 /\ (\A i \in 1..l : g[i] = f[i]) /\ g[l + 1] = p
  BY <1>1, AppendProperties
<1>3. \A i \in 1..l : f[i].n \in Int
  BY <1>1, PacketFields
<1>4. Len(g) - 1 = l
  BY <1>2
<1> SUFFICES ASSUME NEW i \in 1..l
             PROVE  \/ g[i + 1].n = g[i].n + 1
                    \/ g[i + 1].n > g[i].n /\ \A j \in 1..i : ~IsVideo(g[j])
  BY <1>1, <1>4 DEF InOneRun
<1>5. CASE i < l
  <2>1. i \in 1..(l - 1) /\ i + 1 \in 1..l /\ 1..i \subseteq 1..l
    BY <1>5
  <2>2. \/ f[i + 1].n = f[i].n + 1
        \/ f[i + 1].n > f[i].n /\ \A j \in 1..i : ~IsVideo(f[j])
    BY <2>1, <1>1 DEF InOneRun
  <2>3. g[i] = f[i] /\ g[i + 1] = f[i + 1] /\ \A j \in 1..i : g[j] = f[j]
    BY <2>1, <1>2
  <2> QED BY <2>2, <2>3
<1>6. CASE i = l
  <2>1. f # <<>> /\ g[i] = f[l] /\ g[i + 1].n = m + 1
    BY <1>1, <1>2, <1>6, EmptySeq
  <2>2. PICK k \in Int : k = f[l].n
    BY <1>3, <1>6
  <2>3. k = m \/ (k < m /\ a = c)
    BY <2>1, <2>2, <1>1
  <2>4. CASE k = m
    BY <2>1, <2>2, <2>4
  <2>5. CASE k < m /\ a = c
    <3>1. Videos(f) = {}
      <4>1. \A t : t \notin a..(c - 1)
        BY <2>5
      <4> QED BY <4>1 DEF Spans
    <3>2. \A j \in 1..l : ~IsVideo(f[j])
      BY <3>1, <1>1, PacketFields DEF Videos
    <3>3. \A j \in 1..i : ~IsVideo(g[j])
      BY <3>2, <1>2, <1>6
    <3>4. m + 1 > k
      BY <2>5
    <3> QED BY <3>3, <3>4, <2>1, <2>2
  <2> QED BY <2>3, <2>4, <2>5
<1> QED BY <1>5, <1>6

\* The writer takes a packet: the next one of the file.
LEMMA PopInv ==
  ASSUME CacheInv, muxer_ = "ok", queue # <<>>, queue' = Tail(queue),
         file' = Append(file, Head(queue)), UNCHANGED <<cacheVars, muxer_, muxer_is_ready_,
           store_moment_, camVars, origin, began, closed>>
  PROVE  CacheInv'
<1> USE DEF cacheVars, camVars
<1>1. Structure /\ packet_list \in Seq(Packet) /\ queue \in Seq(Packet) /\ file \in Seq(Packet)
  BY DEF CacheInv, CacheType
<1>2. muxer_is_ready_ /\ cam # "store" /\ closed = "open"
  BY <1>1 DEF Structure, Idle, Store, Closing
<1>3. PICK a \in Int, c \in Int, b \in Int, m \in Int : SavingAs(a, c, b, m)
  BY <1>2 DEF CacheInv, SavingInv, Accepts
<1>4. Parts(a, c, b, m) /\ (cam = "idle" => Growing(a, c, b, m))
      /\ (cam = "close" /\ exit = "time" => b = store_moment_ + Window)
  BY <1>3 DEF SavingAs
<1>5. a <= c /\ c <= b + 1 /\ Spans(file, a, c - 1) /\ Spans(queue, c, b) /\ Run(queue, m)
  BY <1>4 DEF Parts
<1>6. PICK c2 \in c..(b + 1) : Advanced(file, queue, file', queue', a, c, b, m, c2)
  BY <1>1, <1>5, HeadMoves
<1>7. PICK m2 \in Int : m2 = m + 1
  OBVIOUS
<1>8. /\ Spans(file', a, c2 - 1) /\ Spans(queue', c2, b) /\ Run(queue', m2)
      /\ HasKey(file, a) \/ HasKey(queue, a) => HasKey(file', a) \/ HasKey(queue', a)
      /\ \A since \in Nat : Group(queue, c, b, since) => Group(queue', c2, b, since)
      /\ \A x \in Int : m + Len(queue) = x => m2 + Len(queue') = x
      /\ file' \in Seq(Packet) /\ queue' \in Seq(Packet) /\ file'[Len(file')].n = m2
  BY <1>6, <1>7 DEF Advanced
<1>9. c2 \in Int /\ a <= c2 /\ c2 <= b + 1
  BY <1>5, <1>6
<1>10. Parts(a, c2, b, m2)'
  <2>1. /\ a <= store_moment_ + 1 /\ store_moment_ <= b
        /\ began # "immediate" /\ a <= b => HasKey(file, a) \/ HasKey(queue, a)
    BY <1>4 DEF Parts
  <2> QED BY <2>1, <1>8, <1>9 DEF Parts
<1>11. ASSUME cam = "idle" PROVE Growing(a, c2, b, m2)'
  <2>1. PICK x \in Int, k \in Nat : x = now + audio /\ k = sinceKey
    <3>1. now \in Int /\ audio \in Int /\ sinceKey \in Nat
      BY Numbers DEF CacheInv
    <3> QED BY <3>1
  <2>2. /\ b = now /\ m + Len(queue) = x
        /\ store_moment_ - a <= Window /\ now - store_moment_ <= Window
        /\ Group(queue, c, b, k)
        /\ began # "immediate" /\ a > now => idr
    BY <2>1, <1>4, <1>11 DEF Growing
  <2>3. m2 + Len(queue') = x /\ Group(queue', c2, b, k)
    BY <2>2, <1>8
  <2> QED BY <2>1, <2>2, <2>3 DEF Growing
<1>12. SavingAs(a, c2, b, m2)'
  BY <1>4, <1>10, <1>11 DEF SavingAs
<1>13. SavingInv'
  BY <1>9, <1>12 DEF SavingInv
<1>14. CacheType'
  BY <1>8 DEF CacheInv, CacheType
<1>15. Structure'
  BY <1>1, <1>2 DEF Structure, Idle, Store, Closing
<1>16. ListInv'
  <2>1. PICK e \in Int : ListFrom(e)
    BY DEF CacheInv, ListInv
  <2>2. ListFrom(e)'
    BY <2>1 DEF ListFrom
  <2> QED BY <2>2 DEF ListInv
<1>17. FileInv'
  <2>1. BeganWithKey'
    <3> SUFFICES ASSUME began' # "immediate" PROVE FirstIsKey(file')
      BY DEF BeganWithKey
    <3>1. a <= b => HasKey(file', a) \/ HasKey(queue', a)
      BY <1>10 DEF Parts
    <3>2. PICK f \in Seq(Packet), q \in Seq(Packet) : f = file' /\ q = queue'
      BY <1>8
    <3>3. Spans(f, a, c2 - 1) /\ Spans(q, c2, b) /\ (a <= b => HasKey(f, a) \/ HasKey(q, a))
      BY <3>1, <3>2, <1>8
    <3>4. FirstIsKey(f)
      BY <3>3, <1>9, PartsFirst
    <3> QED BY <3>2, <3>4
  <2>2. SavedLength'
    BY <1>2 DEF SavedLength
  <2>3. SavedContiguous'
    <3>1. PICK f \in Seq(Packet), p \in Packet : f = file /\ p = Head(queue)
      BY <1>1, HeadTailProperties
    <3>2. p.n = m + 1
      BY <1>1, <1>5, <3>1, EmptySeq, LenProperties, HeadTailProperties DEF Run
    <3>3. InOneRun(f) /\ Spans(f, a, c - 1)
      BY <3>1, <1>5 DEF CacheInv, FileInv, SavedContiguous, InOneRun
    <3>4. f # <<>> => f[Len(f)].n = m \/ (f[Len(f)].n < m /\ a = c)
      BY <3>1, <1>4 DEF Parts
    <3>5. InOneRun(Append(f, p))
      BY <3>2, <3>3, <3>4, RunGoesOn
    <3>6. file' = Append(f, p)
      BY <3>1
    <3> QED BY <3>5, <3>6 DEF SavedContiguous, InOneRun
  <2> QED BY <2>1, <2>2, <2>3 DEF FileInv
<1> QED BY <1>13, <1>14, <1>15, <1>16, <1>17 DEF CacheInv

LEMMA WriterInv == CacheInv /\ WriterStep => CacheInv'
<1> SUFFICES ASSUME CacheInv, WriterStep PROVE CacheInv'
  OBVIOUS
<1>1. UNCHANGED <<cacheVars, muxer_is_ready_, store_moment_, camVars, origin, began, closed>>
  BY DEF WriterStep
<1>2. CASE /\ \/ muxer_ = "starting" /\ muxer_' \in {"ok", "failing"}
              \/ muxer_ = "failing" /\ muxer_' = "gone"
           /\ UNCHANGED <<queue, file>>
  <2> USE <1>1, <1>2 DEF cacheVars, camVars
  <2>1. CacheType'
    BY DEF CacheInv, CacheType
  <2>2. Structure'
    BY DEF CacheInv, Structure, Idle, Store, Closing
  <2>3. ListInv'
    <3>1. PICK a \in Int : ListFrom(a)
      BY DEF CacheInv, ListInv
    <3>2. ListFrom(a)'
      BY <3>1 DEF ListFrom
    <3> QED BY <3>2 DEF ListInv
  <2>4. FileInv'
    BY DEF CacheInv, FileInv, SavedContiguous, SavedLength, BeganWithKey
  <2>5. SavingInv'
    <3> SUFFICES ASSUME Accepts', muxer_is_ready_'
                 PROVE  \E a, c, b, m \in Int : SavingAs(a, c, b, m)'
      BY DEF SavingInv
    <3>1. Accepts /\ muxer_is_ready_
      BY DEF Accepts
    <3>2. PICK a \in Int, c \in Int, b \in Int, m \in Int : SavingAs(a, c, b, m)
      BY <3>1 DEF CacheInv, SavingInv
    <3>3. SavingAs(a, c, b, m)'
      BY <3>2 DEF SavingAs, Parts, Growing
    <3> QED BY <3>3
  <2> QED BY <2>1, <2>2, <2>3, <2>4, <2>5 DEF CacheInv
<1>3. CASE /\ muxer_ = "ok" /\ queue # <<>> /\ UNCHANGED muxer_
           /\ queue' = Tail(queue)
           /\ file' = Append(file, Head(queue))
  BY <1>1, <1>3, PopInv
<1> QED BY <1>2, <1>3 DEF WriterStep

LEMMA NextInv == CacheInv /\ [Next]_vars => CacheInv'
<1> SUFFICES ASSUME CacheInv, [Next]_vars PROVE CacheInv'
  OBVIOUS
<1>1. CASE UNCHANGED vars
  <2> USE <1>1 DEF vars, cacheVars, saveVars, camVars, histVars
  <2>1. CacheType' /\ Structure'
    BY DEF CacheInv, CacheType, Structure, Idle, Store, Closing
  <2>2. ListInv'
    <3>1. PICK a \in Int : ListFrom(a)
      BY DEF CacheInv, ListInv
    <3>2. ListFrom(a)'
      BY <3>1 DEF ListFrom
    <3> QED BY <3>2 DEF ListInv
  <2>3. FileInv'
    BY DEF CacheInv, FileInv, SavedContiguous, SavedLength, BeganWithKey
  <2>4. SavingInv'
    <3> SUFFICES ASSUME Accepts, muxer_is_ready_
                 PROVE  \E a, c, b, m \in Int : SavingAs(a, c, b, m)'
      BY DEF SavingInv, Accepts
    <3>1. PICK a \in Int, c \in Int, b \in Int, m \in Int : SavingAs(a, c, b, m)
      BY DEF CacheInv, SavingInv
    <3>2. SavingAs(a, c, b, m)'
      BY <3>1 DEF SavingAs, Parts, Growing
    <3> QED BY <3>2
  <2> QED BY <2>1, <2>2, <2>3, <2>4 DEF CacheInv
<1>2. CASE \E kind \in {"key", "delta"} : Frame(kind)
  BY <1>2, FrameInv
<1>3. CASE StartCache \/ StopCache \/ StoreBegin \/ StoreMove \/ SaveStop \/ Close
  BY <1>3, StartInv, StopInv, StoreBeginInv, StoreMoveInv, SaveStopInv, CloseInv
<1>4. CASE AudioPush \/ WriterStep
  BY <1>4, AudioPushInv, WriterInv
<1> QED BY <1>1, <1>2, <1>3, <1>4 DEF Next

LEMMA CacheAlways == Spec => []CacheInv
BY InitCache, NextInv, PTL DEF Spec

-----------------------------------------------------------------------------
(* The theorems.                                                           *)

\* The handover from the cache to the muxer of the file loses no packet and
\* doubles none, in whatever order the camera, the audio thread and the writer
\* come: a saved file is one run of what was dispatched (StoreCacheData and
\* push_packet under mutex_).
THEOREM ContiguousCorrect == Spec => []SavedContiguous
<1>1. CacheInv => SavedContiguous
  BY DEF CacheInv, FileInv
<1> QED BY <1>1, CacheAlways, PTL

\* A file that ended by time has every frame of the cached duration after the
\* event and none beyond: its muxer, twice as long as the cache, drops none of
\* them, and a flush writes them all.
THEOREM LengthCorrect == Spec => []SavedLength
<1>1. CacheInv => SavedLength
  BY DEF CacheInv, FileInv
<1> QED BY <1>1, CacheAlways, PTL

\* The cache and the files saved from it begin with a key frame, through every
\* overflow and after the key frame forced at the end by time, unless
\* STOP_SAVE_CACHE emptied the cache before.
THEOREM KeyFirstCorrect == Spec => []KeyFirst
<1>1. ASSUME CacheInv PROVE KeyFirst
  <2>1. began # "immediate" => FirstIsKey(file)
    BY <1>1 DEF CacheInv, FileInv, BeganWithKey
  <2>2. ASSUME origin # "immediate" PROVE FirstIsKey(packet_list)
    <3>1. PICK s \in Seq(Packet), n \in Int : s = packet_list /\ n = now
      BY <1>1, Numbers DEF CacheInv, CacheType
    <3>2. PICK a \in Int : a <= n + 1 /\ Spans(s, a, n) /\ (a <= n => HasKey(s, a))
      BY <1>1, <2>2, <3>1 DEF CacheInv, ListInv, ListFrom, Group
    <3>3. <<>> \in Seq(Packet) /\ Spans(<<>>, n + 1, n)
      BY EmptySpan DEF Group
    <3>4. PICK c \in Int : a <= c /\ c <= n + 1 /\ Spans(s, a, c - 1) /\ Spans(<<>>, c, n)
      <4>1. (n + 1) - 1 = n /\ n + 1 \in Int
        OBVIOUS
      <4> QED BY <4>1, <3>2, <3>3
    <3>5. FirstIsKey(s)
      <4>1. PICK q \in Seq(Packet) : Spans(q, c, n)
        BY <3>3, <3>4
      <4> QED BY <4>1, <3>2, <3>4, PartsFirst
    <3> QED BY <3>1, <3>5
  <2> QED BY <2>1, <2>2 DEF KeyFirst
<1> QED BY <1>1, CacheAlways, PTL
=============================================================================
