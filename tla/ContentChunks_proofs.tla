------------------------ MODULE ContentChunks_proofs ------------------------
(***************************************************************************)
(* Proofs about ContentChunks.  However the reads fall and whoever writes  *)
(* to the files meanwhile: the streaming chunker holds no more than one    *)
(* chunk and one read in memory; no chunk that it cuts is empty or longer  *)
(* than the greatest; it cuts a stream as the whole of it would be cut;    *)
(* and each entry, of a file or out of a pack, gives back what was read    *)
(* for its path, when the blocks of the vault's chunks can be opened.      *)
(*                                                                         *)
(* The functions over places that the module defines by recursion (the     *)
(* hash, the ranges, what has been read) are shown to exist, which gives   *)
(* their equations; what follows from those is by Induction.               *)
(***************************************************************************)
EXTENDS ContentChunks, SequenceTheorems, FiniteSetTheorems, WellFoundedInduction, TLAPS

-----------------------------------------------------------------------------
(* Induction over the natural numbers, from their well-foundedness.        *)

LEMMA LeastElement ==
  ASSUME NEW S \in SUBSET Nat, S # {}
  PROVE  \E n \in S : \A m \in S : n <= m
<1>1. IsWellFoundedOn({ ss \in Nat \X Nat : ss[1] < ss[2] }, Nat)
  BY NatLessThanWellFounded DEF OpToRel
<1>2. PICK n \in S : \A m \in S : <<m, n>> \notin { ss \in Nat \X Nat : ss[1] < ss[2] }
  BY <1>1, WFMin
<1>3. ASSUME NEW m \in S
      PROVE  n <= m
  <2>1. m \in Nat /\ n \in Nat /\ <<m, n>> \in Nat \X Nat
    OBVIOUS
  <2>2. ~(m < n)
    BY <1>2, <2>1
  <2> QED
    BY <2>1, <2>2
<1> QED
  BY <1>3

LEMMA Induction ==
  ASSUME NEW S, 0 \in S, \A n \in Nat : n \in S => n + 1 \in S
  PROVE  \A n \in Nat : n \in S
<1>1. SUFFICES ASSUME Nat \ S # {} PROVE FALSE
  OBVIOUS
<1>2. PICK n \in Nat \ S : \A m \in Nat \ S : n <= m
  BY <1>1, LeastElement
<1>3. n # 0 /\ n - 1 \in Nat
  BY <1>2
<1>4. n - 1 \in S
  BY <1>2, <1>3
<1> QED
  BY <1>2, <1>3, <1>4

-----------------------------------------------------------------------------
(* The hash, and where it cuts.                                            *)

Hash == 0..2^Width - 1

LEMMA Bounds ==
  /\ CdcMin \in Nat \ {0} /\ CdcMax \in Nat \ {0} /\ CdcMin <= CdcMax /\ ReadChunk \in Nat \ {0}
BY BoundsAssumption, SizeAssumption

LEMMA PowerOfTwo ==
  ASSUME NEW n \in Nat
  PROVE  2^n \in Nat \ {0}
<1>1. IsFiniteSet(1..n) /\ Cardinality(1..n) = n
  BY FS_Interval
<1>2. IsFiniteSet(SUBSET (1..n)) /\ Cardinality(SUBSET (1..n)) = 2^n
  BY <1>1, FS_SUBSET
<1>3. 2^n \in Nat
  BY <1>2, FS_CardinalityType
<1>4. SUBSET (1..n) # {}
  OBVIOUS
<1>5. 2^n # 0
  BY <1>2, <1>4, FS_EmptySet
<1> QED
  BY <1>3, <1>5

LEMMA RollType ==
  ASSUME NEW h \in Hash, NEW b \in Byte
  PROVE  Roll(h, b) \in Hash
<1>1. Width \in Nat /\ Width - 1 \in Nat /\ Gear[b] \in 0..2^Width - 1
  BY GearAssumption
<1>2. PICK m \in Nat \ {0} : m = 2^Width
  BY <1>1, PowerOfTwo
<1>3. PICK half \in Nat \ {0} : half = 2^(Width - 1)
  BY <1>1, PowerOfTwo
<1>4. h \in Nat /\ Gear[b] \in Nat
  BY <1>1, <1>2 DEF Hash
<1>5. (2 * h) % m \in Nat /\ h \div half \in Nat
  BY <1>4
<1>6. PICK x \in Nat : x = ((2 * h) % m) + (h \div half) + Gear[b]
  BY <1>4, <1>5
<1>7. x % m \in 0..m - 1
  OBVIOUS
<1>8. Roll(h, b) = x % m
  BY <1>2, <1>3, <1>6 DEF Roll
<1> QED
  BY <1>2, <1>7, <1>8 DEF Hash

\* The hash goes byte by byte.
Rolls(h, bytes) ==
  /\ h \in [0..Len(bytes) -> Hash]
  /\ h[0] = 0
  /\ \A n \in 1..Len(bytes) : h[n] = Roll(h[n - 1], bytes[n])

HashEquation(h, bytes) ==
  h = [n \in 0..Len(bytes) |-> IF n = 0 THEN 0 ELSE Roll(h[n - 1], bytes[n])]

LEMMA HashExists ==
  ASSUME NEW bytes \in Seq(Byte)
  PROVE  \E h : HashEquation(h, bytes)
<1> DEFINE Good(h, m) == h = [n \in 0..m |-> IF n = 0 THEN 0 ELSE Roll(h[n - 1], bytes[n])]
           N == { m \in Nat : \E h : Good(h, m) }
<1>1. 0 \in N
  <2>1. Good([n \in 0..0 |-> 0], 0)
    OBVIOUS
  <2> QED
    BY <2>1
<1>2. ASSUME NEW m \in Nat, m \in N
      PROVE  m + 1 \in N
  <2>1. PICK h : Good(h, m)
    BY <1>2
  <2> DEFINE g == [n \in 0..m + 1 |-> IF n <= m THEN h[n] ELSE Roll(h[m], bytes[m + 1])]
  <2>2. \A n \in 0..m : g[n] = h[n]
    OBVIOUS
  <2>3. g[m + 1] = Roll(h[m], bytes[m + 1])
    OBVIOUS
  <2>4. g = [n \in 0..m + 1 |-> g[n]]
    OBVIOUS
  <2> HIDE DEF g
  <2>5. \A n \in 0..m : h[n] = IF n = 0 THEN 0 ELSE Roll(h[n - 1], bytes[n])
    BY <2>1
  <2>6. ASSUME NEW n \in 0..m + 1
        PROVE  g[n] = IF n = 0 THEN 0 ELSE Roll(g[n - 1], bytes[n])
    <3>1. CASE n = 0
      BY <2>2, <2>5, <3>1
    <3>2. CASE n \in 1..m
      <4>1. n - 1 \in 0..m /\ n \in 0..m
        BY <3>2
      <4> QED
        BY <2>2, <2>5, <3>2, <4>1
    <3>3. CASE n = m + 1
      <4>1. m \in 0..m /\ (m + 1) - 1 = m
        OBVIOUS
      <4> QED
        BY <2>2, <2>3, <3>3, <4>1
    <3> QED
      BY <3>1, <3>2, <3>3
  <2>7. Good(g, m + 1)
    BY <2>4, <2>6
  <2> HIDE DEF Good
  <2>8. \E k : Good(k, m + 1)
    BY <2>7
  <2> QED
    BY <2>8
<1>3. Len(bytes) \in N
  <2> HIDE DEF N
  <2> QED
    BY <1>1, <1>2, Induction
<1> QED
  BY <1>3 DEF HashEquation

LEMMA HashesRoll ==
  ASSUME NEW bytes \in Seq(Byte)
  PROVE  Rolls(Hashes(bytes), bytes)
<1>1. PICK h : h = Hashes(bytes) /\ HashEquation(h, bytes)
  <2> DEFINE k == CHOOSE h : HashEquation(h, bytes)
  <2>1. Hashes(bytes) = k
    BY DEF Hashes, HashEquation
  <2>2. HashEquation(k, bytes)
    BY HashExists
  <2> QED
    BY <2>1, <2>2
<1>2. /\ h[0] = 0
      /\ \A n \in 1..Len(bytes) : h[n] = Roll(h[n - 1], bytes[n])
  <2>1. \A n \in 0..Len(bytes) : h[n] = IF n = 0 THEN 0 ELSE Roll(h[n - 1], bytes[n])
    BY <1>1 DEF HashEquation
  <2>2. \A n \in 1..Len(bytes) : n \in 0..Len(bytes) /\ n # 0
    OBVIOUS
  <2> QED
    BY <2>1, <2>2
<1> DEFINE N == { m \in Nat : m <= Len(bytes) => h[m] \in Hash }
<1>3. 0 \in N
  <2>1. 0 \in Hash
    BY PowerOfTwo, GearAssumption DEF Hash
  <2> QED
    BY <1>2, <2>1
<1>4. ASSUME NEW m \in Nat, m \in N
      PROVE  m + 1 \in N
  <2>1. SUFFICES ASSUME m + 1 <= Len(bytes) PROVE h[m + 1] \in Hash
    OBVIOUS
  <2>2. m + 1 \in 1..Len(bytes) /\ (m + 1) - 1 = m /\ h[m] \in Hash
    BY <1>4, <2>1
  <2>3. bytes[m + 1] \in Byte
    BY <2>2
  <2> QED
    BY <1>2, <2>2, <2>3, RollType
<1>5. \A n \in 0..Len(bytes) : h[n] \in Hash
  <2>1. \A n \in Nat : n \in N
    <3> HIDE DEF N
    <3> QED
      BY <1>3, <1>4, Induction
  <2> QED
    BY <2>1
<1>6. h \in [0..Len(bytes) -> Hash]
  <2>1. h = [n \in 0..Len(bytes) |-> h[n]]
    BY <1>1 DEF HashEquation
  <2> QED
    BY <1>5, <2>1
<1> QED
  BY <1>1, <1>2, <1>6 DEF Rolls

\* Bytes that begin alike hash alike, as far as they are alike.
LEMMA HashesAlike ==
  ASSUME NEW a \in Seq(Byte), NEW b \in Seq(Byte), NEW k \in Nat, k <= Len(a), k <= Len(b),
         \A n \in 1..k : a[n] = b[n]
  PROVE  \A n \in 0..k : Hashes(a)[n] = Hashes(b)[n]
<1>1. PICK f : f = Hashes(a) /\ Rolls(f, a)
  BY HashesRoll
<1>2. PICK g : g = Hashes(b) /\ Rolls(g, b)
  BY HashesRoll
<1> DEFINE N == { m \in Nat : m <= k => f[m] = g[m] }
<1>3. 0 \in N
  BY <1>1, <1>2 DEF Rolls
<1>4. ASSUME NEW m \in Nat, m \in N
      PROVE  m + 1 \in N
  <2>1. SUFFICES ASSUME m + 1 <= k PROVE f[m + 1] = g[m + 1]
    OBVIOUS
  <2>2. m + 1 \in 1..k /\ m + 1 \in 1..Len(a) /\ m + 1 \in 1..Len(b) /\ (m + 1) - 1 = m
    BY <2>1
  <2>3. f[m] = g[m] /\ a[m + 1] = b[m + 1]
    BY <1>4, <2>1, <2>2
  <2>4. f[m + 1] = Roll(f[m], a[m + 1])
    BY <1>1, <2>2 DEF Rolls
  <2>5. g[m + 1] = Roll(g[m], b[m + 1])
    BY <1>2, <2>2 DEF Rolls
  <2> QED
    BY <2>3, <2>4, <2>5
<1>5. \A n \in Nat : n \in N
  <2> HIDE DEF N
  <2> QED
    BY <1>3, <1>4, Induction
<1> QED
  BY <1>1, <1>2, <1>5

\* Between is where none of the first k bytes is cut after.
Uncut(bytes, k) == \A n \in 1..k : ~CutsAt(Hashes(bytes)[n], n)

LEMMA MinIs ==
  ASSUME NEW S \in SUBSET Int, NEW k \in S, \A n \in S : k <= n
  PROVE  Min(S) = k
<1>1. PICK m : m = Min(S)
  OBVIOUS
<1>2. m \in S /\ \A n \in S : m <= n
  BY <1>1 DEF Min
<1> QED
  BY <1>1, <1>2

LEMMA MaxIs ==
  ASSUME NEW S \in SUBSET Int, NEW k \in S, \A n \in S : n <= k
  PROVE  Max(S) = k
<1>1. PICK m : m = Max(S)
  OBVIOUS
<1>2. m \in S /\ \A n \in S : m >= n
  BY <1>1 DEF Max
<1> QED
  BY <1>1, <1>2

LEMMA NextCutIs ==
  ASSUME NEW bytes \in Seq(Byte), NEW k \in 1..Len(bytes), Uncut(bytes, k - 1),
         k = Len(bytes) \/ CutsAt(Hashes(bytes)[k], k)
  PROVE  NextCut(bytes) = k
<1> DEFINE S == {Len(bytes)} \cup { n \in 1..Len(bytes) : CutsAt(Hashes(bytes)[n], n) }
<1>0. DOMAIN bytes = 1..Len(bytes)
  OBVIOUS
<1>1. Len(bytes) \in Nat
  OBVIOUS
<1>2. k \in S
  BY <1>1
<1>3. \A n \in S : k <= n
  <2>1. SUFFICES ASSUME NEW n \in S, n < k PROVE FALSE
    BY <1>1
  <2>2. n \in 1..k - 1 /\ CutsAt(Hashes(bytes)[n], n)
    BY <1>1, <2>1
  <2> QED
    BY <2>2 DEF Uncut
<1>4. S \subseteq Int
  BY <1>1
<1>5. NextCut(bytes) = Min(S)
  BY <1>0 DEF NextCut
<1> HIDE DEF S
<1>6. Min(S) = k
  BY <1>2, <1>3, <1>4, MinIs
<1> QED
  BY <1>5, <1>6

LEMMA NextCutExists ==
  ASSUME NEW bytes \in Seq(Byte), bytes # <<>>
  PROVE  \E k \in 1..Len(bytes) :
           /\ NextCut(bytes) = k
           /\ Uncut(bytes, k - 1)
           /\ k = Len(bytes) \/ CutsAt(Hashes(bytes)[k], k)
<1> DEFINE S == {Len(bytes)} \cup { n \in 1..Len(bytes) : CutsAt(Hashes(bytes)[n], n) }
<1>1. Len(bytes) \in Nat /\ Len(bytes) # 0
  OBVIOUS
<1>2. S \subseteq Nat /\ S # {}
  BY <1>1
<1>3. PICK k \in S : \A n \in S : k <= n
  <2> HIDE DEF S
  <2> QED
    BY <1>2, LeastElement
<1>4. k \in 1..Len(bytes) /\ (k = Len(bytes) \/ CutsAt(Hashes(bytes)[k], k))
  BY <1>1
<1>5. Uncut(bytes, k - 1)
  <2>1. SUFFICES ASSUME NEW n \in 1..k - 1, CutsAt(Hashes(bytes)[n], n) PROVE FALSE
    BY DEF Uncut
  <2>2. n \in S /\ n < k
    BY <1>4, <2>1
  <2> QED
    BY <1>3, <1>4, <2>2
<1>6. NextCut(bytes) = k
  BY <1>4, <1>5, NextCutIs
<1> QED
  BY <1>4, <1>5, <1>6

\* No chunk is longer than the greatest, nor, if it is not the last, shorter than
\* the least.
LEMMA NextCutBounds ==
  ASSUME NEW bytes \in Seq(Byte), bytes # <<>>
  PROVE  /\ NextCut(bytes) \in 1..Len(bytes)
         /\ NextCut(bytes) <= CdcMax
         /\ NextCut(bytes) = Len(bytes) \/ NextCut(bytes) >= CdcMin
<1>1. PICK k \in 1..Len(bytes) :
        /\ NextCut(bytes) = k
        /\ Uncut(bytes, k - 1)
        /\ k = Len(bytes) \/ CutsAt(Hashes(bytes)[k], k)
  BY NextCutExists
<1>2. k <= CdcMax
  <2>1. SUFFICES ASSUME k > CdcMax PROVE FALSE
    BY Bounds
  <2>2. CdcMax \in 1..k - 1
    BY <2>1, Bounds
  <2>3. CutsAt(Hashes(bytes)[CdcMax], CdcMax)
    BY Bounds DEF CutsAt
  <2> QED
    BY <1>1, <2>2, <2>3 DEF Uncut
<1>3. k = Len(bytes) \/ k >= CdcMin
  BY <1>1 DEF CutsAt
<1> QED
  BY <1>1, <1>2, <1>3

-----------------------------------------------------------------------------
(* The chunks of a whole stream.                                           *)

Rest(data, start) == SubSeq(data, start + 1, Len(data))

LEMMA RestProperties ==
  ASSUME NEW data \in Seq(Byte), NEW start \in 0..Len(data)
  PROVE  /\ Rest(data, start) \in Seq(Byte)
         /\ Len(Rest(data, start)) = Len(data) - start
         /\ \A i \in 1..Len(data) - start : Rest(data, start)[i] = data[start + i]
<1>1. start + 1 \in Int /\ Len(data) \in Int /\ \A i \in start + 1..Len(data) : data[i] \in Byte
  OBVIOUS
<1> DEFINE rest == SubSeq(data, start + 1, Len(data))
<1>2. /\ rest \in Seq(Byte)
      /\ Len(rest) = IF start + 1 <= Len(data) THEN Len(data) - (start + 1) + 1 ELSE 0
      /\ \A i \in 1..Len(data) - (start + 1) + 1 : rest[i] = data[(start + 1) + i - 1]
  BY <1>1, SubSeqProperties
<1>3. Len(data) - (start + 1) + 1 = Len(data) - start
  OBVIOUS
<1> HIDE DEF rest
<1>4. ASSUME NEW i \in 1..Len(data) - start
      PROVE  rest[i] = data[start + i]
  <2>1. i \in 1..Len(data) - (start + 1) + 1
    BY <1>3
  <2>2. rest[i] = data[(start + 1) + i - 1]
    BY <1>2, <2>1
  <2>3. (start + 1) + i - 1 = start + i
    BY <2>1
  <2> QED
    BY <2>2, <2>3, Zenon
<1>5. Len(rest) = Len(data) - start
  BY <1>2
<1> QED
  BY <1>2, <1>4, <1>5 DEF Rest, rest

\* Where the chunk ends that begins at start.
Stop(data, start) == start + NextCut(Rest(data, start))

LEMMA StopBounds ==
  ASSUME NEW data \in Seq(Byte), NEW start \in 0..Len(data) - 1
  PROVE  /\ Stop(data, start) \in start + 1..Len(data)
         /\ Stop(data, start) - start <= CdcMax
<1>1. start \in 0..Len(data)
  OBVIOUS
<1>2. Rest(data, start) \in Seq(Byte) /\ Len(Rest(data, start)) = Len(data) - start
  BY <1>1, RestProperties
<1>3. Rest(data, start) # <<>>
  BY <1>2
<1>4. PICK k : k = NextCut(Rest(data, start))
  OBVIOUS
<1>5. k \in 1..Len(data) - start /\ k <= CdcMax
  BY <1>2, <1>3, <1>4, NextCutBounds
<1> QED
  BY <1>4, <1>5, Bounds DEF Stop

Span == [start : Nat, stop : Nat]

SpanAt(data, start) == [start |-> start, stop |-> Stop(data, start)]

\* The chunks from start on: the next one, and those after it.
RangesEquation(r, data) ==
  r = [start \in 0..Len(data) |->
        IF start = Len(data) THEN <<>>
        ELSE << SpanAt(data, start) >> \o r[Stop(data, start)]]

LEMMA RangesExist ==
  ASSUME NEW data \in Seq(Byte)
  PROVE  \E r : RangesEquation(r, data)
<1>1. PICK L \in Nat : L = Len(data)
  OBVIOUS
<1>2. \A start \in 0..L - 1 : Stop(data, start) \in start + 1..L
  BY <1>1, StopBounds
<1> DEFINE Next1(r, start) == << SpanAt(data, start) >> \o r[Stop(data, start)]
           Value(r, start) == IF start = L THEN <<>> ELSE Next1(r, start)
           Good(r, m) == r = [start \in L - m..L |-> Value(r, start)]
           N == { m \in Nat : m <= L => \E r : Good(r, m) }
<1>3. 0 \in N
  <2>1. Good([start \in L - 0..L |-> <<>>], 0)
    OBVIOUS
  <2> HIDE DEF Good
  <2>2. \E r : Good(r, 0)
    BY <2>1
  <2> QED
    BY <2>2
<1>4. ASSUME NEW m \in Nat, m \in N
      PROVE  m + 1 \in N
  <2>1. SUFFICES ASSUME m + 1 <= L PROVE \E r : Good(r, m + 1)
    OBVIOUS
  <2>2. PICK r : Good(r, m)
    BY <1>4, <2>1
  <2>3. PICK first \in 0..L - 1 : first = L - (m + 1)
    BY <2>1
  <2> DEFINE g == [start \in first..L |-> IF start = first THEN Next1(r, first) ELSE r[start]]
  <2>4. \A start \in first + 1..L : g[start] = r[start]
    OBVIOUS
  <2>5. g[first] = Next1(r, first)
    BY <2>3
  <2>6. g = [start \in first..L |-> g[start]]
    OBVIOUS
  <2> HIDE DEF g
  <2>7. L - m = first + 1
    BY <2>3
  <2>8. \A start \in first + 1..L : r[start] = Value(r, start)
    BY <2>2, <2>7
  <2>9. \A start \in first..L - 1 : Stop(data, start) \in first + 1..L
    BY <1>2, <2>3
  <2>10. \A start \in first..L - 1 : g[Stop(data, start)] = r[Stop(data, start)]
    BY <2>4, <2>9
  <2>11. ASSUME NEW start \in first..L
         PROVE  g[start] = Value(g, start)
    <3>1. CASE start = L
      <4>1. start \in first + 1..L
        BY <2>3, <3>1
      <4>2. r[start] = <<>>
        BY <2>8, <3>1, <4>1
      <4> QED
        BY <2>4, <3>1, <4>1, <4>2
    <3>2. CASE start = first
      <4>1. first \in first..L - 1 /\ first # L
        BY <2>3
      <4> QED
        BY <2>5, <2>10, <3>2, <4>1
    <3>3. CASE start # first /\ start # L
      <4>1. start \in first + 1..L /\ start \in first..L - 1
        BY <3>3
      <4>2. r[start] = Next1(r, start)
        BY <2>8, <3>3, <4>1
      <4> QED
        BY <2>4, <2>10, <3>3, <4>1, <4>2
    <3> QED
      BY <3>1, <3>2, <3>3
  <2>12. Good(g, m + 1)
    <3> HIDE DEF Value
    <3> QED
      BY <2>3, <2>6, <2>11
  <2> HIDE DEF Good
  <2> QED
    BY <2>12
<1>5. L \in N
  <2> HIDE DEF N
  <2> QED
    BY <1>3, <1>4, Induction
<1>6. PICK r : Good(r, L)
  BY <1>5
<1>7. L - L = 0
  OBVIOUS
<1> QED
  BY <1>1, <1>6, <1>7 DEF RangesEquation

\* The chunks of data after start, one after the other up to the end.
Splits(r, data) ==
  /\ r[Len(data)] = <<>>
  /\ \A start \in 0..Len(data) - 1 :
       r[start] = << SpanAt(data, start) >> \o r[Stop(data, start)]

LEMMA RangesSplit ==
  ASSUME NEW data \in Seq(Byte)
  PROVE  Splits(RangesAfter(data), data)
<1>1. PICK r : r = RangesAfter(data) /\ RangesEquation(r, data)
  <2> DEFINE k == CHOOSE r : RangesEquation(r, data)
  <2>1. RangesAfter(data) = k
    BY DEF RangesAfter, RangesEquation, SpanAt, Stop, Rest
  <2>2. RangesEquation(k, data)
    BY RangesExist
  <2> QED
    BY <2>1, <2>2
<1>2. PICK L \in Nat : L = Len(data)
  OBVIOUS
<1>3. \A start \in 0..L : r[start] = IF start = L THEN <<>>
                                     ELSE << SpanAt(data, start) >> \o r[Stop(data, start)]
  BY <1>1, <1>2 DEF RangesEquation
<1>4. L \in 0..L /\ \A start \in 0..L - 1 : start \in 0..L /\ start # L
  OBVIOUS
<1>5. r[L] = <<>> /\ \A start \in 0..L - 1 : r[start] = << SpanAt(data, start) >> \o r[Stop(data, start)]
  BY <1>3, <1>4
<1> QED
  BY <1>1, <1>2, <1>5 DEF Splits

\* The chunks of R follow one another from the one place to the other, and none of
\* them is empty or too long.
Tiles(R, from, to) ==
  /\ R \in Seq(Span)
  /\ R = <<>> => from = to
  /\ R # <<>> => R[1].start = from /\ R[Len(R)].stop = to
  /\ \A i \in 1..Len(R) : /\ R[i].start < R[i].stop /\ R[i].stop - R[i].start <= CdcMax
                          /\ from <= R[i].start /\ R[i].stop <= to
  /\ \A i \in 1..Len(R) - 1 : R[i].stop = R[i + 1].start

LEMMA TilesOne ==
  ASSUME NEW R, NEW from \in Nat, NEW mid \in Nat, NEW to \in Nat, Tiles(R, mid, to),
         from < mid, mid <= to, mid - from <= CdcMax
  PROVE  Tiles(<< [start |-> from, stop |-> mid] >> \o R, from, to)
<1>1. PICK one : one = [start |-> from, stop |-> mid]
  OBVIOUS
<1>2. one \in Span /\ one.start = from /\ one.stop = mid
  BY <1>1 DEF Span
<1>3. R \in Seq(Span) /\ Len(R) \in Nat
  BY DEF Tiles
<1>4. PICK n \in Nat : n = Len(R)
  BY <1>3
<1>5. PICK T : T = <<one>> \o R
  OBVIOUS
<1>6. /\ T \in Seq(Span) /\ Len(T) = n + 1 /\ T[1] = one
      /\ \A i \in 1..n : T[i + 1] = R[i]
  <2>1. <<one>> \in Seq(Span) /\ Len(<<one>>) = 1
    BY <1>2
  <2> QED
    BY <1>2, <1>3, <1>4, <1>5, <2>1
<1>7. ASSUME NEW i \in 1..n + 1, i # 1
      PROVE  i - 1 \in 1..n /\ T[i] = R[i - 1]
  <2>1. i - 1 \in 1..n /\ (i - 1) + 1 = i
    BY <1>7
  <2> QED
    BY <1>6, <2>1
<1>8. \A i \in 1..n + 1 : /\ T[i].start < T[i].stop /\ T[i].stop - T[i].start <= CdcMax
                          /\ from <= T[i].start /\ T[i].stop <= to
  <2>1. SUFFICES ASSUME NEW i \in 1..n + 1
                 PROVE  /\ T[i].start < T[i].stop /\ T[i].stop - T[i].start <= CdcMax
                        /\ from <= T[i].start /\ T[i].stop <= to
    OBVIOUS
  <2>2. CASE i = 1
    BY <1>2, <1>6, <2>2
  <2>3. CASE i # 1
    <3>1. i - 1 \in 1..n /\ T[i] = R[i - 1]
      BY <1>7, <2>3
    <3>2. R[i - 1] \in Span
      BY <1>3, <1>4, <3>1
    <3>3. R[i - 1].start \in Nat
      BY <3>2 DEF Span
    <3>4. /\ R[i - 1].start < R[i - 1].stop /\ R[i - 1].stop - R[i - 1].start <= CdcMax
          /\ mid <= R[i - 1].start /\ R[i - 1].stop <= to
      BY <1>4, <3>1 DEF Tiles
    <3> QED
      BY <3>1, <3>3, <3>4
  <2> QED
    BY <2>2, <2>3
<1>9. \A i \in 1..n : T[i].stop = T[i + 1].start
  <2>1. SUFFICES ASSUME NEW i \in 1..n PROVE T[i].stop = R[i].start
    BY <1>6
  <2>2. CASE i = 1
    <3>1. R # <<>>
      BY <1>4
    <3>2. R[1].start = mid
      BY <3>1 DEF Tiles
    <3> QED
      BY <1>2, <1>6, <2>2, <3>2
  <2>3. CASE i # 1
    <3>1. i - 1 \in 1..n - 1 /\ (i - 1) + 1 = i /\ T[i] = R[i - 1]
      BY <1>7, <2>3
    <3>2. R[i - 1].stop = R[(i - 1) + 1].start
      BY <1>4, <3>1 DEF Tiles
    <3> QED
      BY <3>1, <3>2
  <2> QED
    BY <2>2, <2>3
<1>10. T[n + 1].stop = to
  <2>1. CASE n = 0
    <3>1. R = <<>>
      BY <1>3, <1>4, <2>1, EmptySeq
    <3> QED
      BY <1>2, <1>6, <2>1, <3>1 DEF Tiles
  <2>2. CASE n # 0
    <3>1. R # <<>> /\ n \in 1..n
      BY <1>4, <2>2
    <3> QED
      BY <1>4, <1>6, <3>1 DEF Tiles
  <2> QED
    BY <2>1, <2>2
<1>11. Tiles(T, from, to)
  <2>1. T # <<>> /\ (n + 1) - 1 = n
    BY <1>6
  <2> QED
    BY <1>2, <1>6, <1>8, <1>9, <1>10, <2>1 DEF Tiles
<1> QED
  BY <1>1, <1>5, <1>11

LEMMA RangesTile ==
  ASSUME NEW data \in Seq(Byte)
  PROVE  \A start \in 0..Len(data) : Tiles(RangesAfter(data)[start], start, Len(data))
<1>1. PICK r : r = RangesAfter(data) /\ Splits(r, data)
  BY RangesSplit
<1>2. PICK L \in Nat : L = Len(data)
  OBVIOUS
<1> DEFINE Bad == { m \in 0..L : ~Tiles(r[L - m], L - m, L) }
<1>3. SUFFICES ASSUME Bad # {} PROVE FALSE
  <2>1. SUFFICES ASSUME NEW start \in 0..L PROVE Tiles(r[start], start, L)
    BY <1>1, <1>2
  <2>2. L - start \in 0..L /\ L - (L - start) = start
    OBVIOUS
  <2>3. L - start \notin Bad
    BY <1>3
  <2> QED
    BY <2>2, <2>3
<1>4. PICK m \in Bad : \A k \in Bad : m <= k
  <2>1. Bad \in SUBSET Nat
    OBVIOUS
  <2> HIDE DEF Bad
  <2> QED
    BY <1>3, <2>1, LeastElement
<1>5. PICK start \in 0..L : start = L - m
  OBVIOUS
<1>6. ~Tiles(r[start], start, L)
  BY <1>5
<1>7. CASE start = L
  <2>1. r[L] = <<>>
    BY <1>1, <1>2 DEF Splits
  <2>2. Tiles(<<>>, L, L)
    BY DEF Tiles
  <2> QED
    BY <1>6, <1>7, <2>1, <2>2
<1>8. CASE start # L
  <2>1. start \in 0..L - 1
    BY <1>8
  <2>2. PICK stop : stop = Stop(data, start)
    OBVIOUS
  <2>3. stop \in start + 1..L /\ stop - start <= CdcMax
    BY <1>2, <2>1, <2>2, StopBounds
  <2>4. r[start] = << [start |-> start, stop |-> stop] >> \o r[stop]
    BY <1>1, <1>2, <2>1, <2>2 DEF Splits, SpanAt
  <2>5. L - stop \in 0..L /\ L - (L - stop) = stop /\ L - stop < m
    BY <1>5, <2>1, <2>3
  <2>6. L - stop \notin Bad
    BY <1>4, <2>5
  <2>7. Tiles(r[stop], stop, L)
    BY <2>5, <2>6
  <2>8. Tiles(<< [start |-> start, stop |-> stop] >> \o r[stop], start, L)
    <3>1. stop \in Nat /\ start < stop /\ stop <= L
      BY <2>3
    <3> QED
      BY <2>3, <2>7, <3>1, TilesOne
  <2> QED
    BY <1>6, <2>4, <2>8
<1> QED
  BY <1>7, <1>8

\* What is not longer than CdcMin would not be cut anyway.
LEMMA WholeIsRanges ==
  ASSUME NEW data \in Seq(Byte)
  PROVE  WholeRanges(data) = RangesAfter(data)[0]
<1>1. CASE Len(data) \in 1..CdcMin
  <2>1. Rest(data, 0) = data
    <3>1. SubSeq(data, 1, Len(data)) = data
      BY SubSeqFull
    <3> QED
      BY <3>1 DEF Rest
  <2>2. data # <<>>
    BY <1>1
  <2>3. PICK k : k = NextCut(data)
    OBVIOUS
  <2>4. k \in 1..Len(data) /\ (k = Len(data) \/ k >= CdcMin)
    BY <2>2, <2>3, NextCutBounds
  <2>5. k = Len(data)
    BY <1>1, <2>4, Bounds
  <2>6. Stop(data, 0) = Len(data)
    <3>1. Stop(data, 0) = 0 + k
      BY <2>1, <2>3 DEF Stop
    <3> QED
      BY <2>4, <2>5, <3>1
  <2>7. 0 \in 0..Len(data) - 1
    BY <1>1
  <2>8. PICK r : r = RangesAfter(data) /\ Splits(r, data)
    BY RangesSplit
  <2>9. PICK one : one = SpanAt(data, 0)
    OBVIOUS
  <2>10. r[0] = << one >> \o <<>>
    BY <2>6, <2>7, <2>8, <2>9 DEF Splits
  <2>11. << one >> \o <<>> = << one >>
    <3>1. << one >> \in Seq({one})
      OBVIOUS
    <3> QED
      BY <3>1, ConcatEmptySeq
  <2>12. one = [start |-> 0, stop |-> Len(data)]
    BY <2>6, <2>9 DEF SpanAt
  <2> QED
    BY <1>1, <2>8, <2>10, <2>11, <2>12 DEF WholeRanges
<1>2. CASE Len(data) \notin 1..CdcMin
  BY <1>2 DEF WholeRanges
<1> QED
  BY <1>1, <1>2

LEMMA WholeTiles ==
  ASSUME NEW data \in Seq(Byte)
  PROVE  Tiles(WholeRanges(data), 0, Len(data))
<1>1. 0 \in 0..Len(data)
  OBVIOUS
<1> QED
  BY <1>1, WholeIsRanges, RangesTile

LEMMA BytesType ==
  ASSUME NEW data \in Seq(Byte), NEW start \in Nat, NEW stop \in Nat, stop <= Len(data), start <= stop
  PROVE  /\ SubSeq(data, start + 1, stop) \in Seq(Byte)
         /\ Len(SubSeq(data, start + 1, stop)) = stop - start
         /\ \A i \in 1..stop - start : SubSeq(data, start + 1, stop)[i] = data[start + i]
<1>1. start + 1 \in Int /\ stop \in Int /\ \A i \in start + 1..stop : data[i] \in Byte
  OBVIOUS
<1> DEFINE sub == SubSeq(data, start + 1, stop)
<1>2. /\ sub \in Seq(Byte)
      /\ Len(sub) = IF start + 1 <= stop THEN stop - (start + 1) + 1 ELSE 0
      /\ \A i \in 1..stop - (start + 1) + 1 : sub[i] = data[(start + 1) + i - 1]
  BY <1>1, SubSeqProperties
<1> HIDE DEF sub
<1>3. ASSUME NEW i \in 1..stop - start
      PROVE  sub[i] = data[start + i]
  <2>1. i \in 1..stop - (start + 1) + 1 /\ (start + 1) + i - 1 = start + i
    OBVIOUS
  <2>2. sub[i] = data[(start + 1) + i - 1]
    BY <1>2, <2>1
  <2> QED
    BY <2>1, <2>2
<1>4. Len(sub) = stop - start
  BY <1>2
<1> QED
  BY <1>2, <1>3, <1>4 DEF sub

\* The chunks are as many as the ranges and have their bytes.
LEMMA ChunksType ==
  ASSUME NEW data \in Seq(Byte)
  PROVE  /\ Len(ChunksOf(data)) = Len(WholeRanges(data))
         /\ ChunksOf(data) \in Seq(Seq(Byte))
         /\ \A i \in 1..Len(WholeRanges(data)) : ChunksOf(data)[i] = Bytes(data, WholeRanges(data)[i])
         /\ \A i \in 1..Len(WholeRanges(data)) :
              Len(ChunksOf(data)[i]) = WholeRanges(data)[i].stop - WholeRanges(data)[i].start
<1>1. PICK R : R = WholeRanges(data) /\ Tiles(R, 0, Len(data))
  BY WholeTiles
<1>2. R \in Seq(Span)
  BY <1>1 DEF Tiles
<1>3. PICK n \in Nat : n = Len(R) /\ DOMAIN R = 1..n
  BY <1>2
<1>4. PICK C : C = ChunksOf(data)
  OBVIOUS
<1>5. C = [i \in 1..n |-> Bytes(data, R[i])]
  BY <1>1, <1>3, <1>4 DEF ChunksOf
<1>6. ASSUME NEW i \in 1..n
      PROVE  Bytes(data, R[i]) \in Seq(Byte) /\ Len(Bytes(data, R[i])) = R[i].stop - R[i].start
  <2>1. R[i] \in Span
    BY <1>2, <1>3
  <2>2. PICK start \in Nat, stop \in Nat : start = R[i].start /\ stop = R[i].stop
    BY <2>1 DEF Span
  <2>3. start <= stop /\ stop <= Len(data)
    BY <1>1, <1>3, <2>2 DEF Tiles
  <2> QED
    BY <2>2, <2>3, BytesType, SMTT(30) DEF Bytes
<1>7. C \in Seq(Seq(Byte)) /\ Len(C) = n
  BY <1>5, <1>6
<1>8. \A i \in 1..n : C[i] = Bytes(data, R[i])
  BY <1>5
<1> QED
  BY <1>1, <1>3, <1>4, <1>6, <1>7, <1>8

-----------------------------------------------------------------------------
(* The chunks of a stream, so far.                                         *)

\* Named, so that the provers match it.
Join(a, b) == a \o b

LEMMA SpansJoin ==
  ASSUME NEW a \in Seq(Span), NEW b \in Seq(Span), NEW c \in Seq(Span)
  PROVE  Join(Join(a, b), c) = Join(a, Join(b, c))
BY ConcatAssociative DEF Join

\* What has been cut are the chunks of D before the place p.
CutUpTo(D, chunks, p) ==
  \E R \in Seq(Span) :
    /\ Len(R) = Len(chunks)
    /\ RangesAfter(D)[0] = R \o RangesAfter(D)[p]
    /\ \A i \in 1..Len(R) : chunks[i] = Bytes(D, R[i])

LEMMA CutNone ==
  ASSUME NEW D \in Seq(Byte)
  PROVE  CutUpTo(D, <<>>, 0)
<1>1. PICK W : W = RangesAfter(D)[0] /\ W \in Seq(Span)
  <2>1. 0 \in 0..Len(D)
    OBVIOUS
  <2> QED
    BY <2>1, RangesTile DEF Tiles
<1>2. <<>> \in Seq(Span) /\ Len(<<>>) = 0 /\ <<>> \o W = W
  BY <1>1, ConcatEmptySeq
<1>3. \A i \in 1..Len(<<>>) : <<>>[i] = Bytes(D, <<>>[i])
  OBVIOUS
<1> QED
  BY <1>1, <1>2, <1>3 DEF CutUpTo

LEMMA CutMore ==
  ASSUME NEW D \in Seq(Byte), NEW chunks \in Seq(Seq(Byte)), NEW p \in 0..Len(D) - 1,
         CutUpTo(D, chunks, p)
  PROVE  CutUpTo(D, Append(chunks, SubSeq(D, p + 1, Stop(D, p))), Stop(D, p))
<1>1. PICK R \in Seq(Span) :
        /\ Len(R) = Len(chunks)
        /\ RangesAfter(D)[0] = R \o RangesAfter(D)[p]
        /\ \A i \in 1..Len(R) : chunks[i] = Bytes(D, R[i])
  BY DEF CutUpTo
<1>2. PICK stop \in Nat : stop = Stop(D, p) /\ stop \in 0..Len(D)
  BY StopBounds
<1>3. PICK rest : rest = RangesAfter(D)[stop] /\ rest \in Seq(Span)
  BY <1>2, RangesTile DEF Tiles
<1>4. PICK one \in Span : one = SpanAt(D, p) /\ one.start = p /\ one.stop = stop
  <2>1. SpanAt(D, p) = [start |-> p, stop |-> stop] /\ p \in Nat
    BY <1>2 DEF SpanAt
  <2>2. [start |-> p, stop |-> stop] \in Span
    BY <2>1 DEF Span
  <2> QED
    BY <2>1, <2>2
<1>5. PICK T \in Seq(Span) : T = << one >>
  <2>1. << one >> \in Seq(Span)
    OBVIOUS
  <2> QED
    BY <2>1
<1>6. PICK n \in Nat : n = Len(R)
  OBVIOUS
<1>7. PICK R2 \in Seq(Span) : R2 = R \o T
  <2>1. R \o T \in Seq(Span)
    OBVIOUS
  <2> QED
    BY <2>1
<1>8. Len(R2) = n + 1 /\ R2[n + 1] = one /\ \A i \in 1..n : R2[i] = R[i]
  BY <1>5, <1>6, <1>7
<1>9. RangesAfter(D)[0] = R2 \o rest
  <2>1. PICK W : W = RangesAfter(D)[p] /\ W = T \o rest
    BY <1>2, <1>3, <1>4, <1>5, RangesSplit DEF Splits
  <2>2. Join(R2, rest) = Join(R, W)
    <3>1. W = Join(T, rest) /\ R2 = Join(R, T)
      BY <1>7, <2>1 DEF Join
    <3> QED
      BY <1>3, <3>1, SpansJoin
  <2> QED
    BY <1>1, <2>1, <2>2 DEF Join
<1>10. PICK chunk : chunk = SubSeq(D, p + 1, stop)
  OBVIOUS
<1>11. chunk \in Seq(Byte)
  <2>1. p \in Nat /\ p <= stop /\ stop <= Len(D)
    BY <1>2, StopBounds
  <2> QED
    BY <1>10, <2>1, BytesType
<1>12. PICK C : C = Append(chunks, chunk)
  OBVIOUS
<1>13. Len(C) = n + 1 /\ C[n + 1] = chunk /\ \A i \in 1..n : C[i] = chunks[i]
  BY <1>1, <1>6, <1>11, <1>12
<1>14. \A i \in 1..n + 1 : C[i] = Bytes(D, R2[i])
  <2>1. C[n + 1] = Bytes(D, R2[n + 1])
    BY <1>4, <1>8, <1>10, <1>13 DEF Bytes
  <2>2. \A i \in 1..n : C[i] = Bytes(D, R2[i])
    BY <1>1, <1>6, <1>8, <1>13
  <2>3. \A i \in 1..n + 1 : i \in 1..n \/ i = n + 1
    OBVIOUS
  <2> QED
    BY <2>1, <2>2, <2>3
<1>15. CutUpTo(D, C, stop)
  BY <1>3, <1>8, <1>9, <1>13, <1>14 DEF CutUpTo
<1> QED
  BY <1>2, <1>10, <1>12, <1>15

LEMMA CutIsPrefix ==
  ASSUME NEW D \in Seq(Byte), NEW chunks \in Seq(Seq(Byte)), NEW p \in 0..Len(D),
         CutUpTo(D, chunks, p)
  PROVE  /\ IsPrefix(chunks, ChunksOf(D))
         /\ p = Len(D) => chunks = ChunksOf(D)
<1>1. PICK R \in Seq(Span) :
        /\ Len(R) = Len(chunks)
        /\ RangesAfter(D)[0] = R \o RangesAfter(D)[p]
        /\ \A i \in 1..Len(R) : chunks[i] = Bytes(D, R[i])
  BY DEF CutUpTo
<1>2. PICK rest : rest = RangesAfter(D)[p] /\ rest \in Seq(Span)
  BY RangesTile DEF Tiles
<1>3. PICK W : W = WholeRanges(D) /\ W = R \o rest
  BY <1>1, <1>2, WholeIsRanges
<1>4. PICK n \in Nat : n = Len(R)
  OBVIOUS
<1>5. PICK m \in Nat : m = Len(rest)
  BY <1>2
<1>6. Len(W) = n + m /\ \A i \in 1..n : W[i] = R[i]
  BY <1>2, <1>3, <1>4, <1>5
<1>7. PICK C \in Seq(Seq(Byte)) :
        /\ C = ChunksOf(D) /\ Len(C) = n + m
        /\ \A i \in 1..n + m : C[i] = Bytes(D, W[i])
  BY <1>3, <1>6, ChunksType
<1>8. \A i \in 1..n : chunks[i] = C[i]
  <2>1. \A i \in 1..n : i \in 1..n + m
    OBVIOUS
  <2> QED
    BY <1>1, <1>4, <1>6, <1>7, <2>1
<1>9. SubSeq(C, 1, n) = chunks
  <2>1. 1 \in Int /\ n \in Int /\ \A i \in 1..n : C[i] \in Seq(Byte)
    BY <1>7
  <2>2. PICK S \in Seq(Seq(Byte)) : S = SubSeq(C, 1, n)
    BY <2>1, SubSeqProperties
  <2>3. Len(S) = n
    BY <2>1, <2>2, SubSeqProperties
  <2>4. \A i \in 1..n : S[i] = C[i]
    <3>1. \A i \in 1..n - 1 + 1 : SubSeq(C, 1, n)[i] = C[1 + i - 1]
      BY <2>1, SubSeqProperties
    <3>2. \A i \in 1..n : i \in 1..n - 1 + 1 /\ 1 + i - 1 = i
      OBVIOUS
    <3> QED
      BY <2>2, <3>1, <3>2
  <2>5. Len(chunks) = n /\ \A i \in 1..Len(S) : S[i] = chunks[i]
    BY <1>1, <1>4, <1>8, <2>3, <2>4
  <2>6. S = chunks
    BY <2>3, <2>5, SeqEqual
  <2> QED
    BY <2>2, <2>6
<1>10. IsPrefix(chunks, C)
  <2>1. SubSeq(chunks, 1, Len(chunks)) = chunks
    BY SubSeqFull
  <2>2. Len(chunks) = n /\ n <= Len(C)
    BY <1>1, <1>4, <1>7
  <2> QED
    BY <1>9, <2>1, <2>2 DEF IsPrefix
<1>11. ASSUME p = Len(D) PROVE chunks = C
  <2>1. rest = <<>>
    BY <1>2, <1>11, RangesSplit DEF Splits
  <2>2. m = 0 /\ n + m = n
    BY <1>5, <2>1
  <2>3. SubSeq(C, 1, Len(C)) = C
    BY SubSeqFull
  <2> QED
    BY <1>7, <1>9, <2>2, <2>3
<1> QED
  BY <1>7, <1>10, <1>11

\* D begins with T.
Extends(D, T) == D \in Seq(Byte) /\ Len(T) <= Len(D) /\ \A i \in 1..Len(T) : D[i] = T[i]

\* What the chunker knows when it has read T: b is what of it has not been cut, the
\* hash has gone k bytes into that and found no cut.  However the stream goes on, and it
\* does not go on once it has ended, the chunks so far are those of the whole of it.
Stream(T, b, k, h, chunks, end) ==
  /\ T \in Seq(Byte) /\ b \in Seq(Byte) /\ Len(b) <= Len(T)
  /\ \A i \in 1..Len(b) : b[i] = T[(Len(T) - Len(b)) + i]
  /\ k \in 0..Len(b) /\ h = Hashes(b)[k] /\ Uncut(b, k)
  /\ chunks \in Seq(Seq(Byte))
  /\ \A D : Extends(D, T) /\ (end => D = T) => CutUpTo(D, chunks, Len(T) - Len(b))

LEMMA HashBegins ==
  ASSUME NEW b \in Seq(Byte)
  PROVE  Hashes(b)[0] = 0 /\ Uncut(b, 0)
BY HashesRoll DEF Rolls, Uncut

LEMMA StreamBegins == Stream(<<>>, <<>>, 0, 0, <<>>, FALSE)
<1>1. <<>> \in Seq(Byte) /\ <<>> \in Seq(Seq(Byte)) /\ Len(<<>>) = 0
  OBVIOUS
<1>2. Hashes(<<>>)[0] = 0 /\ Uncut(<<>>, 0)
  BY <1>1, HashBegins
<1>3. \A D : Extends(D, <<>>) => CutUpTo(D, <<>>, 0)
  BY CutNone DEF Extends
<1>4. \A i \in 1..0 : <<>>[i] = <<>>[(0 - 0) + i]
  OBVIOUS
<1> QED
  BY <1>1, <1>2, <1>3, <1>4 DEF Stream

LEMMA StreamReads ==
  ASSUME NEW T, NEW b, NEW k, NEW h, NEW chunks, Stream(T, b, k, h, chunks, FALSE),
         NEW bytes \in Seq(Byte), NEW end \in BOOLEAN
  PROVE  Stream(T \o bytes, b \o bytes, k, h, chunks, end)
<1>1. T \in Seq(Byte) /\ b \in Seq(Byte) /\ Len(b) <= Len(T)
  BY DEF Stream
<1>2. PICK l \in Nat, m \in Nat, n \in Nat : l = Len(T) /\ m = Len(b) /\ n = Len(bytes)
  BY <1>1
<1>3. PICK T2 \in Seq(Byte) : T2 = T \o bytes
  <2>1. T \o bytes \in Seq(Byte)
    BY <1>1
  <2> QED
    BY <2>1
<1>4. PICK b2 \in Seq(Byte) : b2 = b \o bytes
  <2>1. b \o bytes \in Seq(Byte)
    BY <1>1
  <2> QED
    BY <2>1
<1>5. /\ Len(T2) = l + n
      /\ \A i \in 1..l : T2[i] = T[i]
      /\ \A i \in 1..n : T2[l + i] = bytes[i]
  BY <1>1, <1>2, <1>3
<1>6. /\ Len(b2) = m + n
      /\ \A i \in 1..m : b2[i] = b[i]
      /\ \A i \in 1..n : b2[m + i] = bytes[i]
  BY <1>1, <1>2, <1>4
<1>7. m <= l /\ Len(T2) - Len(b2) = l - m
  BY <1>1, <1>2, <1>5, <1>6
<1>8. \A i \in 1..m + n : b2[i] = T2[(l - m) + i]
  <2>1. SUFFICES ASSUME NEW i \in 1..m + n PROVE b2[i] = T2[(l - m) + i]
    OBVIOUS
  <2>2. CASE i <= m
    <3>1. i \in 1..m /\ (l - m) + i \in 1..l
      BY <1>7, <2>2
    <3>2. b[i] = T[(l - m) + i]
      BY <1>2, <3>1 DEF Stream
    <3> QED
      BY <1>5, <1>6, <3>1, <3>2
  <2>3. CASE i > m
    <3>1. i - m \in 1..n /\ m + (i - m) = i /\ l + (i - m) = (l - m) + i
      BY <2>3
    <3> QED
      BY <1>5, <1>6, <3>1
  <2> QED
    BY <2>2, <2>3
<1>9. k \in 0..m /\ k \in 0..m + n
  BY <1>2 DEF Stream
<1>10. \A i \in 0..k : Hashes(b2)[i] = Hashes(b)[i]
  <2>1. \A i \in 1..k : b2[i] = b[i]
    BY <1>6, <1>9
  <2>2. k \in Nat /\ k <= Len(b2) /\ k <= Len(b)
    BY <1>2, <1>6, <1>9
  <2> QED
    BY <1>1, <2>1, <2>2, HashesAlike
<1>11. h = Hashes(b2)[k] /\ Uncut(b2, k)
  <2>1. h = Hashes(b)[k] /\ Uncut(b, k)
    BY DEF Stream
  <2>2. k \in 0..k /\ \A i \in 1..k : i \in 0..k
    BY <1>9
  <2> QED
    BY <1>10, <2>1, <2>2 DEF Uncut
<1>12. \A D : Extends(D, T2) => CutUpTo(D, chunks, l - m)
  <2>1. SUFFICES ASSUME NEW D, Extends(D, T2) PROVE CutUpTo(D, chunks, l - m)
    OBVIOUS
  <2>2. D \in Seq(Byte) /\ l + n <= Len(D) /\ \A i \in 1..l + n : D[i] = T2[i]
    BY <1>5, <2>1 DEF Extends
  <2>3. Len(T) <= Len(D) /\ \A i \in 1..Len(T) : D[i] = T[i]
    <3>1. \A i \in 1..l : i \in 1..l + n
      OBVIOUS
    <3> QED
      BY <1>2, <1>5, <2>2, <3>1
  <2>4. Extends(D, T)
    BY <2>2, <2>3 DEF Extends
  <2> QED
    BY <1>2, <2>4 DEF Stream
<1>13. Stream(T2, b2, k, h, chunks, end)
  <2>1. chunks \in Seq(Seq(Byte))
    BY DEF Stream
  <2>2. Len(b2) <= Len(T2)
    BY <1>5, <1>6, <1>7
  <2> QED
    BY <1>5, <1>6, <1>7, <1>8, <1>9, <1>11, <1>12, <2>1, <2>2 DEF Stream
<1> QED
  BY <1>3, <1>4, <1>13

LEMMA StreamGoesOn ==
  ASSUME NEW T, NEW b, NEW k, NEW h, NEW chunks, NEW end, Stream(T, b, k, h, chunks, end),
         k < Len(b), ~CutsAt(Roll(h, b[k + 1]), k + 1)
  PROVE  Stream(T, b, k + 1, Roll(h, b[k + 1]), chunks, end)
<1>1. b \in Seq(Byte) /\ k \in 0..Len(b) /\ h = Hashes(b)[k] /\ Uncut(b, k)
  BY DEF Stream
<1>2. k \in Nat /\ k + 1 \in 0..Len(b) /\ k + 1 \in 1..Len(b) /\ (k + 1) - 1 = k
  BY <1>1
<1>3. Hashes(b)[k + 1] = Roll(h, b[k + 1])
  BY <1>1, <1>2, HashesRoll DEF Rolls
<1>4. Uncut(b, k + 1)
  <2>1. \A i \in 1..k + 1 : i \in 1..k \/ i = k + 1
    BY <1>2
  <2> QED
    BY <1>1, <1>3, <2>1 DEF Uncut
<1> QED
  BY <1>2, <1>3, <1>4 DEF Stream

\* Where the next cut is if it is at len.
LEMMA CutAfter ==
  ASSUME NEW T, NEW b, NEW k, NEW h, NEW chunks, NEW end, Stream(T, b, k, h, chunks, end),
         NEW len \in 1..Len(b), Uncut(b, len - 1),
         NEW D, Extends(D, T), end => D = T,
         CutsAt(Hashes(b)[len], len) \/ (D = T /\ len = Len(b))
  PROVE  CutUpTo(D, Append(chunks, SubSeq(b, 1, len)), (Len(T) - Len(b)) + len)
<1>1. T \in Seq(Byte) /\ b \in Seq(Byte) /\ D \in Seq(Byte) /\ chunks \in Seq(Seq(Byte))
  BY DEF Stream, Extends
<1>2. PICK l \in Nat, m \in Nat : l = Len(T) /\ m = Len(b)
  BY <1>1
<1>3. PICK d \in Nat : d = Len(D)
  BY <1>1
<1>4. m <= l /\ l <= d
  BY <1>2, <1>3 DEF Stream, Extends
<1>5. PICK p \in Nat : p = l - m
  BY <1>4
<1>6. CutUpTo(D, chunks, p)
  BY <1>2, <1>5 DEF Stream
<1>7. p \in 0..Len(D) - 1 /\ p \in 0..Len(D) /\ p + len <= d /\ len <= m
  BY <1>2, <1>3, <1>4, <1>5
<1>8. PICK rest : rest = Rest(D, p)
  OBVIOUS
<1>9. /\ rest \in Seq(Byte) /\ Len(rest) = d - p
      /\ \A i \in 1..d - p : rest[i] = D[p + i]
  BY <1>1, <1>3, <1>7, <1>8, RestProperties
<1>10. \A i \in 1..m : rest[i] = b[i]
  <2>1. SUFFICES ASSUME NEW i \in 1..m PROVE rest[i] = b[i]
    OBVIOUS
  <2>2. i \in 1..d - p /\ p + i \in 1..l
    BY <1>4, <1>5
  <2>3. b[i] = T[p + i]
    BY <1>2, <1>5 DEF Stream
  <2>4. D[p + i] = T[p + i]
    BY <1>2, <2>2 DEF Extends
  <2> QED
    BY <1>9, <2>2, <2>3, <2>4
<1>11. \A i \in 0..len : Hashes(rest)[i] = Hashes(b)[i]
  <2>1. len \in Nat /\ len <= Len(rest) /\ len <= Len(b)
    BY <1>2, <1>3, <1>7, <1>9
  <2>2. \A i \in 1..len : rest[i] = b[i]
    BY <1>7, <1>10
  <2> QED
    BY <1>1, <1>9, <2>1, <2>2, HashesAlike
<1>12. Uncut(rest, len - 1)
  <2>1. \A i \in 1..len - 1 : i \in 0..len
    OBVIOUS
  <2> QED
    BY <1>11, <2>1 DEF Uncut
<1>13. len = Len(rest) \/ CutsAt(Hashes(rest)[len], len)
  <2>1. CASE CutsAt(Hashes(b)[len], len)
    <3>1. len \in 0..len
      OBVIOUS
    <3> QED
      BY <1>11, <2>1, <3>1
  <2>2. CASE D = T /\ len = Len(b)
    BY <1>2, <1>3, <1>4, <1>5, <1>9, <2>2
  <2> QED
    BY <2>1, <2>2
<1>14. NextCut(rest) = len
  <2>1. len \in 1..Len(rest)
    BY <1>7, <1>9
  <2> QED
    BY <1>9, <1>12, <1>13, <2>1, NextCutIs
<1>15. Stop(D, p) = p + len
  BY <1>8, <1>14 DEF Stop
<1>16. SubSeq(D, p + 1, p + len) = SubSeq(b, 1, len)
  <2>1. PICK x : x = SubSeq(D, p + 1, p + len)
    OBVIOUS
  <2>2. /\ x \in Seq(Byte) /\ Len(x) = len
        /\ \A i \in 1..len : x[i] = D[p + i]
    <3>1. p \in Nat /\ p + len \in Nat /\ p + len <= Len(D) /\ p <= p + len /\ (p + len) - p = len
      BY <1>3, <1>7
    <3> QED
      BY <1>1, <2>1, <3>1, BytesType, SMTT(30)
  <2>3. PICK y : y = SubSeq(b, 0 + 1, len)
    OBVIOUS
  <2>4. /\ y \in Seq(Byte) /\ Len(y) = len
        /\ \A i \in 1..len : y[i] = b[0 + i]
    <3>1. 0 \in Nat /\ len \in Nat /\ len <= Len(b) /\ 0 <= len /\ len - 0 = len
      OBVIOUS
    <3> QED
      BY <1>1, <2>3, <3>1, BytesType
  <2>5. ASSUME NEW i \in 1..len
        PROVE  x[i] = y[i]
    <3>1. i \in 1..m /\ i \in 1..d - p /\ 0 + i = i
      BY <1>7
    <3> QED
      BY <1>9, <1>10, <2>2, <2>4, <3>1
  <2>6. x = y
    BY <2>2, <2>4, <2>5, SeqEqual
  <2> QED
    BY <2>1, <2>3, <2>6
<1>17. CutUpTo(D, Append(chunks, SubSeq(D, p + 1, Stop(D, p))), Stop(D, p))
  BY <1>1, <1>6, <1>7, CutMore
<1> QED
  BY <1>2, <1>5, <1>15, <1>16, <1>17

LEMMA StreamCuts ==
  ASSUME NEW T, NEW b, NEW k, NEW h, NEW chunks, NEW end, Stream(T, b, k, h, chunks, end),
         k < Len(b), CutsAt(Roll(h, b[k + 1]), k + 1)
  PROVE  Stream(T, SubSeq(b, k + 2, Len(b)), 0, 0, Append(chunks, SubSeq(b, 1, k + 1)), end)
<1>1. /\ T \in Seq(Byte) /\ b \in Seq(Byte) /\ chunks \in Seq(Seq(Byte))
      /\ k \in 0..Len(b) /\ h = Hashes(b)[k] /\ Uncut(b, k)
  BY DEF Stream
<1>2. PICK l \in Nat, m \in Nat : l = Len(T) /\ m = Len(b)
  BY <1>1
<1>3. PICK len \in 1..Len(b) : len = k + 1
  BY <1>1
<1>4. m <= l /\ len <= m /\ len - 1 = k
  BY <1>1, <1>2, <1>3 DEF Stream
<1>5. CutsAt(Hashes(b)[len], len)
  BY <1>1, <1>3, <1>4, HashesRoll DEF Rolls
<1>6. PICK r : r = Rest(b, len)
  OBVIOUS
<1>7. /\ r \in Seq(Byte) /\ Len(r) = m - len
      /\ \A i \in 1..m - len : r[i] = b[len + i]
  <2>1. len \in 0..Len(b)
    OBVIOUS
  <2> QED
    BY <1>1, <1>2, <1>6, <2>1, RestProperties
<1>8. l - Len(r) = (l - m) + len /\ Len(r) <= l
  BY <1>4, <1>7
<1>9. ASSUME NEW i \in 1..m - len
      PROVE  r[i] = T[((l - m) + len) + i]
  <2>1. len + i \in 1..Len(b) /\ (l - m) + (len + i) = ((l - m) + len) + i
    BY <1>2, <1>4
  <2>2. b[len + i] = T[(l - m) + (len + i)]
    BY <1>2, <2>1 DEF Stream
  <2> QED
    BY <1>7, <2>1, <2>2
<1>10. PICK c : c = Append(chunks, SubSeq(b, 1, len))
  OBVIOUS
<1>11. c \in Seq(Seq(Byte))
  <2>1. SubSeq(b, 0 + 1, len) \in Seq(Byte)
    BY <1>1, BytesType
  <2> QED
    BY <1>1, <1>10, <2>1
<1>12. ASSUME NEW D, Extends(D, T), end => D = T
       PROVE  CutUpTo(D, c, (l - m) + len)
  <2>1. Uncut(b, len - 1)
    BY <1>1, <1>4
  <2> QED
    BY <1>2, <1>5, <1>10, <1>12, <2>1, CutAfter
<1>13. Hashes(r)[0] = 0 /\ Uncut(r, 0)
  BY <1>7, HashBegins
<1>14. Stream(T, r, 0, 0, c, end)
  <2>1. 0 \in 0..Len(r)
    BY <1>4, <1>7
  <2> QED
    BY <1>1, <1>2, <1>7, <1>8, <1>9, <1>11, <1>12, <1>13, <2>1 DEF Stream
<1>15. r = SubSeq(b, k + 2, Len(b)) /\ c = Append(chunks, SubSeq(b, 1, k + 1))
  <2>1. len + 1 = k + 2
    BY <1>1, <1>3
  <2> QED
    BY <1>3, <1>6, <1>10, <2>1 DEF Rest
<1> QED
  BY <1>14, <1>15

\* At the end of the stream what is left is its last chunk.
LEMMA StreamEnds ==
  ASSUME NEW T, NEW b, NEW h, NEW chunks, Stream(T, b, Len(b), h, chunks, TRUE), b # <<>>
  PROVE  Stream(T, <<>>, 0, 0, Append(chunks, b), TRUE)
<1>1. T \in Seq(Byte) /\ b \in Seq(Byte) /\ chunks \in Seq(Seq(Byte)) /\ Uncut(b, Len(b)) /\ Len(b) <= Len(T)
  BY DEF Stream
<1>2. PICK l \in Nat, m \in Nat : l = Len(T) /\ m = Len(b)
  BY <1>1
<1>3. m \in 1..Len(b) /\ m <= l
  BY <1>1, <1>2, EmptySeq
<1>4. Uncut(b, m - 1)
  <2>1. \A i \in 1..m - 1 : i \in 1..m
    OBVIOUS
  <2> QED
    BY <1>1, <1>2, <2>1 DEF Uncut
<1>5. SubSeq(b, 1, m) = b
  BY <1>1, <1>2, SubSeqFull
<1>6. CutUpTo(T, Append(chunks, b), l)
  <2>1. Extends(T, T)
    BY <1>1, <1>2 DEF Extends
  <2>2. CutUpTo(T, Append(chunks, SubSeq(b, 1, m)), (Len(T) - Len(b)) + m)
    BY <1>2, <1>3, <1>4, <2>1, CutAfter
  <2>3. (Len(T) - Len(b)) + m = l
    BY <1>2
  <2> QED
    BY <1>5, <2>2, <2>3
<1>7. Append(chunks, b) \in Seq(Seq(Byte))
  BY <1>1
<1>8. <<>> \in Seq(Byte) /\ Len(<<>>) = 0 /\ l - 0 = l
  OBVIOUS
<1>9. Hashes(<<>>)[0] = 0 /\ Uncut(<<>>, 0)
  BY <1>8, HashBegins
<1> QED
  BY <1>1, <1>2, <1>6, <1>7, <1>8, <1>9 DEF Stream

-----------------------------------------------------------------------------
(* What is read back.                                                      *)

\* Every block can be read: what encryption adds to a greatest chunk does not make its
\* block too large.  MCChunksLarge has bounds that validate() lets pass and for which
\* this does not hold.
BlocksFit == CdcMax + Tag <= MaxBlock

LEMMA BlocksOpen ==
  ASSUME BlocksFit, NEW chunk, IsChunk(chunk)
  PROVE  BlockOpens(chunk)
<1>1. PICK n \in Nat : n = Len(chunk) /\ 1 <= n /\ n <= CdcMax
  BY Bounds DEF IsChunk
<1>2. Tag \in Nat /\ MaxBlock \in Nat /\ MaxPlaintext \in Nat /\ CdcMax <= MaxPlaintext
  BY BoundsAssumption, SizeAssumption
<1>3. PICK m : m = IF Shrinks(chunk) THEN 1 ELSE n
  OBVIOUS
<1>4. m \in Nat /\ m <= n
  BY <1>1, <1>3
<1>5. BlockLen(chunk) = m + Tag
  BY <1>1, <1>3 DEF BlockLen
<1>6. m + Tag <= MaxBlock
  BY <1>1, <1>2, <1>4, Bounds DEF BlocksFit
<1>7. n <= Smaller(CdcMax, MaxPlaintext)
  BY <1>1, <1>2, Bounds DEF Smaller
<1> QED
  BY <1>1, <1>5, <1>6, <1>7 DEF BlockOpens

End(entry) == entry.offset + entry.size

NothingRead == [failed |-> FALSE, pos |-> 0, out |-> <<>>]

\* Block by block.
ReadsEquation(f, entry) ==
  f = [n \in 0..Len(entry.chunks) |->
        IF n = 0 THEN NothingRead
        ELSE ReadBlock(f[n - 1], entry.chunks[n], entry.offset, End(entry))]

LEMMA ReadsExist ==
  ASSUME NEW entry, Len(entry.chunks) \in Nat
  PROVE  \E f : ReadsEquation(f, entry)
<1> DEFINE Value(f, n) == IF n = 0 THEN NothingRead
                          ELSE ReadBlock(f[n - 1], entry.chunks[n], entry.offset, End(entry))
           Good(f, m) == f = [n \in 0..m |-> Value(f, n)]
           N == { m \in Nat : \E f : Good(f, m) }
<1>1. 0 \in N
  <2>1. Good([n \in 0..0 |-> NothingRead], 0)
    OBVIOUS
  <2> HIDE DEF Good
  <2>2. \E f : Good(f, 0)
    BY <2>1
  <2> QED
    BY <2>2
<1>2. ASSUME NEW m \in Nat, m \in N
      PROVE  m + 1 \in N
  <2>1. PICK f : Good(f, m)
    BY <1>2
  <2> DEFINE g == [n \in 0..m + 1 |-> IF n <= m THEN f[n] ELSE Value(f, m + 1)]
  <2>2. \A n \in 0..m : g[n] = f[n]
    OBVIOUS
  <2>3. g[m + 1] = Value(f, m + 1)
    OBVIOUS
  <2>4. g = [n \in 0..m + 1 |-> g[n]]
    OBVIOUS
  <2> HIDE DEF g
  <2>5. \A n \in 0..m : f[n] = Value(f, n)
    BY <2>1
  <2>6. ASSUME NEW n \in 0..m + 1
        PROVE  g[n] = Value(g, n)
    <3>1. CASE n = 0
      BY <2>2, <2>5, <3>1
    <3>2. CASE n \in 1..m
      <4>1. n - 1 \in 0..m /\ n \in 0..m
        BY <3>2
      <4> QED
        BY <2>2, <2>5, <3>2, <4>1
    <3>3. CASE n = m + 1
      <4>1. m \in 0..m /\ (m + 1) - 1 = m
        OBVIOUS
      <4> QED
        BY <2>2, <2>3, <3>3, <4>1
    <3> QED
      BY <3>1, <3>2, <3>3
  <2>7. Good(g, m + 1)
    <3> HIDE DEF Value
    <3> QED
      BY <2>4, <2>6
  <2> HIDE DEF Good
  <2>8. \E k : Good(k, m + 1)
    BY <2>7
  <2> QED
    BY <2>8
<1>3. Len(entry.chunks) \in N
  <2> HIDE DEF N
  <2> QED
    BY <1>1, <1>2, Induction
<1> QED
  BY <1>3 DEF ReadsEquation

\* What has been read after n blocks.
Reads(f, entry, n) ==
  /\ f[0] = NothingRead
  /\ \A i \in 1..n : f[i] = ReadBlock(f[i - 1], entry.chunks[i], entry.offset, End(entry))
  /\ Extracted(entry) = [failed |-> f[n].failed \/ f[n].pos < End(entry), out |-> f[n].out]

LEMMA ExtractedReads ==
  ASSUME NEW entry, NEW n \in Nat, Len(entry.chunks) = n
  PROVE  \E f : Reads(f, entry, n)
<1>1. PICK f : ReadsEquation(f, entry)
                /\ Extracted(entry) = [failed |-> f[n].failed \/ f[n].pos < End(entry), out |-> f[n].out]
  <2> DEFINE k == CHOOSE f : ReadsEquation(f, entry)
  <2>1. Extracted(entry) = [failed |-> k[Len(entry.chunks)].failed \/ k[Len(entry.chunks)].pos < End(entry),
                            out |-> k[Len(entry.chunks)].out]
    BY DEF Extracted, ReadsEquation, NothingRead, End
  <2>2. ReadsEquation(k, entry)
    BY ReadsExist
  <2> HIDE DEF k
  <2> QED
    BY <2>1, <2>2
<1>2. \A i \in 0..n : f[i] = IF i = 0 THEN NothingRead
                             ELSE ReadBlock(f[i - 1], entry.chunks[i], entry.offset, End(entry))
  BY <1>1 DEF ReadsEquation
<1>3. 0 \in 0..n /\ \A i \in 1..n : i \in 0..n /\ i # 0
  OBVIOUS
<1>4. f[0] = NothingRead /\ \A i \in 1..n : f[i] = ReadBlock(f[i - 1], entry.chunks[i], entry.offset, End(entry))
  BY <1>2, <1>3
<1> QED
  BY <1>1, <1>4 DEF Reads

\* The bytes of data after the one place, up to the other.
Part(data, from, to) == SubSeq(data, from + 1, to)

LEMMA PartType ==
  ASSUME NEW data \in Seq(Byte), NEW from \in Nat, NEW to \in Nat, from <= to, to <= Len(data)
  PROVE  /\ Part(data, from, to) \in Seq(Byte)
         /\ Len(Part(data, from, to)) = to - from
         /\ \A i \in 1..to - from : Part(data, from, to)[i] = data[from + i]
BY BytesType DEF Part

LEMMA PartOfPart ==
  ASSUME NEW data \in Seq(Byte), NEW from \in Nat, NEW to \in Nat, from <= to, to <= Len(data),
         NEW lo \in Nat, NEW hi \in Nat, lo <= hi, from + hi <= to
  PROVE  Part(Part(data, from, to), lo, hi) = Part(data, from + lo, from + hi)
<1>1. PICK x : x = Part(data, from, to)
  OBVIOUS
<1>2. x \in Seq(Byte) /\ Len(x) = to - from /\ \A i \in 1..to - from : x[i] = data[from + i]
  BY <1>1, PartType
<1>3. PICK y : y = Part(x, lo, hi)
  OBVIOUS
<1>4. y \in Seq(Byte) /\ Len(y) = hi - lo /\ \A i \in 1..hi - lo : y[i] = x[lo + i]
  <2>1. hi <= Len(x)
    BY <1>2
  <2> QED
    BY <1>2, <1>3, <2>1, PartType
<1>5. PICK z : z = Part(data, from + lo, from + hi)
  OBVIOUS
<1>6. z \in Seq(Byte) /\ Len(z) = hi - lo /\ \A i \in 1..hi - lo : z[i] = data[(from + lo) + i]
  <2>1. /\ from + lo \in Nat /\ from + hi \in Nat /\ from + lo <= from + hi /\ from + hi <= Len(data)
        /\ (from + hi) - (from + lo) = hi - lo
    OBVIOUS
  <2>2. /\ z \in Seq(Byte) /\ Len(z) = (from + hi) - (from + lo)
        /\ \A i \in 1..(from + hi) - (from + lo) : z[i] = data[(from + lo) + i]
    BY <1>5, <2>1, PartType
  <2> QED
    BY <2>1, <2>2
<1>7. ASSUME NEW i \in 1..hi - lo
      PROVE  y[i] = z[i]
  <2>1. lo + i \in 1..to - from /\ from + (lo + i) = (from + lo) + i
    OBVIOUS
  <2> QED
    BY <1>2, <1>4, <1>6, <2>1
<1>8. y = z
  BY <1>4, <1>6, <1>7, SeqEqual
<1> QED
  BY <1>1, <1>3, <1>5, <1>8

LEMMA PartsJoin ==
  ASSUME NEW data \in Seq(Byte), NEW from \in Nat, NEW mid \in Nat, NEW to \in Nat,
         from <= mid, mid <= to, to <= Len(data)
  PROVE  Join(Part(data, from, mid), Part(data, mid, to)) = Part(data, from, to)
<1>1. PICK l \in Nat, m \in Nat : l = mid - from /\ m = to - mid
  OBVIOUS
<1>2. PICK x : x = Part(data, from, mid)
  OBVIOUS
<1>3. x \in Seq(Byte) /\ Len(x) = l /\ \A i \in 1..l : x[i] = data[from + i]
  <2>1. mid <= Len(data)
    OBVIOUS
  <2>2. x \in Seq(Byte) /\ Len(x) = mid - from /\ \A i \in 1..mid - from : x[i] = data[from + i]
    BY <1>2, <2>1, PartType
  <2> QED
    BY <1>1, <2>2
<1>4. PICK y : y = Part(data, mid, to)
  OBVIOUS
<1>5. y \in Seq(Byte) /\ Len(y) = m /\ \A i \in 1..m : y[i] = data[mid + i]
  <2>1. y \in Seq(Byte) /\ Len(y) = to - mid /\ \A i \in 1..to - mid : y[i] = data[mid + i]
    BY <1>4, PartType
  <2> QED
    BY <1>1, <2>1
<1>6. PICK z : z = Part(data, from, to)
  OBVIOUS
<1>7. z \in Seq(Byte) /\ Len(z) = l + m /\ \A i \in 1..l + m : z[i] = data[from + i]
  <2>1. to - from = l + m /\ from <= to
    BY <1>1
  <2>2. z \in Seq(Byte) /\ Len(z) = to - from /\ \A i \in 1..to - from : z[i] = data[from + i]
    BY <1>6, <2>1, PartType
  <2> QED
    BY <2>1, <2>2
<1>8. PICK w : w = x \o y
  OBVIOUS
<1>9. /\ w \in Seq(Byte) /\ Len(w) = l + m
      /\ \A i \in 1..l + m : w[i] = IF i <= l THEN x[i] ELSE y[i - l]
  <2>1. x \in Seq(Byte) /\ y \in Seq(Byte) /\ Len(x) = l /\ Len(y) = m
    BY <1>3, <1>5
  <2> QED
    BY <1>8, <2>1, ConcatProperties
<1>10. ASSUME NEW i \in 1..l + m
       PROVE  w[i] = z[i]
  <2>1. CASE i <= l
    <3>1. i \in 1..l
      BY <2>1
    <3> QED
      BY <1>3, <1>7, <1>9, <2>1, <3>1
  <2>2. CASE ~(i <= l)
    <3>1. i - l \in 1..m /\ mid + (i - l) = from + i
      BY <1>1, <2>2
    <3> QED
      BY <1>5, <1>7, <1>9, <2>2, <3>1
  <2> QED
    BY <2>1, <2>2
<1>11. w = z
  BY <1>7, <1>9, <1>10, SeqEqual
<1> QED
  BY <1>2, <1>4, <1>6, <1>8, <1>11 DEF Join

\* The chunks from the one to the other have the bytes from start to stop, and each has
\* some of them.
Covers(R, first, last, start, stop) ==
  /\ first \in 1..Len(R) /\ last \in first..Len(R)
  /\ start < stop
  /\ R[first].start <= start /\ start < R[first].stop
  /\ \A i \in first..last : R[i].start < stop
  /\ stop <= R[last].stop

\* The slice of the block between two places of data, of which the part from start to
\* stop is wanted; the entry's first block begins at base.
SliceOf(data, from, to, base, start, stop) ==
  Slice(Part(data, from, to), from - base, start - base, stop - base)

LEMMA SliceIsPart ==
  ASSUME NEW data \in Seq(Byte), NEW from \in Nat, NEW to \in Nat, from <= to, to <= Len(data),
         NEW base \in Nat, base <= from, NEW start \in Nat, base <= start, NEW stop \in Nat, from < stop,
         start < to, start < stop
  PROVE  SliceOf(data, from, to, base, start, stop) = Part(data, Larger(start, from), Smaller(stop, to))
<1>1. PICK x : x = Part(data, from, to)
  OBVIOUS
<1>2. Len(x) = to - from
  BY <1>1, PartType
<1>3. PICK lo \in Nat : lo = Larger(start, from) - from
  BY DEF Larger
<1>4. PICK hi \in Nat : hi = Smaller(stop, to) - from
  BY DEF Smaller
<1>5. Larger(start - base, from - base) - (from - base) = lo
  BY <1>3 DEF Larger
<1>6. Smaller(stop - base, (from - base) + Len(x)) - (from - base) = hi
  BY <1>2, <1>4 DEF Smaller
<1>7. Slice(x, from - base, start - base, stop - base) = Part(x, lo, hi)
  BY <1>5, <1>6 DEF Slice, Part
<1>8. lo <= hi /\ from + hi <= to /\ from + lo = Larger(start, from) /\ from + hi = Smaller(stop, to)
  BY <1>3, <1>4 DEF Larger, Smaller
<1>9. Part(x, lo, hi) = Part(data, from + lo, from + hi)
  BY <1>1, <1>8, PartOfPart
<1> QED
  BY <1>1, <1>7, <1>8, <1>9 DEF SliceOf

LEMMA TilesOrder ==
  ASSUME NEW R, NEW from, NEW to, Tiles(R, from, to)
  PROVE  \A i, j \in 1..Len(R) : i < j => R[i].stop <= R[j].start
<1> DEFINE N == { n \in Nat : \A i \in 1..Len(R) : (i + 1) + n <= Len(R) => R[i].stop <= R[(i + 1) + n].start }
<1>1. \A i \in 1..Len(R) : R[i].start \in Nat /\ R[i].stop \in Nat
  <2>1. R \in Seq(Span)
    BY DEF Tiles
  <2>2. \A i \in 1..Len(R) : R[i] \in Span
    BY <2>1
  <2> QED
    BY <2>2 DEF Span
<1>2. Len(R) \in Nat
  BY DEF Tiles
<1>3. 0 \in N
  <2>1. SUFFICES ASSUME NEW i \in 1..Len(R), (i + 1) + 0 <= Len(R) PROVE R[i].stop <= R[(i + 1) + 0].start
    OBVIOUS
  <2>2. i \in 1..Len(R) - 1 /\ (i + 1) + 0 = i + 1 /\ i + 1 \in 1..Len(R)
    BY <1>2, <2>1
  <2>3. R[i].stop = R[i + 1].start
    BY <2>2 DEF Tiles
  <2> QED
    BY <1>1, <2>2, <2>3
<1>4. ASSUME NEW n \in Nat, n \in N PROVE n + 1 \in N
  <2>1. SUFFICES ASSUME NEW i \in 1..Len(R), (i + 1) + (n + 1) <= Len(R)
                 PROVE  R[i].stop <= R[(i + 1) + (n + 1)].start
    OBVIOUS
  <2>2. PICK j \in 1..Len(R) - 1 : j = (i + 1) + n /\ j + 1 = (i + 1) + (n + 1)
    BY <1>2, <2>1
  <2>3. R[i].stop <= R[j].start
    BY <1>2, <1>4, <2>2
  <2>4. R[j].start < R[j].stop /\ R[j].stop = R[j + 1].start
    BY <1>2, <2>2 DEF Tiles
  <2>5. j \in 1..Len(R) /\ j + 1 \in 1..Len(R)
    BY <1>2, <2>2
  <2>6. R[i].stop <= R[j + 1].start
    BY <1>1, <2>3, <2>4, <2>5
  <2> QED
    BY <2>2, <2>6
<1>5. ASSUME NEW i \in 1..Len(R), NEW j \in 1..Len(R), i < j
      PROVE  R[i].stop <= R[j].start
  <2>1. PICK n \in Nat : n = j - (i + 1) /\ (i + 1) + n = j
    BY <1>5
  <2>2. n \in N
    <3> HIDE DEF N
    <3> QED
      BY <1>3, <1>4, Induction
  <2> QED
    BY <1>2, <2>1, <2>2
<1> QED
  BY <1>5

\* What has been read when the blocks up to the place p have been.
ReadUpTo(data, base, start, stop, p) ==
  [failed |-> FALSE, pos |-> p - base, out |-> Part(data, start, Smaller(stop, Larger(start, p)))]

LEMMA ReadOne ==
  ASSUME BlocksFit,
         NEW data \in Seq(Byte), NEW from \in Nat, NEW to \in Nat, from < to, to <= Len(data), to - from <= CdcMax,
         NEW base \in Nat, base <= from, NEW start \in Nat, base <= start, NEW stop \in Nat, from < stop,
         start < to, start < stop, stop <= Len(data)
  PROVE  ReadBlock(ReadUpTo(data, base, start, stop, from), Part(data, from, to), start - base, stop - base)
           = ReadUpTo(data, base, start, stop, to)
<1>1. PICK chunk : chunk = Part(data, from, to)
  OBVIOUS
<1>2. chunk \in Seq(Byte) /\ Len(chunk) = to - from
  <2>1. from <= to
    OBVIOUS
  <2> QED
    BY <1>1, <2>1, PartType
<1>3. BlockOpens(chunk)
  <2>1. to - from \in 1..CdcMax
    BY Bounds
  <2>2. IsChunk(chunk)
    BY <1>2, <2>1 DEF IsChunk
  <2> QED
    BY <2>2, BlocksOpen
<1>4. PICK mid \in Nat : mid = Larger(start, from) /\ mid = Smaller(stop, Larger(start, from)) /\ start <= mid
  BY DEF Larger, Smaller
<1>5. PICK far \in Nat : far = Smaller(stop, to) /\ far = Smaller(stop, Larger(start, to)) /\ mid <= far /\ far <= Len(data)
  BY <1>4 DEF Larger, Smaller
<1>6. PICK old : old = Part(data, start, mid)
  OBVIOUS
<1>7. Slice(chunk, from - base, start - base, stop - base) = Part(data, mid, far)
  <2>1. from <= to
    OBVIOUS
  <2>2. SliceOf(data, from, to, base, start, stop) = Part(data, Larger(start, from), Smaller(stop, to))
    BY <2>1, SliceIsPart
  <2> QED
    BY <1>1, <1>4, <1>5, <2>2 DEF SliceOf
<1>8. old \o Part(data, mid, far) = Part(data, start, far)
  <2>1. start <= mid /\ mid <= far /\ far <= Len(data)
    BY <1>4, <1>5
  <2>2. Join(Part(data, start, mid), Part(data, mid, far)) = Part(data, start, far)
    BY <2>1, PartsJoin
  <2> QED
    BY <1>6, <2>2 DEF Join
<1>9. PICK read : read = [failed |-> FALSE, pos |-> from - base, out |-> old]
  OBVIOUS
<1>10. ReadUpTo(data, base, start, stop, from) = read
  BY <1>4, <1>6, <1>9 DEF ReadUpTo
<1>11. ~read.failed /\ ~(read.pos >= stop - base)
  BY <1>9
<1>12. ReadBlock(read, chunk, start - base, stop - base)
         = [failed |-> FALSE, pos |-> read.pos + Len(chunk),
            out |-> read.out \o Slice(chunk, read.pos, start - base, stop - base)]
  BY <1>3, <1>11 DEF ReadBlock
<1>13. read.pos = from - base /\ read.out = old /\ read.pos + Len(chunk) = to - base
  BY <1>2, <1>9
<1>14. ReadBlock(read, chunk, start - base, stop - base) = [failed |-> FALSE, pos |-> to - base, out |-> Part(data, start, far)]
  BY <1>7, <1>8, <1>12, <1>13
<1> QED
  BY <1>1, <1>5, <1>10, <1>14 DEF ReadUpTo

\* The chunks that cover a part of the data give it back.
LEMMA CoverReads ==
  ASSUME BlocksFit, NEW data \in Seq(Byte), NEW start \in Nat, NEW stop \in Nat, stop <= Len(data),
         NEW first, NEW last, Covers(WholeRanges(data), first, last, start, stop)
  PROVE  Extracted(Entry(stop - start, start - WholeRanges(data)[first].start, SubSeq(ChunksOf(data), first, last)))
           = [failed |-> FALSE, out |-> Part(data, start, stop)]
<1>1. PICK R \in Seq(Span) : R = WholeRanges(data) /\ Tiles(R, 0, Len(data))
  BY WholeTiles DEF Tiles
<1>2. Covers(R, first, last, start, stop)
  BY <1>1
<1>3. PICK L \in Nat : L = Len(R)
  OBVIOUS
<1>4. PICK a \in Nat, b \in Nat : a = first /\ b = last /\ 1 <= a /\ a <= b /\ b <= L
  BY <1>2, <1>3 DEF Covers
<1>5. \A i \in 1..L : R[i].start \in Nat /\ R[i].stop \in Nat /\ R[i].start < R[i].stop
                      /\ R[i].stop <= Len(data) /\ R[i].stop - R[i].start <= CdcMax
  <2>1. \A i \in 1..L : R[i].start \in Nat /\ R[i].stop \in Nat
    <3>1. \A i \in 1..L : R[i] \in Span
      BY <1>3
    <3> QED
      BY <3>1 DEF Span
  <2>2. \A i \in 1..L : R[i].start < R[i].stop /\ R[i].stop <= Len(data) /\ R[i].stop - R[i].start <= CdcMax
    BY <1>1, <1>3 DEF Tiles
  <2> QED
    BY <2>1, <2>2
<1>6. \A i \in 1..L - 1 : R[i].stop = R[i + 1].start
  BY <1>1, <1>3 DEF Tiles
<1>7. a \in 1..L /\ b \in 1..L
  BY <1>4
<1>8. PICK base \in Nat : base = R[a].start
  BY <1>5, <1>7
<1>9. start < stop /\ base <= start /\ start < R[a].stop /\ stop <= R[b].stop /\ \A i \in a..b : R[i].start < stop
  BY <1>2, <1>4, <1>8 DEF Covers
<1>10. PICK C \in Seq(Seq(Byte)) : C = ChunksOf(data) /\ Len(C) = L /\ \A i \in 1..L : C[i] = Part(data, R[i].start, R[i].stop)
  BY <1>1, <1>3, ChunksType DEF Bytes, Part
<1>11. PICK n \in Nat : n = b - a + 1 /\ 1 <= n
  BY <1>4
<1>12. PICK S : S = SubSeq(C, a, b)
  OBVIOUS
<1>13. Len(S) = n /\ \A i \in 1..n : S[i] = Part(data, R[a + (i - 1)].start, R[a + (i - 1)].stop)
  <2>1. a \in Int /\ b \in Int /\ \A i \in a..b : C[i] \in Seq(Byte)
    BY <1>4, <1>10
  <2>2. Len(S) = n /\ \A i \in 1..b - a + 1 : S[i] = C[a + i - 1]
    BY <1>4, <1>11, <1>12, <2>1, SubSeqProperties
  <2>3. ASSUME NEW i \in 1..n PROVE S[i] = Part(data, R[a + (i - 1)].start, R[a + (i - 1)].stop)
    <3>1. i \in 1..b - a + 1 /\ a + i - 1 = a + (i - 1) /\ a + (i - 1) \in 1..L
      BY <1>4, <1>11
    <3> QED
      BY <1>10, <2>2, <3>1
  <2> QED
    BY <2>2, <2>3
<1>14. PICK e : e = Entry(stop - start, start - base, S)
  OBVIOUS
<1>15. e.chunks = S /\ e.offset = start - base /\ End(e) = stop - base
  BY <1>9, <1>14 DEF Entry, End
<1>16. PICK f : Reads(f, e, n)
  BY <1>13, <1>15, ExtractedReads
<1>17. PICK q : q = [i \in 0..n |-> IF i = 0 THEN base ELSE R[a + (i - 1)].stop]
  OBVIOUS
<1> DEFINE N == { m \in Nat : m <= n => f[m] = ReadUpTo(data, base, start, stop, q[m]) }
<1>18. 0 \in N
  <2>1. q[0] = base /\ base - base = 0
    BY <1>17
  <2>2. Smaller(stop, Larger(start, base)) = start
    BY <1>9 DEF Smaller, Larger
  <2>3. Part(data, start, start) = <<>>
    <3>1. start <= Len(data)
      BY <1>9
    <3>2. Part(data, start, start) \in Seq(Byte) /\ Len(Part(data, start, start)) = start - start
      BY <3>1, PartType
    <3> QED
      BY <3>2, EmptySeq
  <2>4. ReadUpTo(data, base, start, stop, q[0]) = NothingRead
    BY <2>1, <2>2, <2>3 DEF ReadUpTo, NothingRead
  <2> QED
    BY <1>16, <2>4 DEF Reads
<1>19. ASSUME NEW m \in Nat, m \in N PROVE m + 1 \in N
  <2>1. SUFFICES ASSUME m + 1 <= n PROVE f[m + 1] = ReadUpTo(data, base, start, stop, q[m + 1])
    OBVIOUS
  <2>2. PICK i \in 1..L : i = a + m
    BY <1>4, <1>11, <2>1
  <2>3. m \in 0..n /\ m + 1 \in 1..n /\ m + 1 \in 0..n /\ (m + 1) - 1 = m
    BY <2>1
  <2>4. q[m + 1] = R[i].stop
    BY <1>17, <2>2, <2>3
  <2>5. q[m] = R[i].start
    <3>1. CASE m = 0
      BY <1>8, <1>17, <2>2, <2>3, <3>1
    <3>2. CASE m # 0
      <4>1. PICK j \in 1..L - 1 : j = a + (m - 1) /\ j + 1 = i
        BY <1>4, <1>11, <2>2, <2>3, <3>2
      <4> QED
        BY <1>6, <1>17, <2>3, <3>2, <4>1
    <3> QED
      BY <3>1, <3>2
  <2>6. i \in a..b /\ (i = a \/ a < i)
    BY <1>4, <1>11, <2>1, <2>2
  <2>7. base <= R[i].start /\ start < R[i].stop
    <3>1. CASE i = a
      BY <1>5, <1>8, <1>9, <3>1
    <3>2. CASE a < i
      <4>1. R[a].stop <= R[i].start
        BY <1>1, <1>3, <1>7, <3>2, TilesOrder
      <4>2. PICK u \in Nat, v \in Nat, w \in Nat : u = R[a].stop /\ v = R[i].start /\ w = R[i].stop /\ v < w
        BY <1>5, <1>7
      <4>3. base <= start /\ start < u
        BY <1>9, <4>2
      <4>4. u <= v /\ v < w
        BY <4>1, <4>2
      <4>5. base <= v /\ start < w
        BY <4>3, <4>4
      <4> QED
        BY <4>2, <4>5
    <3> QED
      BY <2>6, <3>1, <3>2
  <2>8. PICK from \in Nat, to \in Nat : from = R[i].start /\ to = R[i].stop
    BY <1>5
  <2>9. from < to /\ to <= Len(data) /\ to - from <= CdcMax /\ from < stop /\ base <= from /\ start < to
    BY <1>5, <1>9, <2>6, <2>7, <2>8
  <2>10. stop <= Len(data)
    OBVIOUS
  <2>11. ReadBlock(ReadUpTo(data, base, start, stop, from), Part(data, from, to), start - base, stop - base)
           = ReadUpTo(data, base, start, stop, to)
    BY <1>9, <2>9, <2>10, ReadOne
  <2>12. f[m] = ReadUpTo(data, base, start, stop, from)
    BY <1>19, <2>3, <2>5, <2>8
  <2>13. S[m + 1] = Part(data, from, to)
    BY <1>13, <2>2, <2>3, <2>8
  <2>14. f[m + 1] = ReadBlock(f[m], S[m + 1], start - base, stop - base)
    BY <1>15, <1>16, <2>3 DEF Reads
  <2> QED
    BY <2>4, <2>8, <2>11, <2>12, <2>13, <2>14
<1>20. f[n] = ReadUpTo(data, base, start, stop, q[n])
  <2>1. n \in N
    <3> HIDE DEF N
    <3> QED
      BY <1>18, <1>19, Induction
  <2> QED
    BY <2>1
<1>21. q[n] = R[b].stop
  <2>1. n \in 0..n /\ n # 0 /\ a + (n - 1) = b
    BY <1>4, <1>11
  <2> QED
    BY <1>17, <2>1
<1>22. PICK p \in Nat : p = R[b].stop /\ stop <= p
  BY <1>5, <1>7, <1>9
<1>23. Smaller(stop, Larger(start, p)) = stop
  BY <1>9, <1>22 DEF Smaller, Larger
<1>24. f[n].failed = FALSE /\ f[n].pos = p - base /\ f[n].out = Part(data, start, stop)
  BY <1>20, <1>21, <1>22, <1>23 DEF ReadUpTo
<1>25. ~(p - base < stop - base)
  BY <1>22
<1>26. Extracted(e) = [failed |-> FALSE, out |-> Part(data, start, stop)]
  BY <1>15, <1>16, <1>24, <1>25 DEF Reads
<1> QED
  BY <1>1, <1>4, <1>8, <1>10, <1>12, <1>14, <1>26

LengthEquation(f, chunks) ==
  f = [n \in 0..Len(chunks) |-> IF n = 0 THEN 0 ELSE f[n - 1] + Len(chunks[n])]

\* The chunks are together as long as the data.
LEMMA LengthIs ==
  ASSUME NEW data \in Seq(Byte)
  PROVE  LengthOf(ChunksOf(data)) = Len(data)
<1>1. PICK R \in Seq(Span) : R = WholeRanges(data) /\ Tiles(R, 0, Len(data))
  BY WholeTiles DEF Tiles
<1>2. PICK L \in Nat : L = Len(R)
  OBVIOUS
<1>3. PICK C \in Seq(Seq(Byte)) : C = ChunksOf(data) /\ Len(C) = L /\ \A i \in 1..L : Len(C[i]) = R[i].stop - R[i].start
  BY <1>1, <1>2, ChunksType
<1>4. \A i \in 1..L : R[i].start \in Nat /\ R[i].stop \in Nat
  <2>1. \A i \in 1..L : R[i] \in Span
    BY <1>2
  <2> QED
    BY <2>1 DEF Span
<1>5. PICK q : q = [i \in 0..L |-> IF i = 0 THEN 0 ELSE R[i].stop]
  OBVIOUS
<1>6. q[0] = 0 /\ \A i \in 1..L : q[i] = R[i].stop
  BY <1>5
<1>7. \A i \in 1..L : R[i].start = q[i - 1]
  <2>1. SUFFICES ASSUME NEW i \in 1..L PROVE R[i].start = q[i - 1]
    OBVIOUS
  <2>2. CASE i = 1
    <3>1. R # <<>> /\ i - 1 = 0
      BY <1>2, <2>2
    <3> QED
      BY <1>1, <1>6, <2>2, <3>1 DEF Tiles
  <2>3. CASE i # 1
    <3>1. PICK j \in 1..L - 1 : j = i - 1 /\ j + 1 = i
      BY <2>3
    <3>2. R[j].stop = R[j + 1].start
      BY <1>1, <1>2 DEF Tiles
    <3> QED
      BY <1>6, <3>1, <3>2
  <2> QED
    BY <2>2, <2>3
<1>8. \A i \in 0..L : q[i] \in Nat
  BY <1>4, <1>5
<1>9. \A i \in 1..L : q[i] = q[i - 1] + Len(C[i])
  <2>1. SUFFICES ASSUME NEW i \in 1..L PROVE q[i] = q[i - 1] + Len(C[i])
    OBVIOUS
  <2>2. PICK u \in Nat, v \in Nat : u = R[i].start /\ v = R[i].stop
    BY <1>4
  <2>3. Len(C[i]) = v - u /\ q[i] = v /\ q[i - 1] = u
    BY <1>3, <1>6, <1>7, <2>2
  <2> QED
    BY <2>3
<1>10. LengthEquation(q, C)
  <2>1. q = [i \in 0..L |-> IF i = 0 THEN 0 ELSE q[i - 1] + Len(C[i])]
    <3>1. \A i \in 0..L : q[i] = IF i = 0 THEN 0 ELSE q[i - 1] + Len(C[i])
      BY <1>6, <1>9
    <3> QED
      BY <1>5, <3>1
  <2> QED
    BY <1>3, <2>1 DEF LengthEquation
<1>11. PICK f : LengthEquation(f, C) /\ LengthOf(C) = f[L]
  <2> DEFINE k == CHOOSE f : LengthEquation(f, C)
  <2>1. LengthOf(C) = k[Len(C)]
    BY DEF LengthOf, LengthEquation
  <2>2. LengthEquation(k, C)
    BY <1>10
  <2> HIDE DEF k
  <2> QED
    BY <1>3, <2>1, <2>2
<1>12. f[0] = 0 /\ \A i \in 1..L : f[i] = f[i - 1] + Len(C[i])
  <2>1. \A i \in 0..L : f[i] = IF i = 0 THEN 0 ELSE f[i - 1] + Len(C[i])
    BY <1>3, <1>11 DEF LengthEquation
  <2>2. 0 \in 0..L /\ \A i \in 1..L : i \in 0..L /\ i # 0
    OBVIOUS
  <2> QED
    BY <2>1, <2>2
<1> DEFINE N == { n \in Nat : n <= L => f[n] = q[n] }
<1>13. 0 \in N
  BY <1>6, <1>12
<1>14. ASSUME NEW n \in Nat, n \in N PROVE n + 1 \in N
  <2>1. SUFFICES ASSUME n + 1 <= L PROVE f[n + 1] = q[n + 1]
    OBVIOUS
  <2>2. n + 1 \in 1..L /\ (n + 1) - 1 = n /\ n <= L
    BY <2>1
  <2> QED
    BY <1>9, <1>12, <1>14, <2>2
<1>15. f[L] = q[L]
  <2>1. L \in N
    <3> HIDE DEF N
    <3> QED
      BY <1>13, <1>14, Induction
  <2> QED
    BY <2>1
<1>16. q[L] = Len(data)
  <2>1. CASE L = 0
    <3>1. R = <<>>
      BY <1>2, <2>1, EmptySeq
    <3> QED
      BY <1>1, <1>6, <2>1, <3>1 DEF Tiles
  <2>2. CASE L # 0
    <3>1. R # <<>> /\ L \in 1..L
      BY <1>2, <2>2
    <3> QED
      BY <1>1, <1>2, <1>6, <3>1 DEF Tiles
  <2> QED
    BY <2>1, <2>2
<1> QED
  BY <1>3, <1>11, <1>15, <1>16

\* What an entry must give.
ReadsAs(e, bytes) == Extracted(e) = [failed |-> FALSE, out |-> bytes]

LEMMA EmptyReads == ReadsAs(Entry(0, 0, <<>>), <<>>)
<1>1. PICK e : e = Entry(0, 0, <<>>)
  OBVIOUS
<1>2. e.chunks = <<>> /\ End(e) = 0 /\ Len(e.chunks) = 0
  BY <1>1 DEF Entry, End
<1>3. PICK f : Reads(f, e, 0)
  BY <1>2, ExtractedReads
<1>4. f[0].failed = FALSE /\ f[0].pos = 0 /\ f[0].out = <<>>
  BY <1>3 DEF Reads, NothingRead
<1>5. Extracted(e) = [failed |-> FALSE, out |-> <<>>]
  <2>1. ~(f[0].pos < End(e))
    BY <1>2, <1>4
  <2> QED
    BY <1>3, <1>4, <2>1 DEF Reads
<1> QED
  BY <1>1, <1>5 DEF ReadsAs

LEMMA NoPart ==
  ASSUME NEW data \in Seq(Byte), NEW start \in Nat, start <= Len(data)
  PROVE  Part(data, start, start) = <<>>
<1>1. Part(data, start, start) \in Seq(Byte) /\ Len(Part(data, start, start)) = start - start
  BY PartType
<1> QED
  BY <1>1, EmptySeq

\* The entry of a member of a pack has the chunks that cover it.
MemberCover(data, member, start, stop, first, last) ==
  /\ Covers(WholeRanges(data), first, last, start, stop)
  /\ MemberEntry(data, member)
       = Entry(stop - start, start - WholeRanges(data)[first].start, SubSeq(ChunksOf(data), first, last))

LEMMA MemberIsCovered ==
  ASSUME NEW data \in Seq(Byte), NEW member, NEW start \in Nat, NEW stop \in Nat,
         start < stop, stop <= Len(data), member.start = start, member.len = stop - start
  PROVE  \E first, last : MemberCover(data, member, start, stop, first, last)
<1>1. PICK R \in Seq(Span) : R = WholeRanges(data) /\ Tiles(R, 0, Len(data))
  BY WholeTiles DEF Tiles
<1>2. PICK L \in Nat : L = Len(R)
  OBVIOUS
<1>3. \A i \in 1..L : R[i].start \in Nat /\ R[i].stop \in Nat /\ R[i].start < R[i].stop
  <2>1. \A i \in 1..L : R[i].start \in Nat /\ R[i].stop \in Nat
    <3>1. \A i \in 1..L : R[i] \in Span
      BY <1>2
    <3> QED
      BY <3>1 DEF Span
  <2>2. \A i \in 1..L : R[i].start < R[i].stop
    BY <1>1, <1>2 DEF Tiles
  <2> QED
    BY <2>1, <2>2
<1>4. R # <<>>
  <2>1. 0 # Len(data)
    OBVIOUS
  <2> QED
    BY <1>1, <2>1 DEF Tiles
<1>5. L \in 1..L /\ 1 \in 1..L /\ R[1].start = 0 /\ R[L].stop = Len(data)
  <2>1. L # 0
    BY <1>2, <1>4, EmptySeq
  <2> QED
    BY <1>1, <1>2, <1>4, <2>1 DEF Tiles
<1>6. \A i \in 1..L : i # 1 => i - 1 \in 1..L /\ R[i - 1].stop = R[i].start
  <2>1. SUFFICES ASSUME NEW i \in 1..L, i # 1 PROVE i - 1 \in 1..L /\ R[i - 1].stop = R[i].start
    OBVIOUS
  <2>2. i - 1 \in 1..L - 1 /\ (i - 1) + 1 = i
    BY <2>1
  <2> QED
    BY <1>1, <1>2, <2>2 DEF Tiles
<1>7. \A i, j \in 1..L : i < j => R[i].stop <= R[j].start
  BY <1>1, <1>2, TilesOrder
<1>8. PICK a \in 1..L : start < R[a].stop /\ \A i \in 1..L : start < R[i].stop => a <= i
  <2> DEFINE A == { i \in 1..L : start < R[i].stop }
  <2>1. A \in SUBSET Nat
    OBVIOUS
  <2>2. L \in A
    BY <1>5
  <2>3. PICK a \in A : \A i \in A : a <= i
    <3> HIDE DEF A
    <3> QED
      BY <2>1, <2>2, LeastElement
  <2> QED
    BY <2>3
<1>9. PICK b \in 1..L : stop <= R[b].stop /\ \A i \in 1..L : stop <= R[i].stop => b <= i
  <2> DEFINE A == { i \in 1..L : stop <= R[i].stop }
  <2>1. A \in SUBSET Nat
    OBVIOUS
  <2>2. L \in A
    BY <1>5
  <2>3. PICK b \in A : \A i \in A : b <= i
    <3> HIDE DEF A
    <3> QED
      BY <2>1, <2>2, LeastElement
  <2> QED
    BY <2>3
<1>10. R[a].start <= start
  <2>1. CASE a = 1
    BY <1>5, <2>1
  <2>2. CASE a # 1
    <3>1. a - 1 \in 1..L /\ R[a - 1].stop = R[a].start /\ ~(a <= a - 1)
      BY <1>6, <2>2
    <3>2. ~(start < R[a - 1].stop)
      BY <1>8, <3>1
    <3> QED
      BY <1>3, <3>1, <3>2
  <2> QED
    BY <2>1, <2>2
<1>11. R[b].start < stop
  <2>1. CASE b = 1
    BY <1>5, <2>1
  <2>2. CASE b # 1
    <3>1. b - 1 \in 1..L /\ R[b - 1].stop = R[b].start /\ ~(b <= b - 1)
      BY <1>6, <2>2
    <3>2. ~(stop <= R[b - 1].stop)
      BY <1>9, <3>1
    <3> QED
      BY <1>3, <3>1, <3>2
  <2> QED
    BY <2>1, <2>2
<1>12. start < R[b].stop /\ a <= b
  <2>1. start < R[b].stop
    BY <1>3, <1>9
  <2> QED
    BY <1>8, <2>1
<1>13. \A i \in a..b : i \in 1..L /\ R[i].start < stop
  <2>1. SUFFICES ASSUME NEW i \in a..b PROVE i \in 1..L /\ R[i].start < stop
    OBVIOUS
  <2>2. i \in 1..L /\ (i = b \/ i < b)
    OBVIOUS
  <2>3. CASE i = b
    BY <1>11, <2>3
  <2>4. CASE i < b
    <3>1. R[i].stop <= R[b].start
      BY <1>7, <2>2, <2>4
    <3>2. PICK u \in Nat, v \in Nat, w \in Nat : u = R[i].start /\ v = R[i].stop /\ w = R[b].start /\ u < v
      BY <1>3, <2>2
    <3>3. v <= w /\ w < stop
      BY <1>11, <3>1, <3>2
    <3>4. u < stop
      BY <3>2, <3>3, SMTT(30)
    <3> QED
      BY <2>2, <3>2, <3>4
  <2> QED
    BY <2>2, <2>3, <2>4
<1>14. Covers(WholeRanges(data), a, b, start, stop)
  <2>1. b \in a..L /\ a \in 1..L
    BY <1>12
  <2> QED
    BY <1>1, <1>2, <1>8, <1>9, <1>10, <1>13, <2>1 DEF Covers
<1>15. PICK cover : cover = { i \in DOMAIN R : Overlaps(R[i], member) }
  OBVIOUS
<1>16. cover = { i \in 1..L : R[i].start < stop /\ start < R[i].stop }
  <2>1. DOMAIN R = 1..L /\ start + (stop - start) = stop
    BY <1>2
  <2> QED
    BY <1>15, <2>1 DEF Overlaps
<1>17. cover \in SUBSET Int
  BY <1>16
<1>18. a \in cover /\ b \in cover
  <2>1. R[a].start < stop
    <3>1. a \in a..b
      BY <1>12
    <3> QED
      BY <1>13, <3>1
  <2> QED
    BY <1>8, <1>11, <1>12, <1>16, <2>1
<1>19. \A i \in cover : a <= i
  BY <1>8, <1>16
<1>20. \A i \in cover : i <= b
  <2>1. SUFFICES ASSUME NEW i \in cover, b < i PROVE FALSE
    BY <1>16
  <2>2. i \in 1..L /\ R[i].start < stop
    BY <1>16
  <2>3. R[b].stop <= R[i].start
    BY <1>7, <2>1, <2>2
  <2>4. PICK u \in Nat, v \in Nat : u = R[b].stop /\ v = R[i].start
    BY <1>3, <2>2
  <2>5. u <= v /\ v < stop /\ stop <= u
    BY <1>9, <2>2, <2>3, <2>4
  <2> QED
    BY <2>5
<1>21. Min(cover) = a /\ Max(cover) = b
  <2>1. Min(cover) = a
    BY <1>17, <1>18, <1>19, MinIs
  <2>2. Max(cover) = b
    BY <1>17, <1>18, <1>20, MaxIs
  <2> QED
    BY <2>1, <2>2
<1>22. MemberEntry(data, member) = Entry(stop - start, start - R[a].start, SubSeq(ChunksOf(data), a, b))
  <2>1. member.len # 0
    OBVIOUS
  <2> QED
    BY <1>1, <1>15, <1>21, <2>1 DEF MemberEntry
<1>23. MemberCover(data, member, start, stop, a, b)
  BY <1>1, <1>14, <1>22 DEF MemberCover
<1> QED
  BY <1>23

\* The entry of a member of a pack gives its part of the pack.
LEMMA MemberReads ==
  ASSUME BlocksFit, NEW data \in Seq(Byte), NEW member, NEW start \in Nat, NEW stop \in Nat,
         start <= stop, stop <= Len(data), member.start = start, member.len = stop - start
  PROVE  ReadsAs(MemberEntry(data, member), Part(data, start, stop))
<1>1. CASE stop = start
  <2>1. MemberEntry(data, member) = Entry(0, 0, <<>>)
    <3>1. member.len = 0
      BY <1>1
    <3> QED
      BY <3>1 DEF MemberEntry
  <2>2. Part(data, start, stop) = <<>>
    BY <1>1, NoPart
  <2> QED
    BY <2>1, <2>2, EmptyReads
<1>2. CASE start < stop
  <2>1. PICK a, b : MemberCover(data, member, start, stop, a, b)
    BY <1>2, MemberIsCovered
  <2> QED
    BY <2>1, CoverReads DEF MemberCover, ReadsAs
<1> QED
  BY <1>1, <1>2

\* The entry of a file that was cut alone gives all of it.
LEMMA WholeReads ==
  ASSUME BlocksFit, NEW data \in Seq(Byte)
  PROVE  ReadsAs(Entry(LengthOf(ChunksOf(data)), 0, ChunksOf(data)), data)
<1>1. PICK R \in Seq(Span) : R = WholeRanges(data) /\ Tiles(R, 0, Len(data))
  BY WholeTiles DEF Tiles
<1>2. PICK L \in Nat : L = Len(R)
  OBVIOUS
<1>3. PICK C \in Seq(Seq(Byte)) : C = ChunksOf(data) /\ Len(C) = L
  BY <1>1, <1>2, ChunksType
<1>4. LengthOf(C) = Len(data)
  BY <1>3, LengthIs
<1>5. CASE L = 0
  <2>1. C = <<>> /\ R = <<>>
    BY <1>2, <1>3, <1>5, EmptySeq
  <2>2. Len(data) = 0
    BY <1>1, <2>1 DEF Tiles
  <2>3. data = <<>>
    BY <2>2, EmptySeq
  <2> QED
    BY <1>3, <1>4, <2>1, <2>2, <2>3, EmptyReads
<1>6. CASE L # 0
  <2>1. R # <<>> /\ L \in 1..L /\ 1 \in 1..L
    BY <1>2, <1>6
  <2>2. R[1].start = 0 /\ R[L].stop = Len(data)
    BY <1>1, <1>2, <2>1 DEF Tiles
  <2>3. \A i \in 1..L : R[i].start \in Nat /\ R[i].stop \in Nat /\ R[i].start < R[i].stop /\ R[i].stop <= Len(data)
    <3>1. \A i \in 1..L : R[i].start \in Nat /\ R[i].stop \in Nat
      <4>1. \A i \in 1..L : R[i] \in Span
        BY <1>2
      <4> QED
        BY <4>1 DEF Span
    <3>2. \A i \in 1..L : R[i].start < R[i].stop /\ R[i].stop <= Len(data)
      BY <1>1, <1>2 DEF Tiles
    <3> QED
      BY <3>1, <3>2
  <2>4. PICK l \in Nat : l = Len(data) /\ 0 < l
    <3>1. 0 < R[1].stop /\ R[1].stop <= Len(data)
      BY <2>1, <2>2, <2>3
    <3> QED
      BY <2>1, <2>3, <3>1
  <2>5. Covers(WholeRanges(data), 1, L, 0, l)
    <3>1. \A i \in 1..L : R[i].start < l
      <4>1. SUFFICES ASSUME NEW i \in 1..L PROVE R[i].start < l
        OBVIOUS
      <4>2. PICK u \in Nat, v \in Nat : u = R[i].start /\ v = R[i].stop /\ u < v /\ v <= l
        BY <2>3, <2>4
      <4>3. u < l
        BY <4>2
      <4> QED
        BY <4>2, <4>3
    <3> QED
      BY <1>1, <1>2, <2>1, <2>2, <2>3, <2>4, <3>1 DEF Covers
  <2>6. Extracted(Entry(l - 0, 0 - R[1].start, SubSeq(C, 1, L))) = [failed |-> FALSE, out |-> Part(data, 0, l)]
    BY <1>1, <1>3, <2>4, <2>5, CoverReads
  <2>7. l - 0 = l /\ 0 - R[1].start = 0
    BY <2>2
  <2>8. SubSeq(C, 1, L) = C
    BY <1>3, SubSeqFull
  <2>9. Part(data, 0, l) = data
    <3>1. SubSeq(data, 1, Len(data)) = data
      BY SubSeqFull
    <3> QED
      BY <2>4, <3>1 DEF Part
  <2> QED
    BY <1>3, <1>4, <2>4, <2>6, <2>7, <2>8, <2>9 DEF ReadsAs
<1> QED
  BY <1>5, <1>6

File == [path : Nat, content : Seq(Byte)]

\* What has gone through the hash is less than a greatest chunk: the byte that
\* would make it one is where it is cut.
ChunkerOK ==
  /\ buf \in Seq(Byte) /\ pos \in Nat
  /\ scanned \in 0..Len(buf) /\ scanned < CdcMax
  /\ Len(buf) <= CdcMax + ReadChunk

CutOK == cut \in Seq(Seq(Byte)) /\ \A i \in DOMAIN cut : IsChunk(cut[i])

SourcesOK ==
  /\ sources \in Seq(File) /\ next \in Nat \ {0}
  /\ at = "chunking" => next <= Len(sources)

Inv == SourcesOK /\ ChunkerOK /\ CutOK

LEMMA CutsInTime ==
  ASSUME NEW hash, NEW len \in Nat, ~CutsAt(hash, len) PROVE len < CdcMax
BY Bounds DEF CutsAt

\* What a source holds, and what it holds after a write.
LEMMA ContentType ==
  ASSUME NEW ss \in Seq(File), NEW i \in 1..Len(ss)
  PROVE  /\ ss[i].content \in Seq(Byte)
         /\ \A c \in Seq(Byte) : [ss EXCEPT ![i].content = c] \in Seq(File)
                                 /\ Len([ss EXCEPT ![i].content = c]) = Len(ss)
<1>1. ss[i] \in File
  OBVIOUS
<1>2. ss[i].content \in Seq(Byte) /\ \A c \in Seq(Byte) : [ss[i] EXCEPT !.content = c] \in File
  BY <1>1 DEF File
<1>3. ASSUME NEW f \in File PROVE [ss EXCEPT ![i] = f] \in Seq(File) /\ Len([ss EXCEPT ![i] = f]) = Len(ss)
  OBVIOUS
<1>4. ASSUME NEW c PROVE [ss EXCEPT ![i].content = c] = [ss EXCEPT ![i] = [ss[i] EXCEPT !.content = c]]
  OBVIOUS
<1>5. QED
  BY <1>2, <1>3, <1>4

LEMMA InvInit == Init => Inv
<1> SUFFICES ASSUME Init PROVE Inv
  OBVIOUS
<1>1. SourcesOK
  <2>1. sources \in Seq(File)
    BY RequestAssumption DEF Init, File
  <2>2. QED
    BY <2>1 DEF Init, SourcesOK
<1>2. ChunkerOK
  BY Bounds DEF Init, ChunkerOK
<1>3. CutOK
  BY DEF Init, CutOK
<1>4. QED
  BY <1>1, <1>2, <1>3 DEF Inv

\* A step that leaves the chunker alone, or empties it.
LEMMA ElsewhereStep ==
  ASSUME Inv, SetAside \/ BeginFile \/ EndFile \/ BeginPacks \/ PackFile \/ EndAdd PROVE Inv'
<1>1. SourcesOK'
  <2>1. sources' = sources
    BY DEF SetAside, BeginFile, EndFile, BeginPacks, PackFile, EndAdd
  <2>2. CASE BeginFile
    BY <2>1, <2>2 DEF BeginFile, Inv, SourcesOK
  <2>3. CASE ~BeginFile
    <3>1. at' # "chunking" /\ next' \in {1, next, next + 1}
      BY <2>3 DEF SetAside, EndFile, BeginPacks, PackFile, EndAdd
    <3>2. QED
      BY <2>1, <3>1 DEF Inv, SourcesOK
  <2>4. QED
    BY <2>2, <2>3
<1>2. CASE UNCHANGED chunker
  BY <1>1, <1>2 DEF chunker, Inv, ChunkerOK, CutOK, IsChunk
<1>3. CASE BeginFile
  BY <1>1, <1>3, Bounds DEF BeginFile, Inv, ChunkerOK, CutOK
<1>4. QED
  BY <1>2, <1>3 DEF SetAside, BeginFile, EndFile, BeginPacks, PackFile, EndAdd

LEMMA FillStep ==
  ASSUME Inv, Fill PROVE Inv'
<1>1. Source.content \in Seq(Byte) /\ pos \in Nat /\ buf \in Seq(Byte) /\ Len(buf) < CdcMax
  <2>1. sources \in Seq(File) /\ next \in 1..Len(sources)
    BY DEF Fill, Inv, SourcesOK
  <2>2. Source.content \in Seq(Byte)
    BY <2>1, ContentType DEF Source
  <2>3. QED
    BY <2>2, Bounds DEF Fill, NeedsMore, Inv, ChunkerOK
<1> DEFINE left == Len(Source.content) - pos
           bytes(n) == SubSeq(Source.content, pos + 1, pos + n)
<1>2. PICK n \in IF left <= 0 THEN {0} ELSE 1..Smaller(left, ReadChunk) :
        buf' = buf \o bytes(n) /\ pos' = pos + n
  BY DEF Fill
<1>3. n \in Nat /\ n <= ReadChunk /\ (n = 0 \/ n <= left)
  BY <1>1, <1>2, Bounds DEF Smaller
<1>4. bytes(n) \in Seq(Byte) /\ Len(bytes(n)) <= ReadChunk
  <2>1. CASE n = 0
    BY <1>1, <2>1, SubSeqEmpty, Bounds
  <2>2. CASE n # 0
    <3>1. pos + 1 \in 1..Len(Source.content) + 1 /\ pos + n \in (pos + 1) - 1..Len(Source.content)
      BY <1>1, <1>3, <2>2
    <3>2. QED
      BY <1>1, <1>3, <3>1, SubSeqProperties
  <2>3. QED
    BY <2>1, <2>2
<1> HIDE DEF bytes
<1>5. buf' \in Seq(Byte) /\ Len(buf') = Len(buf) + Len(bytes(n)) /\ pos' \in Nat
  BY <1>1, <1>2, <1>3, <1>4
<1>6. UNCHANGED <<sources, at, next, scanned, cut>>
  BY DEF Fill
<1>7. ChunkerOK'
  BY <1>1, <1>4, <1>5, <1>6, Bounds DEF Inv, ChunkerOK
<1>8. QED
  BY <1>6, <1>7 DEF Inv, SourcesOK, CutOK, IsChunk

LEMMA FoldStep ==
  ASSUME Inv, Fold PROVE Inv'
<1> DEFINE len == scanned + 1
           hash == Roll(rolling, buf[scanned + 1])
<1>1. buf \in Seq(Byte) /\ len \in 1..Len(buf) /\ len <= CdcMax /\ Len(buf) <= CdcMax + ReadChunk
  BY Bounds DEF Fold, Inv, ChunkerOK
<1>2. UNCHANGED <<sources, at, next, pos>>
  BY DEF Fold
<1>3. CASE CutsAt(hash, len)
  <2>1. /\ cut' = Append(cut, SubSeq(buf, 1, len)) /\ buf' = SubSeq(buf, len + 1, Len(buf))
        /\ scanned' = 0
    BY <1>3 DEF Fold
  <2>2. IsChunk(SubSeq(buf, 1, len))
    <3>1. 1 \in 1..Len(buf) + 1 /\ len \in 1 - 1..Len(buf)
      BY <1>1
    <3>2. SubSeq(buf, 1, len) \in Seq(Byte) /\ Len(SubSeq(buf, 1, len)) = len
      BY <1>1, <3>1, SubSeqProperties
    <3>3. QED
      BY <1>1, <3>2, Bounds DEF IsChunk
  <2>3. buf' \in Seq(Byte) /\ Len(buf') <= Len(buf)
    <3>1. len + 1 \in 1..Len(buf) + 1 /\ Len(buf) \in (len + 1) - 1..Len(buf)
      BY <1>1
    <3>2. QED
      BY <1>1, <2>1, <3>1, SubSeqProperties
  <2>4. ChunkerOK'
    BY <1>1, <1>2, <2>1, <2>3, Bounds DEF Inv, ChunkerOK
  <2>5. CutOK'
    BY <2>1, <2>2 DEF Inv, CutOK, IsChunk
  <2>6. QED
    BY <1>2, <2>4, <2>5 DEF Inv, SourcesOK
<1>4. CASE ~CutsAt(hash, len)
  <2>1. scanned' = len /\ UNCHANGED <<cut, buf>>
    BY <1>4 DEF Fold
  <2>2. len < CdcMax
    BY <1>1, <1>4, CutsInTime
  <2>3. QED
    BY <1>1, <1>2, <2>1, <2>2 DEF Inv, SourcesOK, ChunkerOK, CutOK, IsChunk
<1>5. QED
  BY <1>3, <1>4

LEMMA LastChunkStep ==
  ASSUME Inv, LastChunk PROVE Inv'
<1>1. IsChunk(buf) /\ cut' = Append(cut, buf) /\ buf' = <<>> /\ scanned' = 0
      /\ UNCHANGED <<sources, at, next, pos>>
  BY Bounds DEF LastChunk, Inv, ChunkerOK, IsChunk
<1>2. CutOK'
  BY <1>1 DEF Inv, CutOK, IsChunk
<1>3. QED
  BY <1>1, <1>2, Bounds DEF Inv, SourcesOK, ChunkerOK

\* Another process writes to files, and does not rename them.
LEMMA WriteSourceEffect ==
  ASSUME SourcesOK, WriteSource
  PROVE  /\ sources' \in Seq(File) /\ Len(sources') = Len(sources)
         /\ \A i \in 1..Len(sources) : sources'[i].path = sources[i].path
<1>1. sources \in Seq(File) /\ DOMAIN sources = 1..Len(sources)
  BY DEF SourcesOK
<1>2. PICK i \in 1..Len(sources) :
        \/ \E b \in Byte : sources' = [sources EXCEPT ![i].content = Append(@, b)]
        \/ \E n \in 0..Len(sources[i].content) - 1 :
             sources' = [sources EXCEPT ![i].content = SubSeq(@, 1, n)]
        \/ \E k \in DOMAIN sources[i].content, b \in Byte :
             sources' = [sources EXCEPT ![i].content[k] = b]
  BY <1>1 DEF WriteSource
<1> DEFINE content == sources[i].content
<1>3. content \in Seq(Byte)
  BY <1>1, ContentType
<1>4. \E c \in Seq(Byte) : sources' = [sources EXCEPT ![i].content = c]
  <2>1. CASE \E b \in Byte : sources' = [sources EXCEPT ![i].content = Append(@, b)]
    <3>1. PICK b \in Byte : sources' = [sources EXCEPT ![i].content = Append(@, b)]
      BY <2>1
    <3>2. Append(content, b) \in Seq(Byte) /\ sources' = [sources EXCEPT ![i].content = Append(content, b)]
      BY <1>3, <3>1
    <3> HIDE DEF content
    <3>3. QED
      BY <3>2
  <2>2. CASE \E n \in 0..Len(content) - 1 : sources' = [sources EXCEPT ![i].content = SubSeq(@, 1, n)]
    <3>1. PICK n \in 0..Len(content) - 1 : sources' = [sources EXCEPT ![i].content = SubSeq(@, 1, n)]
      BY <2>2
    <3>2. SubSeq(content, 1, n) \in Seq(Byte)
          /\ sources' = [sources EXCEPT ![i].content = SubSeq(content, 1, n)]
      BY <1>3, <3>1
    <3> HIDE DEF content
    <3>3. QED
      BY <3>2
  <2>3. CASE \E k \in DOMAIN content, b \in Byte : sources' = [sources EXCEPT ![i].content[k] = b]
    <3>1. PICK k \in DOMAIN content, b \in Byte : sources' = [sources EXCEPT ![i].content[k] = b]
      BY <2>3
    <3>2. [content EXCEPT ![k] = b] \in Seq(Byte)
      BY <1>3, <3>1
    <3>3. sources' = [sources EXCEPT ![i].content = [content EXCEPT ![k] = b]]
      BY <3>1
    <3>4. QED
      BY <3>2, <3>3
  <2>4. QED
    BY <1>2, <2>1, <2>2, <2>3
<1>5. sources' \in Seq(File) /\ Len(sources') = Len(sources)
  BY <1>1, <1>4, ContentType
<1>6. \A j \in 1..Len(sources) : sources'[j].path = sources[j].path
  <2>1. PICK c \in Seq(Byte) : sources' = [sources EXCEPT ![i].content = c]
    BY <1>4
  <2>2. sources' = [sources EXCEPT ![i] = [sources[i] EXCEPT !.content = c]]
    BY <2>1
  <2>3. sources[i] \in File
    BY <1>1
  <2>4. [sources[i] EXCEPT !.content = c].path = sources[i].path
    BY <2>3 DEF File
  <2> QED
    BY <1>1, <2>2, <2>4
<1>7. QED
  BY <1>5, <1>6

LEMMA WriteSourceStep ==
  ASSUME Inv, WriteSource PROVE Inv'
<1>1. sources' \in Seq(File) /\ Len(sources') = Len(sources)
  BY WriteSourceEffect DEF Inv
<1>2. UNCHANGED <<at, next, chunker>>
  BY DEF WriteSource
<1>3. QED
  BY <1>1, <1>2 DEF Inv, SourcesOK, ChunkerOK, CutOK, IsChunk, chunker

LEMMA InvStep == Inv /\ [Next]_vars => Inv'
<1> SUFFICES ASSUME Inv, [Next]_vars PROVE Inv'
  OBVIOUS
<1>1. CASE Add
  BY <1>1, ElsewhereStep, FillStep, FoldStep, LastChunkStep DEF Add
<1>2. CASE WriteSource
  BY <1>2, WriteSourceStep
<1>3. CASE UNCHANGED vars
  BY <1>3 DEF vars, chunker, Inv, SourcesOK, ChunkerOK, CutOK, IsChunk
<1>4. QED
  BY <1>1, <1>2, <1>3 DEF Next, Done

-----------------------------------------------------------------------------
(* However the reads fall, a stream is cut as the whole of it would be.     *)

\* In the middle of a file.
StreamOK ==
  at = "chunking" =>
    /\ Source.path \in DOMAIN taken
    /\ Stream(taken[Source.path], buf, scanned, rolling, cut, eof)

LEMMA StreamElsewhere ==
  ASSUME at' = "scanning" \/ at' = "packing" \/ at' = "done"
  PROVE  StreamOK'
BY DEF StreamOK

LEMMA StreamBeginFile ==
  ASSUME BeginFile
  PROVE  StreamOK'
<1>1. /\ buf' = <<>> /\ scanned' = 0 /\ rolling' = 0 /\ eof' = FALSE /\ cut' = <<>>
      /\ taken' = With(taken, Source.path, <<>>) /\ Source' = Source
  BY DEF BeginFile, Source
<1>2. PICK path : path = Source.path /\ path = Source'.path
  BY <1>1
<1>3. path \in DOMAIN taken' /\ taken'[path] = <<>>
  BY <1>1, <1>2 DEF With
<1> QED
  BY <1>1, <1>2, <1>3, StreamBegins DEF StreamOK

LEMMA StreamFill ==
  ASSUME Inv, StreamOK, Fill
  PROVE  StreamOK'
<1>1. PICK path : path = Source.path
  OBVIOUS
<1>2. path \in DOMAIN taken /\ Stream(taken[path], buf, scanned, rolling, cut, FALSE)
  <2>1. path \in DOMAIN taken /\ Stream(taken[path], buf, scanned, rolling, cut, eof)
    BY <1>1 DEF StreamOK, Fill
  <2>2. ~eof
    BY DEF Fill
  <2> QED
    BY <2>1, <2>2 DEF Stream
<1>3. Source.content \in Seq(Byte) /\ pos \in Nat
  <2>1. sources \in Seq(File) /\ next \in 1..Len(sources)
    BY DEF Fill, Inv, SourcesOK
  <2> QED
    BY <2>1, ContentType DEF Source, Inv, ChunkerOK
<1>4. PICK n \in IF Len(Source.content) - pos <= 0 THEN {0}
                 ELSE 1..Smaller(Len(Source.content) - pos, ReadChunk) :
        /\ buf' = buf \o SubSeq(Source.content, pos + 1, pos + n)
        /\ eof' = AtEnd(n)
        /\ taken' = [taken EXCEPT ![Source.path] = @ \o SubSeq(Source.content, pos + 1, pos + n)]
  BY DEF Fill
<1>5. PICK bytes : bytes = SubSeq(Source.content, pos + 1, pos + n)
  OBVIOUS
<1>6. bytes \in Seq(Byte)
  <2>1. n \in Nat /\ (n = 0 \/ n <= Len(Source.content) - pos)
    BY <1>3, <1>4, Bounds DEF Smaller
  <2>2. CASE n = 0
    <3>1. bytes = <<>>
      BY <1>3, <1>5, <2>2, SubSeqEmpty
    <3> QED
      BY <3>1
  <2>3. CASE n # 0
    <3>1. pos + n \in Nat /\ pos <= pos + n /\ pos + n <= Len(Source.content)
      BY <1>3, <2>1, <2>3
    <3> QED
      BY <1>3, <1>5, <3>1, BytesType
  <2> QED
    BY <2>2, <2>3
<1>7. eof' \in BOOLEAN
  BY <1>4 DEF AtEnd
<1>8. Stream(taken[path] \o bytes, buf \o bytes, scanned, rolling, cut, eof')
  BY <1>2, <1>6, <1>7, StreamReads
<1>9. path \in DOMAIN taken' /\ taken'[path] = taken[path] \o bytes
  BY <1>1, <1>2, <1>4, <1>5
<1>10. buf' = buf \o bytes /\ scanned' = scanned /\ rolling' = rolling /\ cut' = cut /\ Source' = Source
  BY <1>4, <1>5 DEF Fill, Source
<1> QED
  BY <1>1, <1>8, <1>9, <1>10 DEF StreamOK

LEMMA StreamFold ==
  ASSUME Inv, StreamOK, Fold
  PROVE  StreamOK'
<1>1. PICK path : path = Source.path
  OBVIOUS
<1>2. path \in DOMAIN taken /\ Stream(taken[path], buf, scanned, rolling, cut, eof) /\ scanned < Len(buf)
  BY <1>1 DEF StreamOK, Fold
<1>3. taken' = taken /\ eof' = eof /\ Source' = Source
  BY DEF Fold, Source
<1>4. scanned \in Nat
  BY DEF Inv, ChunkerOK
<1>5. CASE CutsAt(Roll(rolling, buf[scanned + 1]), scanned + 1)
  <2>1. /\ cut' = Append(cut, SubSeq(buf, 1, scanned + 1))
        /\ buf' = SubSeq(buf, (scanned + 1) + 1, Len(buf))
        /\ rolling' = 0 /\ scanned' = 0
    BY <1>5 DEF Fold, FreshHash
  <2>2. (scanned + 1) + 1 = scanned + 2
    BY <1>4
  <2>3. Stream(taken[path], buf', 0, 0, cut', eof)
    BY <1>2, <1>5, <2>1, <2>2, StreamCuts
  <2> QED
    BY <1>1, <1>2, <1>3, <2>1, <2>3 DEF StreamOK
<1>6. CASE ~CutsAt(Roll(rolling, buf[scanned + 1]), scanned + 1)
  <2>1. cut' = cut /\ buf' = buf /\ rolling' = Roll(rolling, buf[scanned + 1]) /\ scanned' = scanned + 1
    BY <1>6 DEF Fold
  <2>2. Stream(taken[path], buf, scanned + 1, Roll(rolling, buf[scanned + 1]), cut, eof)
    BY <1>2, <1>6, StreamGoesOn
  <2> QED
    BY <1>1, <1>2, <1>3, <2>1, <2>2 DEF StreamOK
<1> QED
  BY <1>5, <1>6

LEMMA StreamLastChunk ==
  ASSUME StreamOK, LastChunk
  PROVE  StreamOK'
<1>1. PICK path : path = Source.path
  OBVIOUS
<1>2. scanned = Len(buf) /\ eof /\ buf # <<>>
  BY DEF LastChunk
<1>3. path \in DOMAIN taken /\ Stream(taken[path], buf, Len(buf), rolling, cut, eof)
  <2>1. path \in DOMAIN taken /\ Stream(taken[path], buf, scanned, rolling, cut, eof)
    BY <1>1 DEF StreamOK, LastChunk
  <2> QED
    BY <1>2, <2>1
<1>4. Stream(taken[path], buf, Len(buf), rolling, cut, TRUE)
  BY <1>2, <1>3 DEF Stream
<1>5. Stream(taken[path], <<>>, 0, 0, Append(cut, buf), TRUE)
  BY <1>2, <1>4, StreamEnds
<1>6. Stream(taken[path], <<>>, 0, 0, Append(cut, buf), eof)
  BY <1>2, <1>5 DEF Stream
<1>7. /\ taken' = taken /\ eof' = eof /\ Source' = Source
      /\ cut' = Append(cut, buf) /\ buf' = <<>> /\ rolling' = 0 /\ scanned' = 0
  BY DEF LastChunk, Source
<1> QED
  BY <1>1, <1>3, <1>6, <1>7 DEF StreamOK

LEMMA StreamWriteSource ==
  ASSUME Inv, StreamOK, WriteSource
  PROVE  StreamOK'
<1>1. SUFFICES ASSUME at = "chunking" PROVE StreamOK'
  BY DEF StreamOK, WriteSource
<1>2. next \in 1..Len(sources)
  BY <1>1 DEF Inv, SourcesOK
<1>3. Source'.path = Source.path
  BY <1>2, WriteSourceEffect DEF Source, Inv, WriteSource
<1>4. UNCHANGED <<at, buf, scanned, rolling, eof, cut, taken>>
  BY DEF WriteSource, chunker
<1> QED
  BY <1>1, <1>3, <1>4 DEF StreamOK

LEMMA StreamStep ==
  Inv /\ StreamOK /\ [Next]_vars => StreamOK'
<1> SUFFICES ASSUME Inv, StreamOK, [Next]_vars PROVE StreamOK'
  OBVIOUS
<1>1. CASE SetAside \/ EndFile \/ BeginPacks \/ PackFile \/ EndAdd
  <2>1. at' = "scanning" \/ at' = "packing" \/ at' = "done"
    BY <1>1 DEF SetAside, EndFile, BeginPacks, PackFile, EndAdd
  <2> QED
    BY <2>1, StreamElsewhere
<1>2. CASE UNCHANGED vars
  BY <1>2 DEF vars, chunker, StreamOK, Source
<1> QED
  BY <1>1, <1>2, StreamBeginFile, StreamFill, StreamFold, StreamLastChunk, StreamWriteSource
     DEF Next, Add, Done

LEMMA StreamInit == Init => StreamOK
BY DEF Init, StreamOK

LEMMA StreamCutsLikeWhole == StreamOK => CutsLikeWhole
<1> SUFFICES ASSUME StreamOK, at = "chunking"
             PROVE  IsPrefix(cut, ChunksOf(taken[Source.path]))
  BY DEF CutsLikeWhole
<1>1. PICK T : T = taken[Source.path]
  OBVIOUS
<1>2. Stream(T, buf, scanned, rolling, cut, eof)
  BY <1>1 DEF StreamOK
<1>3. T \in Seq(Byte) /\ cut \in Seq(Seq(Byte)) /\ Len(T) - Len(buf) \in 0..Len(T)
  BY <1>2 DEF Stream
<1>4. Extends(T, T)
  BY <1>3 DEF Extends
<1>5. CutUpTo(T, cut, Len(T) - Len(buf))
  BY <1>2, <1>4 DEF Stream
<1> QED
  BY <1>1, <1>3, <1>5, CutIsPrefix

-----------------------------------------------------------------------------
(* What was read for a path is in its entry, or waits in the pack.         *)

LEMMA PartOfJoined ==
  ASSUME NEW a \in Seq(Byte), NEW b \in Seq(Byte), NEW from \in Nat, NEW to \in Nat, from <= to, to <= Len(a)
  PROVE  Part(Join(a, b), from, to) = Part(a, from, to)
<1>1. PICK m \in Nat, n \in Nat : m = Len(a) /\ n = Len(b)
  OBVIOUS
<1>2. PICK w : w = a \o b
  OBVIOUS
<1>3. w \in Seq(Byte) /\ Len(w) = m + n /\ \A i \in 1..m + n : w[i] = IF i <= m THEN a[i] ELSE b[i - m]
  BY <1>1, <1>2, ConcatProperties
<1>4. PICK x : x = Part(w, from, to)
  OBVIOUS
<1>5. PICK y : y = Part(a, from, to)
  OBVIOUS
<1>6. x \in Seq(Byte) /\ Len(x) = to - from /\ \A i \in 1..to - from : x[i] = w[from + i]
  <2>1. to <= Len(w)
    BY <1>1, <1>3
  <2> QED
    BY <1>3, <1>4, <2>1, PartType, ZenonT(30)
<1>7. y \in Seq(Byte) /\ Len(y) = to - from /\ \A i \in 1..to - from : y[i] = a[from + i]
  BY <1>5, PartType
<1>8. ASSUME NEW i \in 1..to - from PROVE x[i] = y[i]
  <2>1. from + i \in 1..m + n /\ from + i <= m
    BY <1>1
  <2> QED
    BY <1>3, <1>6, <1>7, <2>1
<1>9. x = y
  BY <1>6, <1>7, <1>8, SeqEqual
<1> QED
  BY <1>2, <1>4, <1>5, <1>9 DEF Join

LEMMA LastPart ==
  ASSUME NEW a \in Seq(Byte), NEW b \in Seq(Byte), NEW to, to = Len(a) + Len(b)
  PROVE  Part(Join(a, b), Len(a), to) = b
<1>1. PICK m \in Nat, n \in Nat : m = Len(a) /\ n = Len(b)
  OBVIOUS
<1>2. PICK w : w = a \o b
  OBVIOUS
<1>3. w \in Seq(Byte) /\ Len(w) = m + n /\ \A i \in 1..m + n : w[i] = IF i <= m THEN a[i] ELSE b[i - m]
  BY <1>1, <1>2, ConcatProperties
<1>4. PICK x : x = Part(w, m, m + n)
  OBVIOUS
<1>5. x \in Seq(Byte) /\ Len(x) = n /\ \A i \in 1..n : x[i] = w[m + i]
  <2>1. PICK l \in Nat : l = m + n
    OBVIOUS
  <2>2. m <= l /\ l <= Len(w) /\ l - m = n
    BY <1>3, <2>1
  <2>3. x = Part(w, m, l)
    BY <1>4, <2>1
  <2>4. x \in Seq(Byte) /\ Len(x) = l - m /\ \A i \in 1..l - m : x[i] = w[m + i]
    BY <1>3, <2>2, <2>3, PartType, ZenonT(30)
  <2> QED
    BY <2>2, <2>4
<1>6. ASSUME NEW i \in 1..n PROVE x[i] = b[i]
  <2>1. m + i \in 1..m + n /\ ~(m + i <= m) /\ (m + i) - m = i
    OBVIOUS
  <2> QED
    BY <1>3, <1>5, <2>1
<1>7. x = b
  BY <1>1, <1>5, <1>6, SeqEqual
<1> QED
  BY <1>1, <1>2, <1>4, <1>7 DEF Join

Member == [path : Nat, start : Nat, len : Nat]

MemberPaths(mems) == { mems[i].path : i \in DOMAIN mems }

\* No later member has the path of this one.
LastOf(mems, i) == \A j \in i + 1..Len(mems) : mems[j].path # mems[i].path

PartOf(data, member) == Part(data, member.start, member.start + member.len)

\* Members lie within the pack, and what was read last for a path is the part of the
\* last member of that path.
PackHolds(data, mems, tk) ==
  /\ data \in Seq(Byte) /\ mems \in Seq(Member)
  /\ \A i \in 1..Len(mems) : mems[i].start + mems[i].len <= Len(data)
  /\ \A i \in 1..Len(mems) : mems[i].path \in DOMAIN tk
  /\ \A i \in 1..Len(mems) : LastOf(mems, i) => tk[mems[i].path] = PartOf(data, mems[i])

\* The entries of other paths give what was read for them.
EntriesRead(es, others, tk) ==
  \A p \in DOMAIN es \ others : p \in DOMAIN tk /\ ReadsAs(es[p], tk[p])

NewMember(path, data, content) == [path |-> path, start |-> Len(data), len |-> Len(content)]

LEMMA AppendIs ==
  ASSUME NEW X, NEW s \in Seq(X), NEW x \in X
  PROVE  /\ Append(s, x) \in Seq(X) /\ Len(Append(s, x)) = Len(s) + 1
         /\ \A i \in 1..Len(s) : Append(s, x)[i] = s[i]
         /\ Append(s, x)[Len(s) + 1] = x
OBVIOUS

LEMMA PackGrows ==
  ASSUME NEW data, NEW mems, NEW tk, PackHolds(data, mems, tk), NEW path \in Nat, NEW content \in Seq(Byte)
  PROVE  PackHolds(Join(data, content), Append(mems, NewMember(path, data, content)), With(tk, path, content))
<1>1. data \in Seq(Byte) /\ mems \in Seq(Member)
  BY DEF PackHolds
<1>2. PICK n \in Nat, l \in Nat, k \in Nat : n = Len(mems) /\ l = Len(data) /\ k = Len(content)
  BY <1>1
<1>3. PICK one \in Member : one = NewMember(path, data, content) /\ one.path = path /\ one.start = l /\ one.len = k
  <2>1. NewMember(path, data, content) \in Member
    BY <1>2 DEF NewMember, Member
  <2> QED
    BY <1>2, <2>1 DEF NewMember
<1>4. PICK ms : ms = Append(mems, one)
  OBVIOUS
<1>5. ms \in Seq(Member) /\ Len(ms) = n + 1 /\ ms[n + 1] = one /\ \A i \in 1..n : ms[i] = mems[i]
  BY <1>1, <1>2, <1>3, <1>4, AppendIs
<1>6. PICK d : d = Join(data, content)
  OBVIOUS
<1>7. d \in Seq(Byte) /\ Len(d) = l + k
  <2>1. data \o content \in Seq(Byte) /\ Len(data \o content) = l + k
    BY <1>1, <1>2, ConcatProperties
  <2> QED
    BY <1>6, <2>1 DEF Join
<1>8. PICK t : t = With(tk, path, content)
  OBVIOUS
<1>9. DOMAIN t = DOMAIN tk \cup {path} /\ t[path] = content /\ \A p \in DOMAIN tk : p # path => t[p] = tk[p]
  BY <1>8 DEF With
<1>10. \A i \in 1..n : mems[i].path \in Nat /\ mems[i].start \in Nat /\ mems[i].len \in Nat
  <2>1. \A i \in 1..n : mems[i] \in Member
    BY <1>1, <1>2
  <2> QED
    BY <2>1 DEF Member
<1>11. \A i \in 1..n : /\ mems[i].start + mems[i].len <= l
                       /\ mems[i].path \in DOMAIN tk
                       /\ LastOf(mems, i) => tk[mems[i].path] = PartOf(data, mems[i])
  BY <1>2 DEF PackHolds
<1>12. \A i \in 1..n + 1 : i \in 1..n \/ i = n + 1
  OBVIOUS
<1>13. \A i \in 1..Len(ms) : ms[i].start + ms[i].len <= Len(d)
  <2>1. SUFFICES ASSUME NEW i \in 1..n + 1 PROVE ms[i].start + ms[i].len <= l + k
    BY <1>5, <1>7
  <2>2. CASE i = n + 1
    BY <1>3, <1>5, <2>2
  <2>3. CASE i \in 1..n
    <3>1. PICK u \in Nat : u = mems[i].start + mems[i].len /\ u <= l
      BY <1>10, <1>11, <2>3
    <3>2. u <= l + k
      BY <3>1
    <3> QED
      BY <1>5, <2>3, <3>1, <3>2
  <2> QED
    BY <1>12, <2>2, <2>3
<1>14. \A i \in 1..Len(ms) : ms[i].path \in DOMAIN t
  BY <1>3, <1>5, <1>9, <1>11, <1>12
<1>15. ASSUME NEW i \in 1..Len(ms), LastOf(ms, i)
       PROVE  t[ms[i].path] = PartOf(d, ms[i])
  <2>1. CASE i = n + 1
    <3>1. Part(d, l, l + k) = content
      BY <1>1, <1>2, <1>6, LastPart
    <3> QED
      BY <1>3, <1>5, <1>9, <2>1, <3>1 DEF PartOf
  <2>2. CASE i \in 1..n
    <3>1. i + 1..n + 1 = i + 1..Len(ms) /\ n + 1 \in i + 1..n + 1 /\ \A j \in i + 1..n : j \in i + 1..n + 1 /\ j \in 1..n
      BY <1>5, <2>2
    <3>2. mems[i].path # path
      BY <1>3, <1>5, <1>15, <2>2, <3>1 DEF LastOf
    <3>3. LastOf(mems, i)
      BY <1>2, <1>5, <1>15, <2>2, <3>1 DEF LastOf
    <3>4. tk[mems[i].path] = PartOf(data, mems[i])
      BY <1>11, <2>2, <3>3
    <3>5. PICK u \in Nat, v \in Nat : u = mems[i].start /\ v = mems[i].start + mems[i].len /\ u <= v /\ v <= l
      BY <1>10, <1>11, <2>2
    <3>6. Part(d, u, v) = Part(data, u, v)
      BY <1>1, <1>2, <1>6, <3>5, PartOfJoined
    <3>7. PartOf(d, mems[i]) = PartOf(data, mems[i])
      BY <3>5, <3>6 DEF PartOf
    <3>8. t[mems[i].path] = tk[mems[i].path]
      BY <1>9, <1>11, <2>2, <3>2
    <3> QED
      BY <1>5, <2>2, <3>4, <3>7, <3>8
  <2> QED
    BY <1>5, <1>12, <2>1, <2>2
<1>16. PackHolds(d, ms, t)
  BY <1>5, <1>7, <1>13, <1>14, <1>15 DEF PackHolds
<1> QED
  BY <1>3, <1>4, <1>6, <1>8, <1>16

\* Of the members of a path there is a last one.
LEMMA LastExists ==
  ASSUME NEW mems \in Seq(Member), NEW p \in MemberPaths(mems)
  PROVE  \E k \in 1..Len(mems) :
           /\ mems[k].path = p /\ LastOf(mems, k)
           /\ Max({ i \in DOMAIN mems : mems[i].path = p }) = k
<1>1. PICK n \in Nat : n = Len(mems) /\ DOMAIN mems = 1..n
  OBVIOUS
<1> DEFINE D == { m \in 0..n : n - m \in 1..n /\ mems[n - m].path = p }
<1>2. D \in SUBSET Nat
  OBVIOUS
<1>3. D # {}
  <2>1. PICK i \in 1..n : mems[i].path = p
    BY <1>1 DEF MemberPaths
  <2>2. n - i \in 0..n /\ n - (n - i) = i
    OBVIOUS
  <2>3. n - i \in D
    BY <2>1, <2>2
  <2> QED
    BY <2>3
<1>4. PICK m \in D : \A j \in D : m <= j
  <2> HIDE DEF D
  <2> QED
    BY <1>2, <1>3, LeastElement
<1>5. PICK k \in 1..n : k = n - m /\ mems[k].path = p
  BY <1>4
<1>6. ASSUME NEW i \in 1..n, mems[i].path = p PROVE i <= k
  <2>1. n - i \in 0..n /\ n - (n - i) = i
    OBVIOUS
  <2>2. n - i \in D
    BY <1>6, <2>1
  <2>3. m <= n - i /\ m \in 0..n
    BY <1>4, <2>2
  <2> QED
    BY <1>5, <2>3
<1>7. LastOf(mems, k)
  <2>1. SUFFICES ASSUME NEW j \in k + 1..n, mems[j].path = p PROVE FALSE
    BY <1>1, <1>5 DEF LastOf
  <2>2. j \in 1..n /\ ~(j <= k)
    OBVIOUS
  <2> QED
    BY <1>6, <2>1, <2>2
<1>8. Max({ i \in DOMAIN mems : mems[i].path = p }) = k
  <2>1. PICK S : S = { i \in DOMAIN mems : mems[i].path = p }
    OBVIOUS
  <2>2. S \in SUBSET Int /\ k \in S /\ \A i \in S : i <= k
    BY <1>1, <1>5, <1>6, <2>1
  <2> QED
    BY <2>1, <2>2, MaxIs
<1> QED
  BY <1>1, <1>5, <1>7, <1>8

\* When a pack is flushed every entry gives what was read for its path.
LEMMA FlushReads ==
  ASSUME BlocksFit, NEW es, NEW data, NEW mems, NEW tk,
         PackHolds(data, mems, tk), EntriesRead(es, MemberPaths(mems), tk)
  PROVE  /\ DOMAIN WithPack(es, data, mems) = DOMAIN es \cup MemberPaths(mems)
         /\ EntriesRead(WithPack(es, data, mems), {}, tk)
<1>1. data \in Seq(Byte) /\ mems \in Seq(Member) /\ DOMAIN mems = 1..Len(mems)
  BY DEF PackHolds
<1>2. PICK w : w = WithPack(es, data, mems)
  OBVIOUS
<1>3. DOMAIN w = DOMAIN es \cup MemberPaths(mems)
  BY <1>2 DEF WithPack, MemberPaths
<1>4. ASSUME NEW p \in MemberPaths(mems) PROVE p \in DOMAIN tk /\ ReadsAs(w[p], tk[p])
  <2>1. PICK k \in 1..Len(mems) : /\ mems[k].path = p /\ LastOf(mems, k)
                                  /\ Max({ i \in DOMAIN mems : mems[i].path = p }) = k
    BY <1>1, LastExists
  <2>2. w[p] = MemberEntry(data, mems[k])
    <3>1. \E i \in DOMAIN mems : mems[i].path = p
      BY <1>1, <2>1
    <3>2. p \in DOMAIN es \cup { mems[i].path : i \in DOMAIN mems }
      BY <3>1
    <3> QED
      BY <1>2, <2>1, <3>1, <3>2 DEF WithPack
  <2>3. PICK start \in Nat, len \in Nat : start = mems[k].start /\ len = mems[k].len
    <3>1. mems[k] \in Member
      BY <1>1
    <3> QED
      BY <3>1 DEF Member
  <2>4. PICK stop \in Nat : stop = start + len /\ start <= stop /\ len = stop - start
    BY <2>3
  <2>5. stop <= Len(data) /\ p \in DOMAIN tk /\ tk[p] = PartOf(data, mems[k])
    BY <2>1, <2>3, <2>4 DEF PackHolds
  <2>6. PartOf(data, mems[k]) = Part(data, start, stop)
    BY <2>3, <2>4 DEF PartOf
  <2>7. ReadsAs(MemberEntry(data, mems[k]), Part(data, start, stop))
    <3>1. mems[k].len = stop - start /\ mems[k].start = start
      BY <2>3, <2>4
    <3> QED
      BY <1>1, <2>4, <2>5, <3>1, MemberReads
  <2> QED
    BY <2>2, <2>5, <2>6, <2>7
<1>5. ASSUME NEW p \in DOMAIN es \ MemberPaths(mems) PROVE p \in DOMAIN tk /\ ReadsAs(w[p], tk[p])
  <2>1. ~\E i \in DOMAIN mems : mems[i].path = p
    BY DEF MemberPaths
  <2>2. w[p] = es[p]
    BY <1>2, <2>1 DEF WithPack
  <2> QED
    BY <2>2 DEF EntriesRead
<1>6. EntriesRead(w, {}, tk)
  BY <1>3, <1>4, <1>5 DEF EntriesRead
<1> QED
  BY <1>2, <1>3, <1>6

PackOK ==
  /\ PackHolds(pack, members, taken)
  /\ at # "packing" => pack = <<>> /\ members = <<>>

EntriesOK ==
  /\ EntriesRead(entries, MemberPaths(members), taken)
  /\ at = "chunking" => Source.path \notin DOMAIN entries

Waiting == { sources[i].path : i \in small \cup (next..Len(sources)) }

Held == DOMAIN entries \cup MemberPaths(members)

\* A path that was asked for has an entry or a member, or its file is still to come.
CallOK ==
  /\ at \in {"scanning", "chunking", "packing", "done"}
  /\ small \subseteq 1..Len(sources)
  /\ at = "packing" \/ at = "done" => next > Len(sources)
  /\ at = "done" => small = {}
  /\ Held \subseteq Paths /\ DOMAIN taken \subseteq Paths
  /\ Paths \subseteq Held \cup Waiting

LEMMA MembersGrow ==
  ASSUME NEW ms \in Seq(Member), NEW m \in Member
  PROVE  MemberPaths(Append(ms, m)) = MemberPaths(ms) \cup {m.path}
<1>1. PICK n \in Nat : n = Len(ms) /\ DOMAIN ms = 1..n
  OBVIOUS
<1>2. PICK s : s = Append(ms, m)
  OBVIOUS
<1>3. /\ s[n + 1] = m /\ \A i \in 1..n : s[i] = ms[i]
      /\ DOMAIN s = 1..n + 1 /\ \A i \in 1..n + 1 : i \in 1..n \/ i = n + 1
  <2>1. s \in Seq(Member) /\ Len(s) = n + 1 /\ s[n + 1] = m /\ \A i \in 1..n : s[i] = ms[i]
    BY <1>1, <1>2, AppendIs
  <2> QED
    BY <2>1
<1>4. n + 1 \in 1..n + 1 /\ \A i \in 1..n : i \in 1..n + 1
  OBVIOUS
<1> QED
  BY <1>1, <1>2, <1>3, <1>4 DEF MemberPaths

LEMMA NoMembers == MemberPaths(<<>>) = {}
BY DEF MemberPaths

LEMMA SourceIsAsked ==
  ASSUME Inv, next <= Len(sources)
  PROVE  /\ next \in 1..Len(sources) /\ Source.path \in Paths /\ Source.path \in Nat
         /\ Source.content \in Seq(Byte)
<1>1. sources \in Seq(File) /\ next \in 1..Len(sources) /\ DOMAIN sources = 1..Len(sources)
  BY DEF Inv, SourcesOK
<1>2. Source \in File
  BY <1>1 DEF Source
<1> QED
  BY <1>1, <1>2 DEF Source, File, Paths

\* What a flush leaves, and what a pack that goes on does.
LEMMA PackFileEffect ==
  ASSUME Inv, PackHolds(pack, members, taken), small \subseteq 1..Len(sources), PackFile
  PROVE  \E i \in small : \E data, mems :
           /\ sources[i].path \in Paths
           /\ PackHolds(data, mems, taken')
           /\ MemberPaths(mems) = MemberPaths(members) \cup {sources[i].path}
           /\ small' = small \ {i}
           /\ taken' = With(taken, sources[i].path, sources[i].content)
           /\ \/ pack' = data /\ members' = mems /\ entries' = entries
              \/ pack' = <<>> /\ members' = <<>> /\ entries' = WithPack(entries, data, mems)
<1>1. PICK i \in small :
        LET data == pack \o sources[i].content
            mems == Append(members, [path |-> sources[i].path, start |-> Len(pack),
                                     len |-> Len(sources[i].content)])
            full == Len(data) >= PackTarget
        IN  /\ small' = small \ {i}
            /\ pack' = IF full THEN <<>> ELSE data
            /\ members' = IF full THEN <<>> ELSE mems
            /\ entries' = IF full THEN WithPack(entries, data, mems) ELSE entries
            /\ taken' = With(taken, sources[i].path, sources[i].content)
  BY DEF PackFile
<1>2. sources[i] \in File /\ i \in DOMAIN sources
  BY DEF Inv, SourcesOK
<1>3. sources[i].path \in Nat /\ sources[i].content \in Seq(Byte) /\ sources[i].path \in Paths
  BY <1>2 DEF File, Paths
<1>4. PICK path \in Nat, content \in Seq(Byte) : path = sources[i].path /\ content = sources[i].content
  BY <1>3
<1>5. PICK data, mems : data = Join(pack, content) /\ mems = Append(members, NewMember(path, pack, content))
  OBVIOUS
<1>6. /\ small' = small \ {i}
      /\ pack' = IF Len(data) >= PackTarget THEN <<>> ELSE data
      /\ members' = IF Len(data) >= PackTarget THEN <<>> ELSE mems
      /\ entries' = IF Len(data) >= PackTarget THEN WithPack(entries, data, mems) ELSE entries
      /\ taken' = With(taken, path, content)
  BY <1>1, <1>4, <1>5 DEF Join, NewMember
<1>7. PackHolds(data, mems, taken')
  BY <1>5, <1>6, PackGrows
<1>8. MemberPaths(mems) = MemberPaths(members) \cup {path}
  <2>1. members \in Seq(Member) /\ pack \in Seq(Byte)
    BY DEF PackHolds
  <2>2. NewMember(path, pack, content) \in Member /\ NewMember(path, pack, content).path = path
    BY <2>1 DEF NewMember, Member
  <2> QED
    BY <1>5, <2>1, <2>2, MembersGrow
<1>9. \/ pack' = data /\ members' = mems /\ entries' = entries
      \/ pack' = <<>> /\ members' = <<>> /\ entries' = WithPack(entries, data, mems)
  BY <1>6
<1> QED
  BY <1>3, <1>4, <1>6, <1>7, <1>8, <1>9

LEMMA NoPack ==
  ASSUME NEW tk
  PROVE  PackHolds(<<>>, <<>>, tk)
<1>1. <<>> \in Seq(Byte) /\ <<>> \in Seq(Member) /\ Len(<<>>) = 0
  OBVIOUS
<1> QED
  BY <1>1 DEF PackHolds

LEMMA PackInit == Init => PackOK
BY NoPack DEF Init, PackOK

LEMMA PackStep ==
  Inv /\ CallOK /\ PackOK /\ [Next]_vars => PackOK'
<1> SUFFICES ASSUME Inv, CallOK, PackOK, [Next]_vars PROVE PackOK'
  OBVIOUS
<1>1. CASE UNCHANGED <<pack, members>> /\ at # "packing" /\ (at' # "packing" \/ at = "scanning")
  <2>1. pack' = <<>> /\ members' = <<>>
    BY <1>1 DEF PackOK
  <2> QED
    BY <2>1, NoPack DEF PackOK
<1>2. CASE PackFile
  <2>1. PICK i, data, mems :
           /\ i \in small
           /\ PackHolds(data, mems, taken')
           /\ \/ pack' = data /\ members' = mems /\ entries' = entries
              \/ pack' = <<>> /\ members' = <<>> /\ entries' = WithPack(entries, data, mems)
    BY <1>2, PackFileEffect DEF PackOK, CallOK
  <2>2. PackHolds(pack', members', taken')
    BY <2>1, NoPack
  <2>3. at' = "packing"
    BY <1>2 DEF PackFile
  <2> QED
    BY <2>2, <2>3 DEF PackOK
<1>3. CASE EndAdd
  <2>1. pack' = <<>> /\ members' = <<>>
    BY <1>3 DEF EndAdd
  <2> QED
    BY <2>1, NoPack DEF PackOK
<1>4. CASE UNCHANGED <<pack, members, taken, at>>
  BY <1>4 DEF PackOK
<1>5. CASE SetAside \/ BeginFile \/ Fill \/ Fold \/ LastChunk \/ EndFile \/ BeginPacks
  BY <1>1, <1>5 DEF SetAside, BeginFile, Fill, Fold, LastChunk, EndFile, BeginPacks, packer
<1>6. CASE WriteSource \/ UNCHANGED vars
  BY <1>4, <1>6 DEF WriteSource, vars, packer
<1> QED
  BY <1>2, <1>3, <1>5, <1>6 DEF Next, Add, Done

LEMMA CallInit == Init => CallOK
<1> SUFFICES ASSUME Init PROVE CallOK
  OBVIOUS
<1>1. DOMAIN sources = 1..Len(sources)
  <2>1. sources \in Seq(File)
    BY RequestAssumption DEF Init, File
  <2> QED
    BY <2>1
<1>2. at = "scanning" /\ next = 1 /\ small = {} /\ DOMAIN entries = {} /\ DOMAIN taken = {} /\ members = <<>>
  BY DEF Init
<1>3. Held = {}
  BY <1>2, NoMembers DEF Held
<1>4. Paths = Waiting
  BY <1>1, <1>2 DEF Paths, Waiting
<1> QED
  BY <1>2, <1>3, <1>4 DEF CallOK

LEMMA CallStep ==
  Inv /\ PackOK /\ CallOK /\ [Next]_vars => CallOK'
<1> SUFFICES ASSUME Inv, PackOK, CallOK, [Next]_vars PROVE CallOK'
  OBVIOUS
<1>1. DOMAIN sources = 1..Len(sources) /\ next \in Nat /\ Len(sources) \in Nat
  BY DEF Inv, SourcesOK
<1>2. CASE SetAside
  <2>1. next \in 1..Len(sources)
    BY <1>1, <1>2 DEF SetAside, Inv, SourcesOK
  <2>2. (small \cup {next}) \cup (next + 1..Len(sources)) = small \cup (next..Len(sources))
    BY <2>1
  <2>3. /\ small' = small \cup {next} /\ next' = next + 1 /\ at' = "scanning"
        /\ UNCHANGED <<sources, entries, members, taken>>
    BY <1>2 DEF SetAside
  <2>4. Waiting' = Waiting /\ Paths' = Paths /\ Held' = Held
    BY <2>2, <2>3 DEF Waiting, Paths, Held
  <2> QED
    BY <2>1, <2>3, <2>4 DEF CallOK
<1>3. CASE BeginFile
  <2>1. /\ at' = "chunking" /\ next <= Len(sources) /\ UNCHANGED <<sources, next, small, members>>
        /\ DOMAIN entries' = DOMAIN entries \ {Source.path}
        /\ DOMAIN taken' = DOMAIN taken \cup {Source.path}
    BY <1>3 DEF BeginFile, Without, With, packer
  <2>2. Source.path \in Paths
    BY <2>1, SourceIsAsked
  <2>3. Source.path \in Waiting
    <3>1. next \in small \cup (next..Len(sources))
      BY <1>1, <2>1
    <3> QED
      BY <3>1 DEF Waiting, Source
  <2>4. Waiting' = Waiting /\ Paths' = Paths
    BY <2>1 DEF Waiting, Paths
  <2>5. Held' \subseteq Held /\ Held \subseteq Held' \cup {Source.path}
    BY <2>1 DEF Held
  <2> QED
    BY <2>1, <2>2, <2>3, <2>4, <2>5 DEF CallOK
<1>4. CASE UNCHANGED <<sources, at, next, small, members, entries>> /\ DOMAIN taken' = DOMAIN taken
  <2>1. Waiting' = Waiting /\ Paths' = Paths /\ Held' = Held
    BY <1>4 DEF Waiting, Paths, Held
  <2> QED
    BY <1>4, <2>1 DEF CallOK
<1>5. CASE Fill
  <2>1. DOMAIN taken' = DOMAIN taken
    BY <1>5 DEF Fill
  <2> QED
    BY <1>4, <1>5, <2>1 DEF Fill, packer
<1>6. CASE Fold \/ LastChunk \/ UNCHANGED vars
  BY <1>4, <1>6 DEF Fold, LastChunk, vars, packer
<1>7. CASE EndFile
  <2>1. /\ at' = "scanning" /\ next' = next + 1 /\ next <= Len(sources) /\ UNCHANGED <<sources, small, members, taken>>
        /\ DOMAIN entries' = DOMAIN entries \cup {Source.path}
    BY <1>7 DEF EndFile, With, packer, Inv, SourcesOK
  <2>2. Source.path \in Paths
    BY <2>1, SourceIsAsked
  <2>3. Waiting \subseteq Waiting' \cup {Source.path}
    <3>1. small \cup (next..Len(sources)) \subseteq (small \cup (next + 1..Len(sources))) \cup {next}
      BY <1>1
    <3> QED
      BY <2>1, <3>1 DEF Waiting, Source
  <2>4. Held' = Held \cup {Source.path} /\ Paths' = Paths
    BY <2>1 DEF Held, Paths
  <2> QED
    BY <2>1, <2>2, <2>3, <2>4 DEF CallOK
<1>8. CASE BeginPacks
  <2>1. at' = "packing" /\ next > Len(sources) /\ UNCHANGED <<sources, next, small, members, entries, taken>>
    BY <1>8 DEF BeginPacks, packer
  <2>2. Waiting' = Waiting /\ Paths' = Paths /\ Held' = Held
    BY <2>1 DEF Waiting, Paths, Held
  <2> QED
    BY <2>1, <2>2 DEF CallOK
<1>9. CASE PackFile
  <2>1. PICK i, data, mems :
           /\ i \in small
           /\ sources[i].path \in Paths
           /\ PackHolds(data, mems, taken')
           /\ MemberPaths(mems) = MemberPaths(members) \cup {sources[i].path}
           /\ small' = small \ {i}
           /\ taken' = With(taken, sources[i].path, sources[i].content)
           /\ \/ pack' = data /\ members' = mems /\ entries' = entries
              \/ pack' = <<>> /\ members' = <<>> /\ entries' = WithPack(entries, data, mems)
    BY <1>9, PackFileEffect DEF PackOK, CallOK
  <2>2. at = "packing" /\ UNCHANGED <<sources, at, next>>
    BY <1>9 DEF PackFile
  <2>3. DOMAIN taken' = DOMAIN taken \cup {sources[i].path}
    BY <2>1 DEF With
  <2>4. Held' = Held \cup {sources[i].path}
    <3>1. CASE pack' = data /\ members' = mems /\ entries' = entries
      BY <2>1, <3>1 DEF Held
    <3>2. CASE pack' = <<>> /\ members' = <<>> /\ entries' = WithPack(entries, data, mems)
      <4>1. DOMAIN entries' = DOMAIN entries \cup MemberPaths(mems)
        BY <3>2 DEF WithPack, MemberPaths
      <4> QED
        BY <2>1, <3>2, <4>1, NoMembers DEF Held
    <3> QED
      BY <2>1, <3>1, <3>2
  <2>5. Waiting \subseteq Waiting' \cup {sources[i].path} /\ Paths' = Paths
    BY <2>1, <2>2 DEF Waiting, Paths
  <2> QED
    BY <2>1, <2>2, <2>3, <2>4, <2>5 DEF CallOK
<1>10. CASE EndAdd
  <2>1. /\ at = "packing" /\ at' = "done" /\ small = {} /\ small' = {} /\ members' = <<>>
        /\ UNCHANGED <<sources, next, taken>>
        /\ DOMAIN entries' = DOMAIN entries \cup MemberPaths(members)
    BY <1>10 DEF EndAdd, WithPack, MemberPaths
  <2>2. Held' = Held
    BY <2>1, NoMembers DEF Held
  <2>3. Waiting' = Waiting /\ Paths' = Paths
    BY <2>1 DEF Waiting, Paths
  <2> QED
    BY <2>1, <2>2, <2>3 DEF CallOK
<1>11. CASE WriteSource
  <2>1. /\ Len(sources') = Len(sources) /\ DOMAIN sources' = 1..Len(sources)
        /\ \A i \in 1..Len(sources) : sources'[i].path = sources[i].path
    BY <1>11, WriteSourceEffect DEF Inv
  <2>2. UNCHANGED <<at, next, small, members, entries, taken>>
    BY <1>11 DEF WriteSource, packer
  <2>3. Paths' = Paths /\ Held' = Held
    BY <1>1, <2>1, <2>2 DEF Paths, Held
  <2>4. Waiting' = Waiting
    <3>1. \A i \in small \cup (next..Len(sources)) : i \in 1..Len(sources)
      BY <1>1 DEF CallOK, Inv, SourcesOK
    <3> QED
      BY <2>1, <2>2, <3>1 DEF Waiting
  <2> QED
    BY <2>1, <2>2, <2>3, <2>4 DEF CallOK
<1> QED
  BY <1>2, <1>3, <1>5, <1>6, <1>7, <1>8, <1>9, <1>10, <1>11 DEF Next, Add, Done

LEMMA ReadsElsewhere ==
  ASSUME NEW es, NEW others, NEW tk, EntriesRead(es, others, tk), NEW path, NEW content
  PROVE  EntriesRead(es, others \cup {path}, With(tk, path, content))
<1>1. ASSUME NEW p \in DOMAIN es \ (others \cup {path})
      PROVE  p \in DOMAIN With(tk, path, content) /\ With(tk, path, content)[p] = tk[p] /\ ReadsAs(es[p], tk[p])
  <2>1. p \in DOMAIN tk /\ ReadsAs(es[p], tk[p]) /\ p # path
    BY DEF EntriesRead
  <2> QED
    BY <2>1 DEF With
<1> QED
  BY <1>1 DEF EntriesRead

LEMMA EntriesBeginFile ==
  ASSUME EntriesOK, PackOK, BeginFile
  PROVE  EntriesOK'
<1>1. PICK path : path = Source.path
  OBVIOUS
<1>2. /\ entries' = Without(entries, path) /\ taken' = With(taken, path, <<>>)
      /\ members' = members /\ Source' = Source
  BY <1>1 DEF BeginFile, Source, packer
<1>3. members = <<>>
  BY DEF PackOK, BeginFile
<1>4. EntriesRead(entries, {path}, taken')
  <2>1. EntriesRead(entries, {} \cup {path}, With(taken, path, <<>>))
    BY <1>3, NoMembers, ReadsElsewhere DEF EntriesOK
  <2>2. {} \cup {path} = {path}
    OBVIOUS
  <2> QED
    BY <1>2, <2>1, <2>2
<1>5. DOMAIN entries' = DOMAIN entries \ {path} /\ \A p \in DOMAIN entries \ {path} : entries'[p] = entries[p]
  BY <1>2 DEF Without
<1>6. EntriesRead(entries', {}, taken')
  BY <1>4, <1>5 DEF EntriesRead
<1>7. EntriesRead(entries', MemberPaths(members'), taken')
  BY <1>2, <1>3, <1>6, NoMembers
<1>8. Source'.path \notin DOMAIN entries'
  BY <1>1, <1>2, <1>5
<1> QED
  BY <1>7, <1>8 DEF EntriesOK

LEMMA EntriesFill ==
  ASSUME EntriesOK, Fill
  PROVE  EntriesOK'
<1>1. PICK path : path = Source.path
  OBVIOUS
<1>2. /\ entries' = entries /\ members' = members /\ at = "chunking" /\ at' = at /\ Source' = Source
  BY DEF Fill, Source, packer
<1>3. path \notin DOMAIN entries
  BY <1>1, <1>2 DEF EntriesOK
<1>4. DOMAIN taken' = DOMAIN taken /\ \A p \in DOMAIN taken : p # path => taken'[p] = taken[p]
  BY <1>1 DEF Fill
<1>5. EntriesRead(entries, MemberPaths(members), taken')
  BY <1>3, <1>4 DEF EntriesOK, EntriesRead
<1> QED
  BY <1>1, <1>2, <1>3, <1>5 DEF EntriesOK

LEMMA EntriesEndFile ==
  ASSUME BlocksFit, StreamOK, EntriesOK, EndFile
  PROVE  EntriesOK'
<1>1. PICK path : path = Source.path
  OBVIOUS
<1>2. PICK T : T = taken[path]
  OBVIOUS
<1>3. path \in DOMAIN taken /\ Stream(T, <<>>, scanned, rolling, cut, eof) /\ eof
  BY <1>1, <1>2 DEF StreamOK, EndFile
<1>4. T \in Seq(Byte) /\ cut \in Seq(Seq(Byte)) /\ Extends(T, T)
  <2>1. T \in Seq(Byte) /\ cut \in Seq(Seq(Byte))
    BY <1>3 DEF Stream
  <2> QED
    BY <2>1 DEF Extends
<1>5. PICK n \in Nat : n = Len(T) /\ n \in 0..Len(T)
  BY <1>4
<1>6. CutUpTo(T, cut, n)
  <2>1. CutUpTo(T, cut, Len(T) - Len(<<>>))
    BY <1>3, <1>4 DEF Stream
  <2>2. Len(T) - Len(<<>>) = n
    BY <1>5
  <2> QED
    BY <2>1, <2>2
<1>7. cut = ChunksOf(T)
  BY <1>4, <1>5, <1>6, CutIsPrefix
<1>8. PICK e : e = Entry(LengthOf(cut), 0, cut) /\ ReadsAs(e, T)
  BY <1>4, <1>7, WholeReads
<1>9. entries' = With(entries, path, e) /\ members' = members /\ taken' = taken /\ at' = "scanning"
  BY <1>1, <1>8 DEF EndFile, packer
<1>10. /\ DOMAIN entries' = DOMAIN entries \cup {path} /\ entries'[path] = e
       /\ \A p \in DOMAIN entries : p # path => entries'[p] = entries[p]
  BY <1>9 DEF With
<1>11. EntriesRead(entries', MemberPaths(members'), taken')
  <2>1. SUFFICES ASSUME NEW p \in DOMAIN entries' \ MemberPaths(members)
                 PROVE  p \in DOMAIN taken /\ ReadsAs(entries'[p], taken[p])
    BY <1>9 DEF EntriesRead
  <2>2. CASE p = path
    BY <1>2, <1>3, <1>8, <1>10, <2>2
  <2>3. CASE p # path
    <3>1. p \in DOMAIN entries \ MemberPaths(members) /\ entries'[p] = entries[p]
      BY <1>10, <2>3
    <3> QED
      BY <3>1 DEF EntriesOK, EntriesRead
  <2> QED
    BY <2>2, <2>3
<1> QED
  BY <1>9, <1>11 DEF EntriesOK

LEMMA EntriesPackFile ==
  ASSUME BlocksFit, Inv, PackOK, CallOK, EntriesOK, PackFile
  PROVE  EntriesOK'
<1>1. PICK i, data, mems :
           /\ i \in small
           /\ PackHolds(data, mems, taken')
           /\ MemberPaths(mems) = MemberPaths(members) \cup {sources[i].path}
           /\ taken' = With(taken, sources[i].path, sources[i].content)
           /\ \/ pack' = data /\ members' = mems /\ entries' = entries
              \/ pack' = <<>> /\ members' = <<>> /\ entries' = WithPack(entries, data, mems)
  BY PackFileEffect DEF PackOK, CallOK
<1>2. at' = "packing"
  BY DEF PackFile
<1>3. EntriesRead(entries, MemberPaths(mems), taken')
  BY <1>1, ReadsElsewhere DEF EntriesOK
<1>4. EntriesRead(entries', MemberPaths(members'), taken')
  <2>1. CASE members' = mems /\ entries' = entries
    BY <1>3, <2>1
  <2>2. CASE members' = <<>> /\ entries' = WithPack(entries, data, mems)
    <3>1. PackHolds(data, mems, taken')
      BY <1>1
    <3>2. EntriesRead(WithPack(entries, data, mems), {}, taken')
      BY <1>3, <3>1, FlushReads
    <3> QED
      BY <2>2, <3>2, NoMembers
  <2> QED
    BY <1>1, <2>1, <2>2
<1> QED
  BY <1>2, <1>4 DEF EntriesOK

LEMMA EntriesEndAdd ==
  ASSUME BlocksFit, PackOK, EntriesOK, EndAdd
  PROVE  EntriesOK'
<1>1. /\ at' = "done" /\ members' = <<>> /\ taken' = taken
      /\ entries' = WithPack(entries, pack, members)
  BY DEF EndAdd
<1>2. EntriesRead(WithPack(entries, pack, members), {}, taken)
  BY FlushReads DEF PackOK, EntriesOK
<1>3. EntriesRead(entries', MemberPaths(members'), taken')
  BY <1>1, <1>2, NoMembers
<1> QED
  BY <1>1, <1>3 DEF EntriesOK

LEMMA EntriesWriteSource ==
  ASSUME Inv, EntriesOK, WriteSource
  PROVE  EntriesOK'
<1>1. UNCHANGED <<at, next, entries, members, taken>>
  BY DEF WriteSource, packer
<1>2. ASSUME at = "chunking" PROVE Source'.path = Source.path
  <2>1. next \in 1..Len(sources)
    BY <1>2 DEF Inv, SourcesOK
  <2> QED
    BY <1>1, <2>1, WriteSourceEffect DEF Source, Inv
<1> QED
  BY <1>1, <1>2 DEF EntriesOK

LEMMA EntriesStep ==
  ASSUME BlocksFit
  PROVE  Inv /\ StreamOK /\ PackOK /\ CallOK /\ EntriesOK /\ [Next]_vars => EntriesOK'
<1> SUFFICES ASSUME Inv, StreamOK, PackOK, CallOK, EntriesOK, [Next]_vars PROVE EntriesOK'
  OBVIOUS
<1>1. CASE SetAside \/ BeginPacks
  <2>1. UNCHANGED <<entries, members, taken>> /\ at' # "chunking"
    BY <1>1 DEF SetAside, BeginPacks, packer
  <2> QED
    BY <2>1 DEF EntriesOK
<1>2. CASE Fold \/ LastChunk \/ UNCHANGED vars
  <2>1. UNCHANGED <<at, entries, members, taken>> /\ Source' = Source
    BY <1>2 DEF Fold, LastChunk, vars, packer, Source
  <2> QED
    BY <2>1 DEF EntriesOK
<1> QED
  BY <1>1, <1>2, EntriesBeginFile, EntriesFill, EntriesEndFile, EntriesPackFile, EntriesEndAdd, EntriesWriteSource
     DEF Next, Add, Done

LEMMA EntriesInit == Init => EntriesOK
BY DEF Init, EntriesOK, EntriesRead

LEMMA EntriesReadBack ==
  ASSUME Inv, PackOK, CallOK, EntriesOK
  PROVE  ReadsBack
<1> SUFFICES ASSUME at = "done"
             PROVE  /\ DOMAIN entries = Paths
                    /\ \A p \in Paths : Extracted(entries[p]) = [failed |-> FALSE, out |-> taken[p]]
  BY DEF ReadsBack
<1>1. MemberPaths(members) = {}
  BY NoMembers DEF PackOK
<1>2. Waiting = {}
  <2>1. small = {} /\ next > Len(sources)
    BY DEF CallOK
  <2>2. small \cup (next..Len(sources)) = {}
    <3>1. next \in Nat /\ Len(sources) \in Nat
      BY DEF Inv, SourcesOK
    <3>2. next..Len(sources) = {}
      BY <2>1, <3>1
    <3> QED
      BY <2>1, <3>2
  <2> QED
    BY <2>2 DEF Waiting
<1>3. DOMAIN entries = Paths
  BY <1>1, <1>2 DEF CallOK, Held
<1> QED
  BY <1>1, <1>3 DEF EntriesOK, EntriesRead, ReadsAs

-----------------------------------------------------------------------------
(* Types.                                                                  *)

HasChunks(e) == \A i \in DOMAIN e.chunks : IsChunk(e.chunks[i])

HashOK == rolling \in Hash /\ eof \in BOOLEAN

EntriesFit == \A p \in DOMAIN entries : HasChunks(entries[p])

LEMMA NoHash == 0 \in Hash
<1>1. PICK m \in Nat \ {0} : m = 2^Width
  BY GearAssumption, PowerOfTwo
<1>2. 0 \in 0..m - 1
  OBVIOUS
<1> QED
  BY <1>1, <1>2 DEF Hash

LEMMA HashStep ==
  Inv /\ HashOK /\ [Next]_vars => HashOK'
<1> SUFFICES ASSUME Inv, HashOK, [Next]_vars PROVE HashOK'
  OBVIOUS
<1>1. CASE BeginFile
  BY <1>1, NoHash DEF BeginFile, HashOK
<1>2. CASE Fill
  <2>1. eof' \in BOOLEAN /\ rolling' = rolling
    BY <1>2 DEF Fill, AtEnd
  <2> QED
    BY <2>1 DEF HashOK
<1>3. CASE Fold
  <2>1. scanned + 1 \in DOMAIN buf /\ buf \in Seq(Byte)
    BY <1>3 DEF Fold, Inv, ChunkerOK
  <2>2. buf[scanned + 1] \in Byte
    BY <2>1
  <2>3. PICK byte \in Byte : byte = buf[scanned + 1]
    BY <2>2
  <2>4. Roll(rolling, byte) \in Hash
    BY RollType DEF HashOK
  <2>5. eof' = eof /\ (rolling' = 0 \/ rolling' = Roll(rolling, byte))
    BY <1>3, <2>3 DEF Fold, FreshHash
  <2> QED
    BY <2>4, <2>5, NoHash DEF HashOK
<1>4. CASE LastChunk
  BY <1>4, NoHash DEF LastChunk, HashOK
<1>5. CASE UNCHANGED <<rolling, eof>>
  BY <1>5 DEF HashOK
<1>6. CASE SetAside \/ EndFile \/ BeginPacks \/ PackFile \/ EndAdd \/ WriteSource \/ UNCHANGED vars
  BY <1>5, <1>6 DEF SetAside, EndFile, BeginPacks, PackFile, EndAdd, WriteSource, vars, chunker
<1> QED
  BY <1>1, <1>2, <1>3, <1>4, <1>6 DEF Next, Add, Done

\* The chunks of a member of a pack are chunks.
LEMMA MemberFits ==
  ASSUME NEW data \in Seq(Byte), NEW member, NEW start \in Nat, NEW stop \in Nat,
         start <= stop, stop <= Len(data), member.start = start, member.len = stop - start
  PROVE  HasChunks(MemberEntry(data, member))
<1>1. CASE stop = start
  <2>1. MemberEntry(data, member) = Entry(0, 0, <<>>)
    <3>1. member.len = 0
      BY <1>1
    <3> QED
      BY <3>1 DEF MemberEntry
  <2>2. Entry(0, 0, <<>>).chunks = <<>>
    BY DEF Entry
  <2> QED
    BY <2>1, <2>2 DEF HasChunks
<1>2. CASE start < stop
  <2>1. PICK a, b : MemberCover(data, member, start, stop, a, b)
    BY <1>2, MemberIsCovered
  <2>2. PICK R \in Seq(Span) : R = WholeRanges(data) /\ Tiles(R, 0, Len(data))
    BY WholeTiles DEF Tiles
  <2>3. PICK L \in Nat : L = Len(R)
    OBVIOUS
  <2>4. a \in 1..L /\ b \in a..L
    BY <2>1, <2>2, <2>3 DEF MemberCover, Covers
  <2>5. PICK C \in Seq(Seq(Byte)) : C = ChunksOf(data) /\ Len(C) = L /\ \A i \in 1..L : Len(C[i]) = R[i].stop - R[i].start
    BY <2>2, <2>3, ChunksType
  <2>6. ASSUME NEW i \in 1..L PROVE IsChunk(C[i])
    <3>1. R[i] \in Span
      BY <2>3
    <3>2. PICK u \in Nat, v \in Nat : u = R[i].start /\ v = R[i].stop
      BY <3>1 DEF Span
    <3>3. u < v /\ v - u <= CdcMax
      BY <2>2, <2>3, <3>2 DEF Tiles
    <3>4. v - u \in 1..CdcMax
      BY <3>3, Bounds
    <3>5. C[i] \in Seq(Byte)
      BY <2>5
    <3> QED
      BY <2>5, <3>2, <3>4, <3>5 DEF IsChunk
  <2>7. PICK S : S = SubSeq(C, a, b)
    OBVIOUS
  <2>8. DOMAIN S = 1..b - a + 1 /\ \A i \in 1..b - a + 1 : S[i] = C[a + i - 1] /\ a + i - 1 \in 1..L
    <3>1. a \in Int /\ b \in Int /\ \A i \in a..b : C[i] \in Seq(Byte)
      BY <2>4, <2>5
    <3>2. /\ S \in Seq(Seq(Byte))
          /\ Len(S) = IF a <= b THEN b - a + 1 ELSE 0
          /\ \A i \in 1..b - a + 1 : S[i] = C[a + i - 1]
      BY <2>7, <3>1, SubSeqProperties, SMTT(30)
    <3>3. a <= b /\ \A i \in 1..b - a + 1 : a + i - 1 \in 1..L
      BY <2>4
    <3>4. DOMAIN S = 1..b - a + 1
      BY <3>2, <3>3
    <3> QED
      BY <3>2, <3>3, <3>4
  <2>9. \A i \in DOMAIN S : IsChunk(S[i])
    BY <2>6, <2>8
  <2>10. MemberEntry(data, member).chunks = S
    <3>1. PICK offset : MemberEntry(data, member) = Entry(stop - start, offset, S)
      BY <2>1, <2>5, <2>7 DEF MemberCover
    <3> QED
      BY <3>1 DEF Entry
  <2> QED
    BY <2>9, <2>10 DEF HasChunks
<1> QED
  BY <1>1, <1>2

LEMMA FlushFits ==
  ASSUME NEW es, NEW data, NEW mems, NEW tk, PackHolds(data, mems, tk), \A p \in DOMAIN es : HasChunks(es[p])
  PROVE  \A p \in DOMAIN WithPack(es, data, mems) : HasChunks(WithPack(es, data, mems)[p])
<1>1. data \in Seq(Byte) /\ mems \in Seq(Member) /\ DOMAIN mems = 1..Len(mems)
  BY DEF PackHolds
<1>2. PICK w : w = WithPack(es, data, mems)
  OBVIOUS
<1>3. DOMAIN w = DOMAIN es \cup MemberPaths(mems)
  BY <1>2 DEF WithPack, MemberPaths
<1>4. ASSUME NEW p \in MemberPaths(mems) PROVE HasChunks(w[p])
  <2>1. PICK k \in 1..Len(mems) : /\ mems[k].path = p /\ LastOf(mems, k)
                                  /\ Max({ i \in DOMAIN mems : mems[i].path = p }) = k
    BY <1>1, LastExists
  <2>2. w[p] = MemberEntry(data, mems[k])
    <3>1. \E i \in DOMAIN mems : mems[i].path = p
      BY <1>1, <2>1
    <3>2. p \in DOMAIN es \cup { mems[i].path : i \in DOMAIN mems }
      BY <3>1
    <3> QED
      BY <1>2, <2>1, <3>1, <3>2 DEF WithPack
  <2>3. PICK start \in Nat, len \in Nat : start = mems[k].start /\ len = mems[k].len
    <3>1. mems[k] \in Member
      BY <1>1
    <3> QED
      BY <3>1 DEF Member
  <2>4. PICK stop \in Nat : stop = start + len /\ start <= stop /\ len = stop - start
    BY <2>3
  <2>5. stop <= Len(data)
    BY <2>1, <2>3, <2>4 DEF PackHolds
  <2>6. mems[k].len = stop - start /\ mems[k].start = start
    BY <2>3, <2>4
  <2> QED
    BY <1>1, <2>2, <2>4, <2>5, <2>6, MemberFits
<1>5. ASSUME NEW p \in DOMAIN es \ MemberPaths(mems) PROVE HasChunks(w[p])
  <2>1. ~\E i \in DOMAIN mems : mems[i].path = p
    BY DEF MemberPaths
  <2>2. w[p] = es[p]
    BY <1>2, <2>1 DEF WithPack
  <2> QED
    BY <2>2
<1> QED
  BY <1>2, <1>3, <1>4, <1>5

LEMMA FitsStep ==
  Inv /\ PackOK /\ CallOK /\ EntriesFit /\ [Next]_vars => EntriesFit'
<1> SUFFICES ASSUME Inv, PackOK, CallOK, EntriesFit, [Next]_vars PROVE EntriesFit'
  OBVIOUS
<1>1. CASE BeginFile
  <2>1. entries' = Without(entries, Source.path)
    BY <1>1 DEF BeginFile
  <2> QED
    BY <2>1 DEF Without, EntriesFit
<1>2. CASE EndFile
  <2>1. PICK e, path : entries' = With(entries, path, e) /\ e.chunks = cut
    BY <1>2 DEF EndFile, Entry
  <2>2. HasChunks(e)
    BY <2>1 DEF Inv, CutOK, HasChunks
  <2> QED
    BY <2>1, <2>2 DEF With, EntriesFit
<1>3. CASE PackFile
  <2>1. PICK data, mems :
           /\ PackHolds(data, mems, taken')
           /\ entries' = entries \/ entries' = WithPack(entries, data, mems)
    BY <1>3, PackFileEffect DEF PackOK, CallOK
  <2>2. \A p \in DOMAIN entries : HasChunks(entries[p])
    BY DEF EntriesFit
  <2>3. \A p \in DOMAIN WithPack(entries, data, mems) : HasChunks(WithPack(entries, data, mems)[p])
    BY <2>1, <2>2, FlushFits
  <2> QED
    BY <2>1, <2>2, <2>3 DEF EntriesFit
<1>4. CASE EndAdd
  <2>1. entries' = WithPack(entries, pack, members)
    BY <1>4 DEF EndAdd
  <2>2. \A p \in DOMAIN WithPack(entries, pack, members) : HasChunks(WithPack(entries, pack, members)[p])
    BY FlushFits DEF PackOK, EntriesFit
  <2> QED
    BY <2>1, <2>2 DEF EntriesFit
<1>5. CASE entries' = entries
  BY <1>5 DEF EntriesFit
<1>6. CASE SetAside \/ Fill \/ Fold \/ LastChunk \/ BeginPacks \/ WriteSource \/ UNCHANGED vars
  BY <1>5, <1>6 DEF SetAside, Fill, Fold, LastChunk, BeginPacks, WriteSource, vars
<1> QED
  BY <1>1, <1>2, <1>3, <1>4, <1>6 DEF Next, Add, Done

\* "Peak buffer memory is bounds.max + STREAM_READ_CHUNK", however long the file
\* is, whatever the reads give and whoever writes to it.
THEOREM BufferAlwaysBounded == Spec => []BufferBounded
<1>1. Inv => BufferBounded
  BY DEF Inv, ChunkerOK, BufferBounded
<1>2. QED
  BY <1>1, InvInit, InvStep, PTL DEF Spec

\* What the streaming chunker cuts is never empty and never longer than the
\* greatest chunk of the vault, which extraction refuses.
THEOREM ChunksAlwaysFit == Spec => [](\A i \in DOMAIN cut : IsChunk(cut[i]))
<1>1. Inv => \A i \in DOMAIN cut : IsChunk(cut[i])
  BY DEF Inv, CutOK
<1>2. QED
  BY <1>1, InvInit, InvStep, PTL DEF Spec

\* The streaming chunker "yields the EXACT same chunk boundaries as chunk_ranges_with
\* over the identical byte stream", whatever the reads give, however long the stream
\* is and for every hash and bounds: its chunks are a beginning of those.
THEOREM AlwaysCutsLikeWhole == Spec => []CutsLikeWhole
<1>1. Init => Inv /\ StreamOK
  BY InvInit, StreamInit
<1>2. Inv /\ StreamOK /\ [Next]_vars => (Inv /\ StreamOK)'
  BY InvStep, StreamStep
<1>3. Inv /\ StreamOK => CutsLikeWhole
  BY StreamCutsLikeWhole
<1>4. QED
  BY <1>1, <1>2, <1>3, PTL DEF Spec

\* Extraction gives back, byte for byte, what was read: for every list of sources,
\* of any sizes, with paths that repeat, large ones or packed together, whatever the
\* reads give and whoever writes to the files, when every block that can be cut can be
\* opened.  The run chunks_large shows that this hypothesis is needed and that
\* validate() does not give it.
THEOREM AlwaysReadsBack ==
  ASSUME BlocksFit
  PROVE  Spec => []ReadsBack
<1>1. Init => Inv /\ StreamOK /\ PackOK /\ CallOK /\ EntriesOK
  BY InvInit, StreamInit, PackInit, CallInit, EntriesInit
<1>2. Inv /\ StreamOK /\ PackOK /\ CallOK /\ EntriesOK /\ [Next]_vars
        => (Inv /\ StreamOK /\ PackOK /\ CallOK /\ EntriesOK)'
  BY InvStep, StreamStep, PackStep, CallStep, EntriesStep
<1>3. Inv /\ StreamOK /\ PackOK /\ CallOK /\ EntriesOK => ReadsBack
  BY EntriesReadBack
<1>4. QED
  BY <1>1, <1>2, <1>3, PTL DEF Spec

\* The hash keeps its width, no place is beyond the bytes it refers to, and the chunks
\* of an entry, of a file or out of a pack, are neither empty nor longer than the
\* greatest.
THEOREM AlwaysTypeOK == Spec => []TypeOK
<1>1. Init => Inv /\ PackOK /\ CallOK /\ HashOK /\ EntriesFit
  <2>1. Init => HashOK /\ EntriesFit
    <3>1. SUFFICES ASSUME Init PROVE HashOK /\ EntriesFit
      OBVIOUS
    <3>2. HashOK
      BY <3>1, NoHash DEF Init, HashOK
    <3>3. DOMAIN entries = {}
      BY <3>1 DEF Init
    <3> QED
      BY <3>2, <3>3 DEF EntriesFit
  <2> QED
    BY <2>1, InvInit, PackInit, CallInit
<1>2. Inv /\ PackOK /\ CallOK /\ HashOK /\ EntriesFit /\ [Next]_vars
        => (Inv /\ PackOK /\ CallOK /\ HashOK /\ EntriesFit)'
  BY InvStep, PackStep, CallStep, HashStep, FitsStep
<1>3. Inv /\ PackOK /\ CallOK /\ HashOK /\ EntriesFit => TypeOK
  BY DEF Inv, ChunkerOK, CutOK, CallOK, Held, HashOK, Hash, EntriesFit, HasChunks, TypeOK
<1>4. QED
  BY <1>1, <1>2, <1>3, PTL DEF Spec
=============================================================================
