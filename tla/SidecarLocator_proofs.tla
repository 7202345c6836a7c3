------------------------ MODULE SidecarLocator_proofs -----------------------
(***************************************************************************)
(* Proofs about SidecarLocator, for streams of any length.  After any      *)
(* amount of damage, what a reader makes of a sidecar lies within it; the  *)
(* two readers agree on all that the one in memory can read; and two slots *)
(* of the count with one copy of the directory, or two of each of its      *)
(* fields, are enough for both.  After three damages, one slot is enough   *)
(* for the reader from disk, and no sidecar passes for the right one that  *)
(* is not.  What a sidecar of many windows holds where is defined by       *)
(* recursion over the windows: the first lemmas are about that.            *)
(***************************************************************************)
EXTENDS SidecarLocator, SequenceTheorems, FiniteSetTheorems, WellFoundedInduction, TLAPS

-----------------------------------------------------------------------------
(* Induction over the natural numbers, from their well-foundedness.        *)

LEMMA LeastElement ==
  ASSUME NEW S \in SUBSET Nat, S # {}
  PROVE  \E n \in S : \A m \in S : n <= m
<1>1. IsWellFoundedOn({ ss \in Nat \X Nat : ss[1] < ss[2] }, Nat)
  BY NatLessThanWellFounded DEF OpToRel
<1>2. PICK n \in S : \A m \in S : <<m, n>> \notin { ss \in Nat \X Nat : ss[1] < ss[2] }
  BY <1>1, WFMin
<1>3. ASSUME NEW m \in S
      PROVE  n <= m
  <2>1. m \in Nat /\ n \in Nat /\ <<m, n>> \in Nat \X Nat
    OBVIOUS
  <2>2. ~(m < n)
    BY <1>2, <2>1
  <2> QED
    BY <2>1, <2>2
<1> QED
  BY <1>3

LEMMA Induction ==
  ASSUME NEW S, 0 \in S, \A n \in Nat : n \in S => n + 1 \in S
  PROVE  \A n \in Nat : n \in S
<1>1. SUFFICES ASSUME Nat \ S # {} PROVE FALSE
  OBVIOUS
<1>2. PICK n \in Nat \ S : \A m \in Nat \ S : n <= m
  BY <1>1, LeastElement
<1>3. n # 0 /\ n - 1 \in Nat
  BY <1>2
<1>4. n - 1 \in S
  BY <1>2, <1>3
<1> QED
  BY <1>2, <1>3, <1>4

\* f runs n times: from first, each value made of the one before.
Runs(f, X, first, n, next) ==
  /\ f \in [0..n -> X]
  /\ f[0] = first
  /\ \A k \in 1..n : f[k] = next[<<f[k - 1], k>>]

\* What a recursion over the first n numbers defines exists, if each value is made
\* of the one before within a set X; next is a step of it.
LEMMA Recursion ==
  ASSUME NEW X, NEW first \in X, NEW n \in Nat, NEW next \in [X \X (1..n) -> X]
  PROVE  \E f : Runs(f, X, first, n, next)
<1> USE DEF Runs
<1> DEFINE Good(f, m) == Runs(f, X, first, m, next)
           N == { m \in Nat : m <= n => \E f : Good(f, m) }
<1>1. 0 \in N
  <2>1. Good([k \in 0..0 |-> first], 0)
    OBVIOUS
  <2> QED
    BY <2>1
<1>2. ASSUME NEW m \in Nat, m \in N
      PROVE  m + 1 \in N
  <2>1. SUFFICES ASSUME m + 1 <= n
                 PROVE  \E g : Good(g, m + 1)
    OBVIOUS
  <2>2. PICK f : Good(f, m)
    BY <1>2, <2>1
  <2> DEFINE g == [k \in 0..m + 1 |-> IF k <= m THEN f[k] ELSE next[<<f[m], m + 1>>]]
  <2>3. f[m] \in X /\ <<f[m], m + 1>> \in X \X (1..n)
    BY <2>1, <2>2
  <2>4. next[<<f[m], m + 1>>] \in X
    BY <2>3
  <2>5. g \in [0..m + 1 -> X]
    BY <2>2, <2>4
  <2>6. \A k \in 0..m : g[k] = f[k]
    OBVIOUS
  <2>7. g[m + 1] = next[<<f[m], m + 1>>]
    OBVIOUS
  <2> HIDE DEF g
  <2>8. ASSUME NEW k \in 1..m + 1
        PROVE  g[k] = next[<<g[k - 1], k>>]
    <3>1. CASE k = m + 1
      <4>1. k - 1 = m /\ m \in 0..m
        BY <3>1
      <4>2. g[k - 1] = f[m]
        BY <2>6, <4>1
      <4> QED
        BY <2>7, <3>1, <4>1, <4>2
    <3>2. CASE k # m + 1
      <4>1. k \in 1..m /\ k - 1 \in 0..m /\ k \in 0..m
        BY <3>2
      <4> QED
        BY <2>2, <2>6, <4>1
    <3> QED
      BY <3>1, <3>2
  <2>9. g[0] = first
    BY <2>2, <2>6
  <2>10. Good(g, m + 1)
    BY <2>5, <2>8, <2>9
  <2> QED
    BY <2>10
<1>3. n \in N
  <2> HIDE DEF N
  <2> QED
    BY <1>1, <1>2, Induction
<1>4. PICK f : Good(f, n)
  BY <1>3
<1> QED
  BY <1>4

Alike(f, g, n) ==
  f[0] = g[0] /\ \A k \in 1..n : f[k - 1] = g[k - 1] => f[k] = g[k]

Equal(f, g, n) == \A k \in 0..n : f[k] = g[k]

\* It defines one function only.
LEMMA RecursionUnique ==
  ASSUME NEW n \in Nat, NEW f, NEW g, Alike(f, g, n)
  PROVE  Equal(f, g, n)
<1> USE DEF Alike, Equal
<1> DEFINE N == { m \in Nat : m <= n => f[m] = g[m] }
<1>1. 0 \in N
  OBVIOUS
<1>2. ASSUME NEW m \in Nat, m \in N
      PROVE  m + 1 \in N
  <2>1. SUFFICES ASSUME m + 1 <= n PROVE f[m + 1] = g[m + 1]
    OBVIOUS
  <2>2. f[m] = g[m] /\ m + 1 \in 1..n /\ (m + 1) - 1 = m
    BY <1>2, <2>1
  <2> QED
    BY <2>2
<1>3. \A m \in Nat : m \in N
  <2> HIDE DEF N
  <2> QED
    BY <1>1, <1>2, Induction
<1> QED
  BY <1>3

-----------------------------------------------------------------------------
(* Sums of lengths, and sequences of sequences.                            *)

\* e[i] is where the first i things end.
Sums(e, lens) ==
  /\ e \in [0..Len(lens) -> Nat]
  /\ e[0] = 0
  /\ \A i \in 1..Len(lens) : e[i] = e[i - 1] + lens[i]

EndsEquation(e, lens) ==
  e = [i \in 0..Len(lens) |-> IF i = 0 THEN 0 ELSE e[i - 1] + lens[i]]

LEMMA EndsSums ==
  ASSUME NEW lens \in Seq(Nat)
  PROVE  Sums(Ends(lens), lens)
<1>1. PICK n \in Nat : n = Len(lens)
  OBVIOUS
<1> DEFINE next == [x \in Nat \X (1..n) |-> x[1] + lens[x[2]]]
<1>2. \A x \in Nat \X (1..n) : x[1] + lens[x[2]] \in Nat
  BY <1>1
<1>3. next \in [Nat \X (1..n) -> Nat]
  BY <1>2
<1>4. PICK f : Runs(f, Nat, 0, n, next)
  <2> HIDE DEF next
  <2> QED
    BY <1>3, Recursion
<1>5. f \in [0..n -> Nat] /\ f[0] = 0 /\ \A i \in 1..n : f[i] = f[i - 1] + lens[i]
  <2>1. f \in [0..n -> Nat] /\ f[0] = 0 /\ \A i \in 1..n : f[i] = next[<<f[i - 1], i>>]
    BY <1>4 DEF Runs
  <2>2. ASSUME NEW i \in 1..n
        PROVE  f[i] = f[i - 1] + lens[i]
    <3>1. i - 1 \in 0..n
      OBVIOUS
    <3>2. <<f[i - 1], i>> \in Nat \X (1..n)
      BY <2>1, <3>1
    <3> QED
      BY <2>1, <3>2
  <2> QED
    BY <2>1, <2>2
<1>6. EndsEquation(f, lens)
  <2>1. f = [i \in 0..n |-> f[i]]
    BY <1>5
  <2>2. \A i \in 0..n : f[i] = IF i = 0 THEN 0 ELSE f[i - 1] + lens[i]
    BY <1>5
  <2> QED
    BY <1>1, <2>1, <2>2 DEF EndsEquation
<1> DEFINE e == CHOOSE g : EndsEquation(g, lens)
<1>7. EndsEquation(e, lens)
  BY <1>6
<1>8. Ends(lens) = e
  BY DEF Ends, EndsEquation
<1> HIDE DEF e
<1>9. /\ DOMAIN e = 0..n /\ e[0] = 0
      /\ \A i \in 1..n : e[i] = e[i - 1] + lens[i]
      /\ e = [i \in 0..n |-> e[i]]
  BY <1>1, <1>7 DEF EndsEquation
<1>10. Equal(e, f, n)
  BY <1>5, <1>9, RecursionUnique DEF Alike
<1>11. e \in [0..n -> Nat]
  BY <1>5, <1>9, <1>10 DEF Equal
<1> QED
  BY <1>1, <1>8, <1>9, <1>11 DEF Sums

LEMMA SumsGrow ==
  ASSUME NEW lens \in Seq(Nat), NEW e, Sums(e, lens),
         NEW i \in 0..Len(lens), NEW j \in 0..Len(lens), i <= j
  PROVE  e[i] <= e[j]
<1>1. PICK n \in Nat : n = Len(lens)
  OBVIOUS
<1> DEFINE N == { m \in Nat : i <= m /\ m <= n => e[i] <= e[m] }
<1>2. e \in [0..n -> Nat] /\ \A m \in 1..n : e[m] = e[m - 1] + lens[m] /\ lens[m] \in Nat
  BY <1>1 DEF Sums
<1>3. 0 \in N
  BY <1>1, <1>2
<1>4. ASSUME NEW m \in Nat, m \in N
      PROVE  m + 1 \in N
  <2>1. SUFFICES ASSUME i <= m + 1, m + 1 <= n PROVE e[i] <= e[m + 1]
    OBVIOUS
  <2>2. CASE i = m + 1
    <3>1. e[i] \in Nat
      BY <1>1, <1>2
    <3> QED
      BY <2>2, <3>1
  <2>3. CASE i # m + 1
    <3>1. e[i] <= e[m]
      BY <1>4, <2>1, <2>3, <1>1
    <3>2. m + 1 \in 1..n /\ (m + 1) - 1 = m /\ m \in 0..n /\ i \in 0..n
      BY <1>1, <2>1
    <3>3. e[m + 1] = e[m] + lens[m + 1] /\ lens[m + 1] \in Nat
      BY <1>2, <3>2
    <3>4. e[m] \in Nat /\ e[i] \in Nat
      BY <1>2, <3>2
    <3> QED
      BY <3>1, <3>3, <3>4
  <2> QED
    BY <2>2, <2>3
<1>5. \A m \in Nat : m \in N
  <2> HIDE DEF N
  <2> QED
    BY <1>3, <1>4, Induction
<1> QED
  BY <1>1, <1>5

\* What is in a sequence of sequences, one after the other: all of the i-th,
\* after the place e[i - 1].
Laid(s, S, seqs, e) ==
  /\ s \in Seq(S)
  /\ Len(s) = e[Len(seqs)]
  /\ \A i \in 1..Len(seqs) : \A k \in 1..Len(seqs[i]) : s[e[i - 1] + k] = seqs[i][k]

Lengths(seqs) == [i \in 1..Len(seqs) |-> Len(seqs[i])]

LEMMA LengthsType ==
  ASSUME NEW S, NEW seqs \in Seq(Seq(S))
  PROVE  /\ Lengths(seqs) \in Seq(Nat) /\ Len(Lengths(seqs)) = Len(seqs)
         /\ \A i \in 1..Len(seqs) : Lengths(seqs)[i] = Len(seqs[i])
<1>1. \A i \in 1..Len(seqs) : Len(seqs[i]) \in Nat
  <2> TAKE i \in 1..Len(seqs)
  <2>1. seqs[i] \in Seq(S)
    OBVIOUS
  <2> QED
    BY <2>1
<1>2. Len(seqs) \in Nat
  OBVIOUS
<1>3. PICK n \in Nat : n = Len(seqs)
  BY <1>2
<1>4. [i \in 1..n |-> Len(seqs[i])] \in Seq(Nat)
  BY <1>1, <1>3
<1> QED
  BY <1>3, <1>4 DEF Lengths

\* FlattenSeq, as it is defined where there is something to join.
FlattenEquation(f, seqs) ==
  f = [i \in 1..Len(seqs) |-> IF i = 1 THEN seqs[i] ELSE f[i - 1] \o seqs[i]]

LEMMA FlattenExists ==
  ASSUME NEW S, NEW seqs \in Seq(Seq(S)), seqs # <<>>
  PROVE  \E f : FlattenEquation(f, seqs)
<1>1. PICK n \in Nat \ {0} : n = Len(seqs)
  BY EmptySeq
<1> DEFINE next == [x \in Seq(S) \X (1..n) |-> IF x[2] = 1 THEN seqs[1] ELSE x[1] \o seqs[x[2]]]
<1>2. \A x \in Seq(S) \X (1..n) : (IF x[2] = 1 THEN seqs[1] ELSE x[1] \o seqs[x[2]]) \in Seq(S)
  <2> TAKE x \in Seq(S) \X (1..n)
  <2>1. x[1] \in Seq(S) /\ seqs[x[2]] \in Seq(S) /\ seqs[1] \in Seq(S)
    BY <1>1
  <2>2. x[1] \o seqs[x[2]] \in Seq(S)
    BY <2>1
  <2> QED
    BY <2>1, <2>2
<1>3. next \in [Seq(S) \X (1..n) -> Seq(S)]
  BY <1>2
<1>4. <<>> \in Seq(S)
  OBVIOUS
<1>5. PICK f : Runs(f, Seq(S), <<>>, n, next)
  <2> HIDE DEF next
  <2> QED
    BY <1>3, <1>4, Recursion
<1>6. ASSUME NEW i \in 1..n
      PROVE  f[i] = IF i = 1 THEN seqs[i] ELSE f[i - 1] \o seqs[i]
  <2>1. f \in [0..n -> Seq(S)] /\ f[i] = next[<<f[i - 1], i>>]
    BY <1>5 DEF Runs
  <2>2. i - 1 \in 0..n
    OBVIOUS
  <2>3. <<f[i - 1], i>> \in Seq(S) \X (1..n)
    BY <2>1, <2>2
  <2> QED
    BY <2>1, <2>3
<1> DEFINE g == [i \in 1..n |-> f[i]]
<1>7. ASSUME NEW i \in 1..n
      PROVE  g[i] = IF i = 1 THEN seqs[i] ELSE g[i - 1] \o seqs[i]
  <2>1. CASE i = 1
    BY <1>6, <2>1
  <2>2. CASE i # 1
    <3>1. i - 1 \in 1..n
      BY <2>2
    <3>2. g[i - 1] = f[i - 1] /\ g[i] = f[i]
      BY <3>1
    <3> QED
      BY <1>6, <2>2, <3>2
  <2> QED
    BY <2>1, <2>2
<1>8. g = [i \in 1..n |-> g[i]]
  OBVIOUS
<1> HIDE DEF g
<1>9. FlattenEquation(g, seqs)
  BY <1>1, <1>7, <1>8 DEF FlattenEquation
<1> QED
  BY <1>9

\* The first m of the sequences are laid out in s.
LaidFirst(s, S, seqs, e, m) ==
  /\ s \in Seq(S)
  /\ Len(s) = e[m]
  /\ \A i \in 1..m : \A k \in 1..Len(seqs[i]) : s[e[i - 1] + k] = seqs[i][k]

\* One more of them, after the others.
LEMMA LaidNext ==
  ASSUME NEW S, NEW seqs \in Seq(Seq(S)), NEW e, Sums(e, Lengths(seqs)),
         NEW m \in Nat, m + 1 <= Len(seqs), NEW s, LaidFirst(s, S, seqs, e, m)
  PROVE  LaidFirst(s \o seqs[m + 1], S, seqs, e, m + 1)
<1>1. PICK n \in Nat : n = Len(seqs)
  OBVIOUS
<1>2. /\ Lengths(seqs) \in Seq(Nat) /\ Len(Lengths(seqs)) = n
      /\ \A i \in 1..n : Lengths(seqs)[i] = Len(seqs[i])
  BY <1>1, LengthsType
<1>3. e \in [0..n -> Nat] /\ \A i \in 1..n : e[i] = e[i - 1] + Lengths(seqs)[i]
  BY <1>2 DEF Sums
<1>4. m + 1 \in 1..n /\ (m + 1) - 1 = m /\ m \in 0..n
  BY <1>1
<1>5. PICK t \in Seq(S) : t = seqs[m + 1]
  BY <1>1, <1>4
<1>6. e[m + 1] = e[m] + Len(t) /\ e[m] \in Nat
  BY <1>2, <1>3, <1>4, <1>5
<1>7. s \in Seq(S) /\ Len(s) = e[m]
  BY DEF LaidFirst
<1>8. PICK u : u = s \o t
  OBVIOUS
<1>9. /\ u \in Seq(S) /\ Len(u) = Len(s) + Len(t)
      /\ \A j \in 1..Len(s) + Len(t) : u[j] = IF j <= Len(s) THEN s[j] ELSE t[j - Len(s)]
  BY <1>5, <1>7, <1>8, ConcatProperties
<1>10. ASSUME NEW i \in 1..m + 1, NEW k \in 1..Len(seqs[i])
       PROVE  u[e[i - 1] + k] = seqs[i][k]
  <2>1. CASE i = m + 1
    <3>1. k \in 1..Len(t)
      BY <1>5, <2>1
    <3>2. PICK j \in Nat : j = e[m] + k
      BY <1>6, <3>1
    <3>3. j \in 1..Len(s) + Len(t) /\ ~(j <= Len(s)) /\ j - Len(s) = k
      BY <1>6, <1>7, <3>1, <3>2, SMTT(30)
    <3>4. u[j] = t[k]
      BY <1>9, <3>3
    <3> QED
      BY <1>4, <1>5, <2>1, <3>2, <3>4
  <2>2. CASE i # m + 1
    <3>1. i \in 1..m /\ i \in 1..n /\ i - 1 \in 0..n /\ i \in 0..n
      BY <1>1, <2>2
    <3>2. seqs[i] \in Seq(S)
      BY <1>1, <3>1
    <3>3. Len(seqs[i]) \in Nat
      BY <3>2
    <3>4. e[i] = e[i - 1] + Len(seqs[i]) /\ e[i - 1] \in Nat
      BY <1>2, <1>3, <3>1
    <3>5. e[i] <= e[m]
      <4>1. i <= m
        BY <3>1
      <4> QED
        BY <1>2, <1>4, <3>1, <4>1, SumsGrow
    <3>6. PICK j \in Nat : j = e[i - 1] + k
      BY <3>3, <3>4
    <3>7. j \in 1..Len(s) /\ j \in 1..Len(s) + Len(t) /\ j <= Len(s)
      <4>1. PICK c \in Nat : c = Len(seqs[i])
        BY <3>3
      <4>2. k \in 1..c /\ e[i - 1] + c <= e[m]
        BY <3>4, <3>5, <4>1
      <4>3. j \in 1..e[m]
        <5>1. PICK a \in Nat, b \in Nat : a = e[i - 1] /\ b = e[m]
          BY <1>6, <3>4
        <5>2. a + c <= b /\ j = a + k /\ k \in 1..c
          BY <3>6, <4>2, <5>1
        <5>3. j \in 1..b
          BY <5>2
        <5> QED
          BY <5>1, <5>3
      <4>4. Len(t) \in Nat
        BY <1>5
      <4> QED
        BY <1>6, <1>7, <4>3, <4>4
    <3>8. u[j] = s[j]
      BY <1>9, <3>7
    <3>9. s[j] = seqs[i][k]
      BY <3>1, <3>6 DEF LaidFirst
    <3> QED
      BY <3>6, <3>8, <3>9
  <2> QED
    BY <2>1, <2>2
<1>11. Len(u) = e[m + 1]
  BY <1>6, <1>7, <1>9
<1> QED
  BY <1>5, <1>8, <1>9, <1>10, <1>11 DEF LaidFirst

LEMMA FlattenLaid ==
  ASSUME NEW S, NEW seqs \in Seq(Seq(S)), seqs # <<>>, NEW e, Sums(e, Lengths(seqs))
  PROVE  Laid(FlattenSeq(seqs), S, seqs, e)
<1>1. PICK n \in Nat \ {0} : n = Len(seqs)
  BY EmptySeq
<1> DEFINE f == CHOOSE g : FlattenEquation(g, seqs)
<1>2. FlattenEquation(f, seqs)
  BY FlattenExists
<1>3. FlattenSeq(seqs) = f[n]
  BY <1>1 DEF FlattenSeq, FlattenEquation
<1> HIDE DEF f
<1>4. \A i \in 1..n : f[i] = IF i = 1 THEN seqs[i] ELSE f[i - 1] \o seqs[i]
  BY <1>1, <1>2 DEF FlattenEquation
<1>5. e[0] = 0
  BY DEF Sums
<1> DEFINE N == { m \in Nat : m + 1 <= n => LaidFirst(f[m + 1], S, seqs, e, m + 1) }
<1>6. 0 \in N
  <2>1. LaidFirst(<<>>, S, seqs, e, 0)
    BY <1>5, EmptySeq DEF LaidFirst
  <2>2. 0 + 1 <= Len(seqs)
    BY <1>1
  <2>3. LaidFirst(<<>> \o seqs[0 + 1], S, seqs, e, 0 + 1)
    BY <2>1, <2>2, LaidNext
  <2>4. <<>> \o seqs[1] = seqs[1] /\ f[1] = seqs[1]
    <3>1. seqs[1] \in Seq(S)
      BY <1>1
    <3> QED
      BY <1>4, <3>1, ConcatEmptySeq
  <2> QED
    BY <2>3, <2>4
<1>7. ASSUME NEW m \in Nat, m \in N
      PROVE  m + 1 \in N
  <2>1. SUFFICES ASSUME (m + 1) + 1 <= n PROVE LaidFirst(f[(m + 1) + 1], S, seqs, e, (m + 1) + 1)
    OBVIOUS
  <2>2. PICK p \in Nat : p = m + 1
    OBVIOUS
  <2>3. LaidFirst(f[p], S, seqs, e, p)
    BY <1>7, <2>1, <2>2
  <2>4. p + 1 <= Len(seqs)
    BY <1>1, <2>1, <2>2
  <2>5. LaidFirst(f[p] \o seqs[p + 1], S, seqs, e, p + 1)
    BY <2>3, <2>4, LaidNext
  <2>6. p + 1 \in 1..n /\ p + 1 # 1 /\ (p + 1) - 1 = p
    BY <2>1, <2>2
  <2>7. f[p + 1] = f[p] \o seqs[p + 1]
    BY <1>4, <2>6
  <2> QED
    BY <2>2, <2>5, <2>7
<1>8. \A m \in Nat : m \in N
  <2> HIDE DEF N
  <2> QED
    BY <1>6, <1>7, Induction
<1>9. n - 1 \in Nat /\ (n - 1) + 1 = n
  OBVIOUS
<1>10. LaidFirst(f[n], S, seqs, e, n)
  <2>1. PICK p \in Nat : p = n - 1
    BY <1>9
  <2>2. p \in N
    BY <1>8, <2>1
  <2>3. LaidFirst(f[p + 1], S, seqs, e, p + 1)
    BY <2>1, <2>2
  <2> QED
    BY <2>1, <2>3
<1> QED
  BY <1>1, <1>3, <1>10 DEF Laid, LaidFirst

-----------------------------------------------------------------------------
(* The readers agree.                                                      *)

LEMMA LeastIsMin ==
  ASSUME NEW S \in SUBSET Nat, NEW n \in S, \A m \in S : n <= m
  PROVE  Min(S) = n
<1>1. \A k \in S : (\A m \in S : k <= m) => k = n
  OBVIOUS
<1> QED
  BY <1>1 DEF Min

\* The slot that is tried first.
Likely(bytes) ==
  IF Slots(bytes)[2] = Slots(bytes)[3] THEN Slots(bytes)[2] ELSE Slots(bytes)[1]

LEMMA FirstStays ==
  ASSUME NEW S, NEW s \in Seq(S), Len(s) >= 1, NEW t \in Seq(S)
  PROVE  s \o t \in Seq(S) /\ Len(s \o t) >= 1 /\ (s \o t)[1] = s[1]
<1>1. Len(s) \in Nat /\ Len(t) \in Nat
  OBVIOUS
<1>2. s \o t \in Seq(S) /\ Len(s \o t) = Len(s) + Len(t)
  OBVIOUS
<1>3. (s \o t)[1] = s[1]
  BY <1>1
<1> QED
  BY <1>1, <1>2, <1>3

LEMMA CountsType ==
  ASSUME NEW bytes
  PROVE  \E n \in Nat \ {0} : /\ Len(CandidateCounts(bytes)) = n
                              /\ DOMAIN CandidateCounts(bytes) = 1..n
                              /\ CandidateCounts(bytes)[1] = Likely(bytes)
                              /\ \A i \in 1..n : \E j \in 1..DirectoryCopies :
                                   CandidateCounts(bytes)[i] = Slots(bytes)[j]
<1> DEFINE s == Slots(bytes)
           Other(i) == IF s[i] = Likely(bytes) THEN <<>> ELSE << s[i] >>
<1>1. CandidateCounts(bytes) = << Likely(bytes) >> \o Other(1) \o Other(2) \o Other(3)
  BY DEF CandidateCounts, Likely
<1>2. PICK S : S = {s[1], s[2], s[3]}
  OBVIOUS
<1>3. Likely(bytes) \in S /\ s[1] \in S /\ s[2] \in S /\ s[3] \in S
  BY <1>2 DEF Likely
<1> HIDE DEF s
<1>4. \A x \in S : << x >> \in Seq(S)
  OBVIOUS
<1>5. <<>> \in Seq(S)
  OBVIOUS
<1>6. Other(1) \in Seq(S) /\ Other(2) \in Seq(S) /\ Other(3) \in Seq(S)
  BY <1>3, <1>4, <1>5
<1>7. PICK o1 \in Seq(S), o2 \in Seq(S), o3 \in Seq(S) : o1 = Other(1) /\ o2 = Other(2) /\ o3 = Other(3)
  BY <1>6
<1> HIDE DEF Other
<1>8. PICK a \in Seq(S) : a = << Likely(bytes) >> /\ Len(a) = 1 /\ a[1] = Likely(bytes)
  BY <1>3, <1>4
<1>9. PICK b \in Seq(S) : b = a \o o1 /\ Len(b) >= 1 /\ b[1] = a[1]
  <2>1. Len(a) >= 1
    BY <1>8
  <2> QED
    BY <2>1, FirstStays
<1>10. PICK c \in Seq(S) : c = b \o o2 /\ Len(c) >= 1 /\ c[1] = b[1]
  <2>1. Len(b) >= 1
    BY <1>9
  <2> QED
    BY <2>1, FirstStays
<1>11. PICK d \in Seq(S) : d = c \o o3 /\ Len(d) >= 1 /\ d[1] = c[1]
  <2>1. Len(c) >= 1
    BY <1>10
  <2> QED
    BY <2>1, FirstStays
<1>12. CandidateCounts(bytes) = d
  BY <1>1, <1>7, <1>8, <1>9, <1>10, <1>11
<1>13. Len(d) \in Nat \ {0} /\ DOMAIN d = 1..Len(d)
  BY <1>11
<1>14. \A i \in 1..Len(d) : \E j \in 1..3 : d[i] = s[j]
  <2>1. \A i \in 1..Len(d) : d[i] \in S
    BY <1>11
  <2> QED
    BY <1>2, <2>1
<1> QED
  BY <1>8, <1>9, <1>10, <1>11, <1>12, <1>13, <1>14 DEF s, DirectoryCopies

\* What the count at place i gives the reader from disk.
Gives(bytes, c) == IF Usable(bytes, Read(c)) THEN Decoded(bytes, Read(c)) ELSE Refused

\* The place of the first count that is usable, and of the first that gives anything.
UsableAt(bytes) ==
  { i \in 1..Len(CandidateCounts(bytes)) : Usable(bytes, Read(CandidateCounts(bytes)[i])) }

GivesAt(bytes) ==
  { i \in 1..Len(CandidateCounts(bytes)) : Gives(bytes, CandidateCounts(bytes)[i]) # Refused }

LEMMA ParsedFirst ==
  ASSUME NEW bytes
  PROVE  ParsedV2(bytes) =
           IF UsableAt(bytes) = {} THEN Refused
           ELSE Decoded(bytes, Read(CandidateCounts(bytes)[Min(UsableAt(bytes))]))
<1>1. UsableAt(bytes) \in SUBSET Nat /\ \A i \in UsableAt(bytes) : i # 0
  BY CountsType DEF UsableAt
<1>2. CASE UsableAt(bytes) = {}
  BY <1>2 DEF ParsedV2, SelectInSeq, UsableAt
<1>3. CASE UsableAt(bytes) # {}
  <2>1. PICK n \in UsableAt(bytes) : \A m \in UsableAt(bytes) : n <= m
    BY <1>1, <1>3, LeastElement
  <2>2. Min(UsableAt(bytes)) = n
    BY <1>1, <2>1, LeastIsMin
  <2> QED
    BY <1>1, <1>3, <2>2 DEF ParsedV2, SelectInSeq, UsableAt
<1> QED
  BY <1>2, <1>3

LEMMA OpenedFirst ==
  ASSUME NEW bytes
  PROVE  OpenedV2(bytes) =
           IF GivesAt(bytes) = {} THEN Refused
           ELSE Gives(bytes, CandidateCounts(bytes)[Min(GivesAt(bytes))])
<1>1. PICK n \in Nat \ {0} : Len(CandidateCounts(bytes)) = n /\ DOMAIN CandidateCounts(bytes) = 1..n
  BY CountsType
<1> DEFINE given == [i \in 1..n |-> Gives(bytes, CandidateCounts(bytes)[i])]
           first == SelectInSeq(given, LAMBDA dir : dir # Refused)
<1>2. OpenedV2(bytes) = IF first = 0 THEN Refused ELSE given[first]
  BY <1>1 DEF OpenedV2, Gives
<1>3. Len(given) = n
  OBVIOUS
<1>4. GivesAt(bytes) = { i \in 1..Len(given) : given[i] # Refused }
  BY <1>1, <1>3 DEF GivesAt
<1>5. first = IF GivesAt(bytes) = {} THEN 0 ELSE Min(GivesAt(bytes))
  BY <1>4 DEF SelectInSeq
<1>6. CASE GivesAt(bytes) = {}
  BY <1>2, <1>5, <1>6
<1>7. CASE GivesAt(bytes) # {}
  <2>1. GivesAt(bytes) \in SUBSET Nat /\ \A i \in GivesAt(bytes) : i \in 1..n
    BY <1>1 DEF GivesAt
  <2>2. PICK k \in GivesAt(bytes) : \A m \in GivesAt(bytes) : k <= m
    BY <1>7, <2>1, LeastElement
  <2>3. Min(GivesAt(bytes)) = k /\ k \in 1..n /\ k # 0
    BY <2>1, <2>2, LeastIsMin
  <2> QED
    BY <1>2, <1>5, <1>7, <2>3
<1> QED
  BY <1>6, <1>7

LEMMA AgreeV2 ==
  ASSUME NEW bytes, ParsedV2(bytes) # Refused
  PROVE  OpenedV2(bytes) = ParsedV2(bytes)
<1>1. UsableAt(bytes) # {} /\ UsableAt(bytes) \in SUBSET Nat
  <2>1. UsableAt(bytes) # {}
    BY ParsedFirst
  <2>2. UsableAt(bytes) \in SUBSET Nat
    BY CountsType DEF UsableAt
  <2> QED
    BY <2>1, <2>2
<1>2. PICK n \in UsableAt(bytes) : \A m \in UsableAt(bytes) : n <= m
  BY <1>1, LeastElement
<1>3. ParsedV2(bytes) = Decoded(bytes, Read(CandidateCounts(bytes)[n]))
  <2>1. Min(UsableAt(bytes)) = n
    BY <1>1, <1>2, LeastIsMin
  <2> QED
    BY <1>1, <2>1, ParsedFirst
<1>4. GivesAt(bytes) \subseteq UsableAt(bytes)
  BY DEF GivesAt, UsableAt, Gives
<1>5. Gives(bytes, CandidateCounts(bytes)[n]) = ParsedV2(bytes)
  BY <1>2, <1>3 DEF Gives, UsableAt
<1>6. n \in GivesAt(bytes)
  BY <1>2, <1>5 DEF GivesAt, UsableAt
<1>7. Min(GivesAt(bytes)) = n
  <2>1. \A m \in GivesAt(bytes) : n <= m
    BY <1>2, <1>4
  <2>2. GivesAt(bytes) \in SUBSET Nat
    BY <1>1, <1>4
  <2> QED
    BY <1>6, <2>1, <2>2, LeastIsMin
<1> QED
  BY <1>5, <1>6, <1>7, OpenedFirst

-----------------------------------------------------------------------------
(* The windows of a stream.                                                *)

LEMMA CeilDivBounds ==
  ASSUME NEW m \in Nat, NEW n \in Nat \ {0}
  PROVE  /\ CeilDiv(m, n) \in Nat
         /\ m <= CeilDiv(m, n) * n
         /\ m # 0 => CeilDiv(m, n) # 0 /\ (CeilDiv(m, n) - 1) * n < m
<1>1. PICK q \in Int, r \in Int : q = (m + n - 1) \div n /\ m + n - 1 = q * n + r /\ r \in 0..n - 1
  OBVIOUS
<1>2. q >= 0
  <2>1. SUFFICES ASSUME q <= -1 PROVE FALSE
    BY <1>1
  <2>2. q * n <= -n
    BY <2>1
  <2> QED
    BY <1>1, <2>2
<1>3. m <= q * n
  BY <1>1
<1>4. (q - 1) * n = q * n - n
  BY <1>1
<1>5. m # 0 => q # 0 /\ (q - 1) * n < m
  BY <1>1, <1>3, <1>4
<1> QED
  BY <1>1, <1>2, <1>3, <1>5 DEF CeilDiv

LEMMA MinOfTwo ==
  ASSUME NEW a \in Nat, NEW b \in Nat
  PROVE  Min({a, b}) = IF a <= b THEN a ELSE b
<1>1. CASE a <= b
  <2>1. \A m \in {a, b} : a <= m
    BY <1>1
  <2>2. Min({a, b}) = a
    BY <2>1, LeastIsMin
  <2> QED
    BY <1>1, <2>2
<1>2. CASE ~(a <= b)
  <2>1. \A m \in {a, b} : b <= m
    BY <1>2
  <2>2. Min({a, b}) = b
    BY <2>1, LeastIsMin
  <2> QED
    BY <1>2, <2>2
<1> QED
  BY <1>1, <1>2

Window == [offset : Nat, len : Nat]

\* How long each of the windows is.
Lens(windows) == [i \in 1..Len(windows) |-> windows[i].len]

LEMMA WindowsType ==
  ASSUME NEW length \in Nat
  PROVE  /\ Windows(length) \in Seq(Window) /\ Windows(length) # <<>>
         /\ Len(Windows(length)) = IF length = 0 THEN 1 ELSE CeilDiv(length, WindowSize)
         /\ length # 0 =>
              \A i \in 1..Len(Windows(length)) :
                LET w == Windows(length)[i]
                IN  /\ w.offset = (i - 1) * WindowSize
                    /\ w.offset < length
                    /\ w.len = IF WindowSize <= length - w.offset THEN WindowSize
                               ELSE length - w.offset
<1>1. WindowSize \in Nat \ {0}
  BY GridAssumption
<1>2. CASE length = 0
  <2>1. [offset |-> 0, len |-> 0] \in Window
    BY DEF Window
  <2>2. << [offset |-> 0, len |-> 0] >> \in Seq(Window) /\ Len(<< [offset |-> 0, len |-> 0] >>) = 1
    BY <2>1
  <2> QED
    BY <1>2, <2>2 DEF Windows
<1>3. CASE length # 0
  <2>1. PICK n \in Nat \ {0} : n = CeilDiv(length, WindowSize) /\ (n - 1) * WindowSize < length
    BY <1>1, <1>3, CeilDivBounds
  <2> DEFINE W(i) == [offset |-> (i - 1) * WindowSize, len |-> Min({WindowSize, length - (i - 1) * WindowSize})]
  <2>2. ASSUME NEW i \in 1..n
        PROVE  /\ W(i) \in Window
               /\ W(i).offset = (i - 1) * WindowSize /\ W(i).offset < length
               /\ W(i).len = IF WindowSize <= length - W(i).offset THEN WindowSize
                             ELSE length - W(i).offset
    <3>1. PICK o \in Nat : o = (i - 1) * WindowSize /\ o < length
      <4>1. (i - 1) * WindowSize \in Nat
        BY <1>1
      <4>2. (i - 1) * WindowSize <= (n - 1) * WindowSize
        <5>1. PICK d \in Nat : n - 1 = (i - 1) + d
          OBVIOUS
        <5>2. (n - 1) * WindowSize = (i - 1) * WindowSize + d * WindowSize /\ d * WindowSize \in Nat
          BY <1>1, <5>1
        <5> QED
          BY <4>1, <5>2
      <4>3. (n - 1) * WindowSize \in Nat
        BY <1>1
      <4> QED
        BY <2>1, <4>1, <4>2, <4>3
    <3>2. length - o \in Nat
      BY <3>1
    <3>3. PICK l \in Nat : l = Min({WindowSize, length - o}) /\ l = IF WindowSize <= length - o THEN WindowSize ELSE length - o
      BY <1>1, <3>2, MinOfTwo
    <3>4. W(i) = [offset |-> o, len |-> l]
      BY <3>1, <3>3
    <3> HIDE DEF W
    <3> QED
      BY <3>1, <3>3, <3>4 DEF Window
  <2> HIDE DEF W
  <2>3. Windows(length) = [i \in 1..n |-> W(i)]
    BY <1>3, <2>1 DEF Windows, W
  <2>4. Windows(length) \in Seq(Window) /\ Len(Windows(length)) = n /\ Windows(length) # <<>>
    <3>1. \A i \in 1..n : W(i) \in Window
      BY <2>2
    <3>2. Windows(length) \in [1..n -> Window]
      BY <2>3, <3>1
    <3>3. Windows(length) \in Seq(Window) /\ Len(Windows(length)) = n
      BY <3>2
    <3> QED
      BY <3>3, EmptySeq
  <2> QED
    BY <1>3, <2>1, <2>2, <2>3, <2>4
<1> QED
  BY <1>2, <1>3

LEMMA LensType ==
  ASSUME NEW windows \in Seq(Window)
  PROVE  /\ Lens(windows) \in Seq(Nat) /\ Len(Lens(windows)) = Len(windows)
         /\ \A i \in 1..Len(windows) : Lens(windows)[i] = windows[i].len
<1>1. PICK n \in Nat : n = Len(windows)
  OBVIOUS
<1>2. \A i \in 1..n : windows[i] \in Window
  BY <1>1
<1>3. \A i \in 1..n : windows[i].len \in Nat
  BY <1>2 DEF Window
<1>4. [i \in 1..n |-> windows[i].len] \in [1..n -> Nat]
  BY <1>3
<1>5. Lens(windows) \in [1..n -> Nat] /\ \A i \in 1..n : Lens(windows)[i] = windows[i].len
  BY <1>1, <1>4 DEF Lens
<1>6. Lens(windows) \in Seq(Nat) /\ Len(Lens(windows)) = n
  BY <1>5
<1> QED
  BY <1>1, <1>5, <1>6

\* The windows follow one another from the beginning to the end.
LEMMA WindowsTile ==
  ASSUME NEW length \in Nat, NEW e, Sums(e, Lens(Windows(length)))
  PROVE  /\ \A i \in 1..Len(Windows(length)) : Windows(length)[i].offset = e[i - 1]
         /\ e[Len(Windows(length))] = length
<1> DEFINE w == Windows(length)
<1>1. w \in Seq(Window) /\ w # <<>>
  BY WindowsType
<1>2. PICK n \in Nat \ {0} : n = Len(w)
  BY <1>1, EmptySeq
<1>3. /\ e \in [0..n -> Nat] /\ e[0] = 0
      /\ \A i \in 1..n : e[i] = e[i - 1] + w[i].len
  BY <1>1, <1>2, LensType DEF Sums
<1>4. CASE length = 0
  <2>1. w = << [offset |-> 0, len |-> 0] >>
    BY <1>4 DEF Windows
  <2>2. n = 1 /\ w[1].offset = 0 /\ w[1].len = 0
    BY <1>2, <2>1
  <2>3. 1 \in 1..n /\ 1 - 1 = 0
    BY <2>2
  <2>4. e[1] = 0
    BY <1>3, <2>2, <2>3
  <2> QED
    BY <1>2, <1>3, <1>4, <2>2, <2>4
<1>5. CASE length # 0
  <2> HIDE DEF w
  <2>1. /\ n = CeilDiv(length, WindowSize)
        /\ \A i \in 1..n : /\ w[i].offset = (i - 1) * WindowSize
                           /\ w[i].offset < length
                           /\ w[i].len = IF WindowSize <= length - w[i].offset THEN WindowSize
                                         ELSE length - w[i].offset
    BY <1>2, <1>5, WindowsType DEF w
  <2>2. PICK s \in Nat \ {0} : s = WindowSize
    BY GridAssumption
  <2>3. length <= n * s /\ (n - 1) * s < length
    BY <1>5, <2>1, <2>2, CeilDivBounds
  <2> DEFINE N == { m \in Nat : m <= n => e[m] = IF m * s <= length THEN m * s ELSE length }
  <2>4. 0 \in N
    BY <1>3
  <2>5. ASSUME NEW m \in Nat, m \in N
        PROVE  m + 1 \in N
    <3>1. SUFFICES ASSUME m + 1 <= n
                   PROVE  e[m + 1] = IF (m + 1) * s <= length THEN (m + 1) * s ELSE length
      OBVIOUS
    <3>2. m + 1 \in 1..n /\ (m + 1) - 1 = m
      BY <3>1
    <3>3. PICK o \in Nat : o = m * s
      BY <2>2
    <3>4. w[m + 1].offset = o /\ o < length
      BY <2>1, <2>2, <3>2, <3>3
    <3>5. w[m + 1].len = IF s <= length - o THEN s ELSE length - o
      BY <2>1, <2>2, <3>2, <3>4
    <3>6. e[m] = o
      BY <2>5, <3>1, <3>3, <3>4
    <3>7. e[m + 1] = o + w[m + 1].len
      BY <1>3, <3>2, <3>6
    <3>8. (m + 1) * s = o + s
      BY <3>3, <2>2
    <3> QED
      BY <3>4, <3>5, <3>7, <3>8, <2>2
  <2>6. \A m \in Nat : m \in N
    <3> HIDE DEF N
    <3> QED
      BY <2>4, <2>5, Induction
  <2>7. e[n] = length
    <3>1. n \in N
      BY <2>6
    <3>2. PICK x \in Nat : x = n * s
      BY <2>2
    <3> QED
      BY <2>3, <3>1, <3>2
  <2>8. ASSUME NEW i \in 1..n
        PROVE  w[i].offset = e[i - 1]
    <3>1. PICK m \in Nat : m = i - 1 /\ m <= n
      OBVIOUS
    <3>2. PICK o \in Nat : o = m * s
      BY <2>2
    <3>3. w[i].offset = o /\ o < length
      BY <2>1, <2>2, <3>1, <3>2
    <3>4. m \in N
      BY <2>6
    <3>5. e[m] = o
      BY <3>1, <3>2, <3>3, <3>4
    <3> QED
      BY <3>1, <3>3, <3>5
  <2> QED
    BY <1>2, <2>7, <2>8 DEF w
<1> QED
  BY <1>4, <1>5

-----------------------------------------------------------------------------
(* What is written, piece by piece.                                        *)

LEMMA AvecLenType ==
  ASSUME NEW len \in Nat, NEW p \in Nat
  PROVE  AvecLenFor(len, p) \in Nat
<1>1. PICK c \in Nat : c = CeilDiv(len, DataShards)
  BY GridAssumption, CeilDivBounds
<1>2. PICK x \in Nat : x = c * p
  BY <1>1
<1> QED
  BY <1>1, <1>2 DEF AvecLenFor

\* No level gives a window more parity than the highest does.
LEMMA AvecLenGrows ==
  ASSUME NEW len \in Nat
  PROVE  AvecLenFor(len, ParityShards) <= AvecLenFor(len, MaxParity)
<1>1. PICK c \in Nat : c = CeilDiv(len, DataShards)
  BY GridAssumption, CeilDivBounds
<1>2. PICK p \in Nat, d \in Nat : p = ParityShards /\ MaxParity = p + d
  BY GridAssumption
<1>3. PICK x \in Nat, y \in Nat : x = c * p /\ y = c * d
  BY <1>1, <1>2
<1>4. c * (p + d) = x + y
  BY <1>3
<1>5. AvecLenFor(len, ParityShards) = IF len = 0 THEN 0 ELSE 1 + (len + x) + x
  BY <1>1, <1>2, <1>3 DEF AvecLenFor
<1>6. AvecLenFor(len, MaxParity) = IF len = 0 THEN 0 ELSE 1 + (len + (x + y)) + (x + y)
  BY <1>1, <1>2, <1>4 DEF AvecLenFor
<1> QED
  BY <1>5, <1>6

\* The cells of a sidecar that are no hash.
Plain(length) ==
  { Number(n) : n \in Nat } \cup { <<"parity", n>> : n \in Nat } \cup { <<"geometry", n>> : n \in Nat }
    \cup {Magic, Zeros, Sha(length), Binding(Sha(length))}

LEMMA PlainKinds ==
  ASSUME NEW length, NEW c \in Plain(length)
  PROVE  c[1] \in Kinds \ {"hash", "junk"} /\ (c[1] = "number" => c[2] \in Nat)
BY DEF Plain, Number, Magic, Zeros, Sha, Binding, Kinds

LEMMA AvecType ==
  ASSUME NEW length, NEW w \in Window
  PROVE  /\ Avec(w) \in Seq(Plain(length))
         /\ Len(Avec(w)) = AvecLenFor(w.len, ParityShards)
<1>1. PICK n \in Nat : n = AvecLenFor(w.len, ParityShards)
  BY AvecLenType, GridAssumption DEF Window
<1>2. Geometry(w) \in Plain(length) /\ <<"parity", w.offset>> \in Plain(length)
  BY DEF Geometry, Plain, Window
<1>3. Avec(w) \in [1..n -> Plain(length)]
  BY <1>1, <1>2 DEF Avec
<1> QED
  BY <1>1, <1>3

Record(w) == Placement(w) \o << Geometry(w) >>

LEMMA PlacementType ==
  ASSUME NEW length, NEW w \in Window
  PROVE  /\ Placement(w) \in Seq(Plain(length)) /\ Len(Placement(w)) = 3
         /\ Placement(w)[1] = Number(w.offset) /\ Placement(w)[2] = Number(w.len)
         /\ Placement(w)[3] = Number(Len(Avec(w)))
<1>1. Len(Avec(w)) \in Nat
  BY AvecType
<1>2. Number(w.offset) \in Plain(length) /\ Number(w.len) \in Plain(length) /\ Number(Len(Avec(w))) \in Plain(length)
  BY <1>1 DEF Plain, Window
<1> QED
  BY <1>2 DEF Placement

LEMMA ConcatAt ==
  ASSUME NEW S, NEW s \in Seq(S), NEW t \in Seq(S), NEW u, u = s \o t
  PROVE  /\ u \in Seq(S) /\ Len(u) = Len(s) + Len(t)
         /\ \A j \in 1..Len(s) : u[j] = s[j]
         /\ \A j \in 1..Len(t) : u[Len(s) + j] = t[j]
<1>1. Len(s) \in Nat /\ Len(t) \in Nat
  OBVIOUS
<1>2. u \in Seq(S) /\ Len(u) = Len(s) + Len(t)
  OBVIOUS
<1>3. \A j \in 1..Len(s) + Len(t) : u[j] = IF j <= Len(s) THEN s[j] ELSE t[j - Len(s)]
  BY ConcatProperties
<1>4. ASSUME NEW j \in 1..Len(t)
      PROVE  u[Len(s) + j] = t[j]
  <2>1. PICK k \in Nat : k = Len(s) + j
    BY <1>1
  <2>2. k \in 1..Len(s) + Len(t) /\ ~(k <= Len(s)) /\ k - Len(s) = j
    BY <1>1, <2>1
  <2> QED
    BY <1>3, <2>1, <2>2
<1>5. \A j \in 1..Len(s) : u[j] = s[j]
  BY <1>1, <1>3
<1> QED
  BY <1>2, <1>4, <1>5

\* The record of a window in the directory.
LEMMA RecordType ==
  ASSUME NEW length, NEW w \in Window
  PROVE  /\ Record(w) \in Seq(Plain(length)) /\ Len(Record(w)) = 4
         /\ Record(w)[1] = Number(w.offset) /\ Record(w)[2] = Number(w.len)
         /\ Record(w)[3] = Number(Len(Avec(w))) /\ Record(w)[4] = Geometry(w)
<1>1. Geometry(w) \in Plain(length)
  BY DEF Geometry, Plain, Window
<1>2. PICK s \in Seq(Plain(length)), t \in Seq(Plain(length)) :
        s = Placement(w) /\ t = << Geometry(w) >> /\ Len(t) = 1 /\ t[1] = Geometry(w)
  <2>1. Placement(w) \in Seq(Plain(length))
    BY PlacementType
  <2>2. << Geometry(w) >> \in Seq(Plain(length))
    BY <1>1
  <2> QED
    BY <2>1, <2>2
<1>3. Record(w) = s \o t
  BY <1>2 DEF Record
<1>4. PICK u : u = Record(w)
  OBVIOUS
<1>5. /\ u \in Seq(Plain(length)) /\ Len(u) = Len(s) + Len(t)
      /\ \A j \in 1..Len(s) : u[j] = s[j]
      /\ \A j \in 1..Len(t) : u[Len(s) + j] = t[j]
  BY <1>2, <1>3, <1>4, ConcatAt
<1>6. /\ Len(s) = 3 /\ s[1] = Number(w.offset) /\ s[2] = Number(w.len)
      /\ s[3] = Number(Len(Avec(w)))
  BY <1>2, PlacementType
<1>7. u[1] = s[1] /\ u[2] = s[2] /\ u[3] = s[3] /\ u[3 + 1] = t[1]
  BY <1>2, <1>5, <1>6
<1> QED
  BY <1>2, <1>4, <1>5, <1>6, <1>7

\* The parity of the windows, and their records.
Avecs(windows)      == [i \in DOMAIN windows |-> Avec(windows[i])]
RecordsOf(windows)  == [i \in DOMAIN windows |-> Record(windows[i])]

LEMMA PiecesType ==
  ASSUME NEW length, NEW windows \in Seq(Window), windows # <<>>
  PROVE  /\ Avecs(windows) \in Seq(Seq(Plain(length))) /\ Avecs(windows) # <<>>
         /\ RecordsOf(windows) \in Seq(Seq(Plain(length))) /\ RecordsOf(windows) # <<>>
         /\ Len(Avecs(windows)) = Len(windows) /\ Len(RecordsOf(windows)) = Len(windows)
         /\ \A i \in 1..Len(windows) : /\ Avecs(windows)[i] = Avec(windows[i])
                                       /\ RecordsOf(windows)[i] = Record(windows[i])
<1>1. PICK n \in Nat \ {0} : n = Len(windows) /\ DOMAIN windows = 1..n
  BY EmptySeq
<1>2. \A i \in 1..n : windows[i] \in Window
  BY <1>1
<1>3. \A i \in 1..n : Avec(windows[i]) \in Seq(Plain(length)) /\ Record(windows[i]) \in Seq(Plain(length))
  BY <1>2, AvecType, RecordType
<1>4. /\ Avecs(windows) \in [1..n -> Seq(Plain(length))]
      /\ RecordsOf(windows) \in [1..n -> Seq(Plain(length))]
  BY <1>1, <1>3 DEF Avecs, RecordsOf
<1>5. /\ Avecs(windows) \in Seq(Seq(Plain(length))) /\ Len(Avecs(windows)) = n
      /\ RecordsOf(windows) \in Seq(Seq(Plain(length))) /\ Len(RecordsOf(windows)) = n
  BY <1>4
<1>6. Avecs(windows) # <<>> /\ RecordsOf(windows) # <<>>
  BY <1>5, EmptySeq
<1> QED
  BY <1>1, <1>5, <1>6 DEF Avecs, RecordsOf

\* A record takes four cells.
LEMMA RecordSums ==
  ASSUME NEW windows \in Seq(Window), windows # <<>>, NEW e, Sums(e, Lengths(RecordsOf(windows)))
  PROVE  \A i \in 0..Len(windows) : e[i] = DirPerSegLen * i
<1>1. PICK n \in Nat : n = Len(windows)
  OBVIOUS
<1>2. \A i \in 1..n : windows[i] \in Window
  BY <1>1
<1>3. /\ RecordsOf(windows) \in Seq(Seq(Plain(0))) /\ Len(RecordsOf(windows)) = n
      /\ \A i \in 1..n : Len(RecordsOf(windows)[i]) = 4
  <2>1. /\ RecordsOf(windows) \in Seq(Seq(Plain(0))) /\ Len(RecordsOf(windows)) = n
        /\ \A i \in 1..n : RecordsOf(windows)[i] = Record(windows[i])
    BY <1>1, PiecesType
  <2>2. ASSUME NEW i \in 1..n PROVE Len(RecordsOf(windows)[i]) = 4
    <3>1. PICK w \in Window : w = windows[i]
      BY <1>2
    <3>2. Len(Record(w)) = 4
      BY RecordType
    <3> QED
      BY <2>1, <3>1, <3>2
  <2> QED
    BY <2>1, <2>2
<1>4. /\ Len(Lengths(RecordsOf(windows))) = n
      /\ \A i \in 1..n : Lengths(RecordsOf(windows))[i] = 4
  BY <1>3, LengthsType
<1>5. /\ e \in [0..n -> Nat] /\ e[0] = 0
      /\ \A i \in 1..n : e[i] = e[i - 1] + 4
  BY <1>4 DEF Sums
<1> DEFINE N == { m \in Nat : m <= n => e[m] = 4 * m }
<1>6. 0 \in N
  BY <1>5
<1>7. ASSUME NEW m \in Nat, m \in N
      PROVE  m + 1 \in N
  <2>1. SUFFICES ASSUME m + 1 <= n PROVE e[m + 1] = 4 * (m + 1)
    OBVIOUS
  <2>2. m + 1 \in 1..n /\ (m + 1) - 1 = m
    BY <2>1
  <2>3. e[m + 1] = e[m] + 4 /\ e[m] = 4 * m
    BY <1>5, <1>7, <2>1, <2>2
  <2> QED
    BY <2>3
<1>8. \A m \in Nat : m \in N
  <2> HIDE DEF N
  <2> QED
    BY <1>6, <1>7, Induction
<1> QED
  BY <1>1, <1>8 DEF DirPerSegLen

\* The directory of a stream, field by field.
DirectoryOf(dir, length, n) ==
  /\ dir \in Seq(Plain(length)) /\ Len(dir) = DirLen(n)
  /\ dir[1] = Number(length) /\ dir[2] = Binding(Sha(length)) /\ dir[3] = Sha(length)
  /\ \A i \in 1..n :
       LET w    == Windows(length)[i]
           base == DirFixedLen + DirPerSegLen * (i - 1)
       IN  /\ dir[base + 1] = Number(w.offset) /\ dir[base + 2] = Number(w.len)
           /\ dir[base + 3] = Number(Len(Avec(w))) /\ dir[base + 4] = Geometry(w)

LEMMA DirectoryType ==
  ASSUME NEW length \in Nat
  PROVE  DirectoryOf(EncodeDirectory(length), length, Len(Windows(length)))
<1> DEFINE w == Windows(length)
           P == Plain(length)
<1>1. w \in Seq(Window) /\ w # <<>>
  BY WindowsType
<1> HIDE DEF w
<1>2. PICK n \in Nat \ {0} : n = Len(w) /\ DOMAIN w = 1..n
  BY <1>1, EmptySeq
<1>3. /\ RecordsOf(w) \in Seq(Seq(P)) /\ RecordsOf(w) # <<>> /\ Len(RecordsOf(w)) = n
      /\ \A i \in 1..n : RecordsOf(w)[i] = Record(w[i])
  BY <1>1, <1>2, PiecesType
<1> HIDE DEF P
<1>4. PICK e : Sums(e, Lengths(RecordsOf(w)))
  BY <1>3, LengthsType, EndsSums
<1>5. \A i \in 0..n : e[i] = 4 * i
  BY <1>1, <1>2, <1>4, RecordSums DEF DirPerSegLen
<1>6. PICK r : r = Records(w)
  OBVIOUS
<1>7. Laid(r, P, RecordsOf(w), e)
  <2>1. Records(w) = FlattenSeq(RecordsOf(w))
    BY DEF Records, RecordsOf, Record
  <2> QED
    BY <1>3, <1>4, <1>6, <2>1, FlattenLaid
<1>8. /\ r \in Seq(P) /\ Len(r) = 4 * n
      /\ \A i \in 1..n : \A k \in 1..Len(Record(w[i])) : r[e[i - 1] + k] = Record(w[i])[k]
  <2>1. n \in 0..n /\ e[n] = 4 * n
    BY <1>5
  <2>2. r \in Seq(P) /\ Len(r) = e[n]
    BY <1>3, <1>7 DEF Laid
  <2>3. \A i \in 1..n : \A k \in 1..Len(RecordsOf(w)[i]) : r[e[i - 1] + k] = RecordsOf(w)[i][k]
    BY <1>3, <1>7 DEF Laid
  <2> QED
    BY <1>3, <2>1, <2>2, <2>3
<1>9. << Number(length) >> \in Seq(P) /\ Identity(length) \in Seq(P)
  <2>1. Number(length) \in P /\ Binding(Sha(length)) \in P /\ Sha(length) \in P
    BY DEF P, Plain
  <2> QED
    BY <2>1 DEF Identity
<1>10. PICK h \in Seq(P) : h = << Number(length) >> \o Identity(length)
  <2>1. PICK a \in Seq(P), b \in Seq(P) : a = << Number(length) >> /\ b = Identity(length)
    BY <1>9
  <2>2. a \o b \in Seq(P)
    BY <2>1
  <2> QED
    BY <2>1, <2>2
<1>11. Len(h) = 3 /\ h[1] = Number(length) /\ h[2] = Binding(Sha(length)) /\ h[3] = Sha(length)
  <2>1. PICK a, b : a = << Number(length) >> /\ b = Identity(length)
    OBVIOUS
  <2>2. a \in Seq(P) /\ b \in Seq(P) /\ h = a \o b
    BY <1>9, <1>10, <2>1
  <2>3. /\ Len(h) = Len(a) + Len(b)
        /\ \A k \in 1..Len(a) : h[k] = a[k]
        /\ \A k \in 1..Len(b) : h[Len(a) + k] = b[k]
    BY <2>2, ConcatAt
  <2>4. Len(a) = 1 /\ a[1] = Number(length) /\ Len(b) = 2 /\ b[1] = Binding(Sha(length)) /\ b[2] = Sha(length)
    BY <2>1 DEF Identity
  <2>5. Len(h) = 3 /\ h[1] = a[1] /\ h[1 + 1] = b[1] /\ h[1 + 2] = b[2]
    BY <2>3, <2>4
  <2> QED
    BY <2>4, <2>5
<1>12. PICK d : d = h \o r
  OBVIOUS
<1>13. EncodeDirectory(length) = d
  BY <1>6, <1>10, <1>12 DEF EncodeDirectory, w
<1>14. /\ d \in Seq(P) /\ Len(d) = Len(h) + Len(r)
       /\ \A j \in 1..Len(h) : d[j] = h[j]
       /\ \A j \in 1..Len(r) : d[Len(h) + j] = r[j]
  <2>1. r \in Seq(P)
    BY <1>8
  <2> QED
    BY <1>12, <2>1, ConcatAt
<1>15. d[1] = h[1] /\ d[2] = h[2] /\ d[3] = h[3]
  BY <1>11, <1>14
<1>16. ASSUME NEW i \in 1..n, NEW k \in 1..4
       PROVE  d[3 + 4 * (i - 1) + k] = Record(w[i])[k]
  <2>1. w[i] \in Window
    BY <1>1, <1>2
  <2>2. Len(Record(w[i])) = 4
    BY <2>1, RecordType
  <2>3. PICK j \in Nat : j = 4 * (i - 1) + k /\ j \in 1..4 * n
    OBVIOUS
  <2>4. i - 1 \in 0..n /\ e[i - 1] = 4 * (i - 1)
    BY <1>5
  <2>5. r[j] = Record(w[i])[k]
    <3>1. k \in 1..Len(Record(w[i]))
      BY <2>2
    <3>2. r[e[i - 1] + k] = Record(w[i])[k]
      BY <1>8, <3>1
    <3>3. e[i - 1] + k = j
      BY <2>3, <2>4
    <3> QED
      BY <3>2, <3>3
  <2>6. d[3 + j] = r[j]
    BY <1>8, <1>11, <1>14, <2>3
  <2>7. 3 + 4 * (i - 1) + k = 3 + j
    BY <2>3
  <2> QED
    BY <2>5, <2>6, <2>7
<1>17. ASSUME NEW i \in 1..n
       PROVE  LET base == 3 + 4 * (i - 1)
              IN  /\ d[base + 1] = Number(w[i].offset) /\ d[base + 2] = Number(w[i].len)
                  /\ d[base + 3] = Number(Len(Avec(w[i]))) /\ d[base + 4] = Geometry(w[i])
  <2>1. w[i] \in Window
    BY <1>1, <1>2
  <2>2. PICK base : base = 3 + 4 * (i - 1)
    OBVIOUS
  <2>3. \A k \in 1..4 : d[base + k] = Record(w[i])[k]
    BY <1>16, <2>2
  <2>4. /\ d[base + 1] = Record(w[i])[1] /\ d[base + 2] = Record(w[i])[2]
        /\ d[base + 3] = Record(w[i])[3] /\ d[base + 4] = Record(w[i])[4]
    BY <2>3
  <2> QED
    BY <2>1, <2>2, <2>4, RecordType
<1>18. Len(d) = DirLen(n)
  BY <1>8, <1>11, <1>14 DEF DirLen, DirFixedLen, DirPerSegLen
<1> QED
  BY <1>2, <1>11, <1>13, <1>14, <1>15, <1>17, <1>18 DEF DirectoryOf, w, P, DirFixedLen, DirPerSegLen

\* A sidecar of version 2, part by part.
HasLayout(s, S, n, dir, parity) ==
  /\ s \in Seq(S) /\ Len(s) = ParityStart(n) + Len(parity)
  /\ s[1] = Magic /\ s[2] = Number(2)
  /\ \A i \in 1..DirectoryCopies : s[2 + i] = Number(n)
  /\ \A i \in 1..DirectoryCopies :
       /\ \A b \in 1..DirLen(n) : s[CopyBase(n, i) + b] = dir[b]
       /\ s[CopyBase(n, i) + DirLen(n) + 1] = Hash(dir)
  /\ \A b \in 1..Len(parity) : s[ParityStart(n) + b] = parity[b]

Parity(length) == FlattenSeq(Avecs(Windows(length)))

CellsV2(length) == Plain(length) \cup { Hash(EncodeDirectory(length)) }

\* Head, three copies and parity, one after the other.
Together(h, c, p) == h \o c \o c \o c \o p

InFiveParts(s, S, h, c, p) ==
  /\ s \in Seq(S) /\ Len(s) = Len(h) + 3 * Len(c) + Len(p)
  /\ \A j \in 1..Len(h) : s[j] = h[j]
  /\ \A j \in 1..Len(c) : /\ s[Len(h) + j] = c[j]
                          /\ s[Len(h) + Len(c) + j] = c[j]
                          /\ s[Len(h) + 2 * Len(c) + j] = c[j]
  /\ \A j \in 1..Len(p) : s[Len(h) + 3 * Len(c) + j] = p[j]

LEMMA FiveParts ==
  ASSUME NEW S, NEW h \in Seq(S), NEW c \in Seq(S), NEW p \in Seq(S), NEW s,
         s = Together(h, c, p)
  PROVE  InFiveParts(s, S, h, c, p)
<1>1. PICK H \in Nat, L \in Nat, M \in Nat : H = Len(h) /\ L = Len(c) /\ M = Len(p)
  OBVIOUS
<1>2. PICK u : u = h \o c
  OBVIOUS
<1>3. /\ u \in Seq(S) /\ Len(u) = H + L
      /\ \A j \in 1..H : u[j] = h[j]
      /\ \A j \in 1..L : u[H + j] = c[j]
  BY <1>1, <1>2, ConcatAt
<1>4. PICK v : v = u \o c
  OBVIOUS
<1>5. /\ v \in Seq(S) /\ Len(v) = (H + L) + L
      /\ \A j \in 1..H + L : v[j] = u[j]
      /\ \A j \in 1..L : v[(H + L) + j] = c[j]
  <2>1. u \in Seq(S) /\ c \in Seq(S)
    BY <1>3
  <2>2. /\ v \in Seq(S) /\ Len(v) = Len(u) + Len(c)
        /\ \A j \in 1..Len(u) : v[j] = u[j]
        /\ \A j \in 1..Len(c) : v[Len(u) + j] = c[j]
    BY <1>4, <2>1, ConcatAt, SMTT(20)
  <2> QED
    BY <1>1, <1>3, <2>2
<1>6. PICK w : w = v \o c
  OBVIOUS
<1>7. /\ w \in Seq(S) /\ Len(w) = ((H + L) + L) + L
      /\ \A j \in 1..(H + L) + L : w[j] = v[j]
      /\ \A j \in 1..L : w[((H + L) + L) + j] = c[j]
  <2>1. v \in Seq(S) /\ c \in Seq(S)
    BY <1>5
  <2>2. /\ w \in Seq(S) /\ Len(w) = Len(v) + Len(c)
        /\ \A j \in 1..Len(v) : w[j] = v[j]
        /\ \A j \in 1..Len(c) : w[Len(v) + j] = c[j]
    BY <1>6, <2>1, ConcatAt, SMTT(20)
  <2> QED
    BY <1>1, <1>5, <2>2
<1>8. s = w \o p
  BY <1>2, <1>4, <1>6 DEF Together
<1>9. /\ s \in Seq(S) /\ Len(s) = (((H + L) + L) + L) + M
      /\ \A j \in 1..((H + L) + L) + L : s[j] = w[j]
      /\ \A j \in 1..M : s[(((H + L) + L) + L) + j] = p[j]
  <2>1. w \in Seq(S) /\ p \in Seq(S)
    BY <1>7
  <2>2. /\ s \in Seq(S) /\ Len(s) = Len(w) + Len(p)
        /\ \A j \in 1..Len(w) : s[j] = w[j]
        /\ \A j \in 1..Len(p) : s[Len(w) + j] = p[j]
    BY <1>8, <2>1, ConcatAt, SMTT(20)
  <2> QED
    BY <1>1, <1>7, <2>2
<1>10. Len(s) = H + 3 * L + M
  BY <1>9
<1>11. ASSUME NEW j \in 1..H PROVE s[j] = h[j]
  <2>1. j \in 1..((H + L) + L) + L /\ j \in 1..(H + L) + L /\ j \in 1..H + L
    OBVIOUS
  <2>2. s[j] = w[j]
    BY <1>9, <2>1
  <2>3. w[j] = v[j]
    BY <1>7, <2>1
  <2>4. v[j] = u[j]
    BY <1>5, <2>1
  <2>5. u[j] = h[j]
    BY <1>3
  <2> QED
    BY <2>2, <2>3, <2>4, <2>5
<1>12. ASSUME NEW j \in 1..L
       PROVE  s[H + j] = c[j] /\ s[H + L + j] = c[j] /\ s[H + 2 * L + j] = c[j]
  <2>1. s[H + j] = c[j]
    <3>1. H + j \in 1..((H + L) + L) + L /\ H + j \in 1..(H + L) + L /\ H + j \in 1..H + L
      OBVIOUS
    <3>2. s[H + j] = w[H + j]
      BY <1>9, <3>1
    <3>3. w[H + j] = v[H + j]
      BY <1>7, <3>1
    <3>4. v[H + j] = u[H + j]
      BY <1>5, <3>1
    <3>5. u[H + j] = c[j]
      BY <1>3
    <3> QED
      BY <3>2, <3>3, <3>4, <3>5
  <2>2. s[H + L + j] = c[j]
    <3>1. (H + L) + j \in 1..((H + L) + L) + L /\ (H + L) + j \in 1..(H + L) + L
      OBVIOUS
    <3> QED
      BY <1>5, <1>7, <1>9, <3>1
  <2>3. s[H + 2 * L + j] = c[j]
    <3>1. PICK k : k = ((H + L) + L) + j
      OBVIOUS
    <3>2. k \in 1..((H + L) + L) + L /\ k = H + 2 * L + j
      BY <3>1
    <3> QED
      BY <1>7, <1>9, <3>1, <3>2
  <2> QED
    BY <2>1, <2>2, <2>3
<1>13. ASSUME NEW j \in 1..M PROVE s[H + 3 * L + j] = p[j]
  <2>1. PICK k : k = (((H + L) + L) + L) + j
    OBVIOUS
  <2>2. k = H + 3 * L + j
    BY <2>1
  <2> QED
    BY <1>9, <2>1, <2>2
<1> QED
  BY <1>1, <1>9, <1>10, <1>11, <1>12, <1>13 DEF InFiveParts

\* The parity of all windows, and where each one's begins.
LEMMA ParityType ==
  ASSUME NEW length \in Nat, NEW e, Sums(e, Lengths(Avecs(Windows(length))))
  PROVE  Laid(Parity(length), Plain(length), Avecs(Windows(length)), e)
<1>1. Windows(length) \in Seq(Window) /\ Windows(length) # <<>>
  BY WindowsType
<1>2. Avecs(Windows(length)) \in Seq(Seq(Plain(length))) /\ Avecs(Windows(length)) # <<>>
  BY <1>1, PiecesType
<1> QED
  BY <1>2, FlattenLaid DEF Parity

LEMMA ParityIsSeq ==
  ASSUME NEW length \in Nat
  PROVE  Parity(length) \in Seq(Plain(length))
<1>1. Windows(length) \in Seq(Window) /\ Windows(length) # <<>>
  BY WindowsType
<1>2. Lengths(Avecs(Windows(length))) \in Seq(Nat)
  BY <1>1, PiecesType, LengthsType
<1>3. PICK e : Sums(e, Lengths(Avecs(Windows(length))))
  BY <1>2, EndsSums
<1> QED
  BY <1>3, ParityType DEF Laid

LEMMA LayoutV2 ==
  ASSUME NEW length \in Nat
  PROVE  HasLayout(ToBytes(length), CellsV2(length), Len(Windows(length)),
                   EncodeDirectory(length), Parity(length))
<1> DEFINE S == CellsV2(length)
<1>1. Plain(length) \subseteq S /\ Hash(EncodeDirectory(length)) \in S /\ Magic \in S
      /\ \A m \in Nat : Number(m) \in S
  BY DEF CellsV2, Plain
<1> HIDE DEF S
<1>2. PICK n \in Nat \ {0} : n = Len(Windows(length))
  BY WindowsType, EmptySeq
<1>3. PICK d \in Seq(Plain(length)) : d = EncodeDirectory(length) /\ Len(d) = DirLen(n)
  BY <1>2, DirectoryType DEF DirectoryOf
<1>4. PICK D \in Nat : D = DirLen(n)
  BY <1>2 DEF DirLen, DirFixedLen, DirPerSegLen
<1>5. d \in Seq(S) /\ << Hash(d) >> \in Seq(S)
  <2>1. d \in Seq(S)
    BY <1>1, <1>3
  <2>2. Hash(d) \in S
    BY <1>1, <1>3
  <2> QED
    BY <2>1, <2>2
<1>6. PICK x \in Seq(S) : x = << Hash(d) >> /\ Len(x) = 1 /\ x[1] = Hash(d)
  BY <1>5
<1>7. PICK c : c = d \o x
  OBVIOUS
<1>8. /\ c \in Seq(S) /\ Len(c) = D + 1
      /\ \A b \in 1..D : c[b] = d[b]
      /\ c[D + 1] = Hash(d)
  <2>1. /\ c \in Seq(S) /\ Len(c) = Len(d) + Len(x)
        /\ \A j \in 1..Len(d) : c[j] = d[j]
        /\ \A j \in 1..Len(x) : c[Len(d) + j] = x[j]
    BY <1>5, <1>6, <1>7, ConcatAt
  <2> QED
    BY <1>3, <1>4, <1>6, <2>1
<1>9. PICK a \in Seq(S) : a = << Magic, Number(2) >> /\ Len(a) = 2 /\ a[1] = Magic /\ a[2] = Number(2)
  <2>1. << Magic, Number(2) >> \in Seq(S)
    BY <1>1
  <2> QED
    BY <2>1
<1>10. PICK t \in Seq(S) : t = [i \in 1..DirectoryCopies |-> Number(n)] /\ Len(t) = 3
                           /\ \A i \in 1..3 : t[i] = Number(n)
  <2>1. [i \in 1..3 |-> Number(n)] \in [1..3 -> S]
    BY <1>1
  <2>2. [i \in 1..3 |-> Number(n)] \in Seq(S) /\ Len([i \in 1..3 |-> Number(n)]) = 3
    BY <2>1
  <2> QED
    BY <2>2 DEF DirectoryCopies
<1>11. PICK h : h = a \o t
  OBVIOUS
<1>12. /\ h \in Seq(S) /\ Len(h) = 5 /\ h[1] = Magic /\ h[2] = Number(2)
       /\ \A i \in 1..3 : h[2 + i] = Number(n)
  <2>1. /\ h \in Seq(S) /\ Len(h) = Len(a) + Len(t)
        /\ \A j \in 1..Len(a) : h[j] = a[j]
        /\ \A j \in 1..Len(t) : h[Len(a) + j] = t[j]
    <3>1. a \in Seq(S) /\ t \in Seq(S)
      BY <1>9, <1>10
    <3> QED
      BY <1>11, <3>1, ConcatAt
  <2>2. Len(a) = 2 /\ a[1] = Magic /\ a[2] = Number(2) /\ Len(t) = 3 /\ \A i \in 1..3 : t[i] = Number(n)
    BY <1>9, <1>10
  <2>3. 1 \in 1..Len(a) /\ 2 \in 1..Len(a)
    BY <2>2
  <2> QED
    BY <2>1, <2>2, <2>3
<1>13. PICK p \in Seq(S) : p = Parity(length)
  <2>1. Parity(length) \in Seq(S)
    BY <1>1, ParityIsSeq
  <2> QED
    BY <2>1
<1>14. PICK s : s = ToBytes(length)
  OBVIOUS
<1>15. s = Together(h, c, p)
  BY <1>2, <1>3, <1>6, <1>7, <1>9, <1>10, <1>11, <1>13, <1>14 DEF ToBytes, Parity, Avecs, Together
<1>16. /\ s \in Seq(S) /\ Len(s) = Len(h) + 3 * Len(c) + Len(p)
       /\ \A j \in 1..Len(h) : s[j] = h[j]
       /\ \A j \in 1..Len(c) : /\ s[Len(h) + j] = c[j]
                               /\ s[Len(h) + Len(c) + j] = c[j]
                               /\ s[Len(h) + 2 * Len(c) + j] = c[j]
       /\ \A j \in 1..Len(p) : s[Len(h) + 3 * Len(c) + j] = p[j]
  <2>1. h \in Seq(S) /\ c \in Seq(S) /\ p \in Seq(S)
    BY <1>8, <1>12, <1>13
  <2>2. InFiveParts(s, S, h, c, p)
    BY <1>15, <2>1, FiveParts
  <2> QED
    BY <2>2 DEF InFiveParts
<1>17. PICK L \in Nat : L = D + 1
  BY <1>4
<1>18. /\ s[1] = Magic /\ s[2] = Number(2) /\ \A i \in 1..3 : s[2 + i] = Number(n)
  <2>1. \A i \in 1..3 : 2 + i \in 1..5
    OBVIOUS
  <2> QED
    BY <1>12, <1>16, <2>1
<1>19. \A j \in 1..L : s[5 + j] = c[j] /\ s[5 + L + j] = c[j] /\ s[5 + 2 * L + j] = c[j]
  BY <1>8, <1>12, <1>16, <1>17
<1>20. /\ CopyBase(n, 1) = 5 /\ CopyBase(n, 2) = 5 + L /\ CopyBase(n, 3) = 5 + 2 * L
       /\ ParityStart(n) = 5 + 3 * L
  BY <1>4, <1>17 DEF CopyBase, ParityStart, PrefixLen, DirectoryCopies
<1>21. ASSUME NEW i \in 1..3, NEW j \in 1..L
       PROVE  s[CopyBase(n, i) + j] = c[j]
  <2>1. CASE i = 1
    BY <1>19, <1>20, <2>1
  <2>2. CASE i = 2
    BY <1>19, <1>20, <2>2
  <2>3. CASE i = 3
    BY <1>19, <1>20, <2>3
  <2> QED
    BY <2>1, <2>2, <2>3
<1>22. ASSUME NEW i \in 1..3
       PROVE  /\ \A b \in 1..D : s[CopyBase(n, i) + b] = d[b]
              /\ s[CopyBase(n, i) + D + 1] = Hash(d)
  <2>1. \A b \in 1..D : b \in 1..L
    BY <1>17
  <2>2. PICK base \in Nat : base = CopyBase(n, i)
    BY <1>20
  <2>3. D + 1 \in 1..L /\ base + D + 1 = base + (D + 1)
    BY <1>17
  <2>4. s[base + (D + 1)] = c[D + 1]
    BY <1>21, <2>2, <2>3
  <2> QED
    BY <1>8, <1>21, <2>1, <2>2, <2>3, <2>4
<1>23. Len(s) = ParityStart(n) + Len(p) /\ \A b \in 1..Len(p) : s[ParityStart(n) + b] = p[b]
  BY <1>8, <1>12, <1>16, <1>17, <1>20
<1> QED
  BY <1>2, <1>3, <1>4, <1>13, <1>14, <1>16, <1>18, <1>22, <1>23
  DEF HasLayout, DirectoryCopies, S

LEMMA SubSeqIs ==
  ASSUME NEW S, NEW s \in Seq(S), NEW P, NEW t \in Seq(P), NEW base \in Nat,
         base + Len(t) <= Len(s),
         \A k \in 1..Len(t) : s[base + k] = t[k]
  PROVE  SubSeq(s, base + 1, base + Len(t)) = t
<1>1. PICK m \in Nat, l \in Nat : m = Len(t) /\ l = Len(s) /\ base + m <= l /\ DOMAIN s = 1..l
  OBVIOUS
<1>2. \A j \in base + 1..base + m : s[j] \in S
  BY <1>1
<1>3. PICK c : c = SubSeq(s, base + 1, base + m)
  OBVIOUS
<1>4. /\ c \in Seq(S) /\ Len(c) = IF base + 1 <= base + m THEN (base + m) - (base + 1) + 1 ELSE 0
      /\ \A k \in 1..(base + m) - (base + 1) + 1 : c[k] = s[(base + 1) + k - 1]
  <2>1. base + 1 \in Int /\ base + m \in Int
    BY <1>1
  <2> QED
    BY <1>2, <1>3, <2>1, SubSeqProperties
<1>5. Len(c) = m /\ (base + m) - (base + 1) + 1 = m
  BY <1>1, <1>4
<1>6. ASSUME NEW k \in 1..m PROVE c[k] = t[k]
  <2>1. c[k] = s[(base + 1) + k - 1]
    BY <1>4, <1>5
  <2>2. (base + 1) + k - 1 = base + k
    BY <1>1
  <2>3. s[base + k] = t[k]
    BY <1>1
  <2> QED
    BY <2>1, <2>2, <2>3, Zenon
<1>7. c = [k \in 1..m |-> c[k]] /\ t = [k \in 1..m |-> t[k]]
  BY <1>1, <1>4, <1>5
<1> QED
  BY <1>1, <1>3, <1>6, <1>7

-----------------------------------------------------------------------------
(* A sidecar of version 1.                                                 *)

\* The record of a window, with its parity right behind it.
RecordV1(w)      == Placement(w) \o Avec(w)
RecordsV1(windows) == [i \in DOMAIN windows |-> RecordV1(windows[i])]

HeadV1(length) ==
  << Magic, Number(1) >> \o Identity(length) \o << Number(length), Number(Len(Windows(length))) >>

BodyV1(length) == HeadV1(length) \o FlattenSeq(RecordsV1(Windows(length)))

CellsV1(length) == Plain(length) \cup { Hash(BodyV1(length)) }

LEMMA RecordV1Type ==
  ASSUME NEW length, NEW w \in Window
  PROVE  /\ RecordV1(w) \in Seq(Plain(length)) /\ Len(RecordV1(w)) = 3 + Len(Avec(w))
         /\ RecordV1(w)[1] = Number(w.offset) /\ RecordV1(w)[2] = Number(w.len)
         /\ RecordV1(w)[3] = Number(Len(Avec(w)))
         /\ \A k \in 1..Len(Avec(w)) : RecordV1(w)[3 + k] = Avec(w)[k]
<1>1. PICK s \in Seq(Plain(length)), t \in Seq(Plain(length)) : s = Placement(w) /\ t = Avec(w)
  BY PlacementType, AvecType
<1>2. PICK u : u = s \o t
  OBVIOUS
<1>3. /\ u \in Seq(Plain(length)) /\ Len(u) = Len(s) + Len(t)
      /\ \A j \in 1..Len(s) : u[j] = s[j]
      /\ \A j \in 1..Len(t) : u[Len(s) + j] = t[j]
  BY <1>2, ConcatAt
<1>4. Len(s) = 3 /\ s[1] = Number(w.offset) /\ s[2] = Number(w.len) /\ s[3] = Number(Len(t))
  BY <1>1, PlacementType
<1>5. u[1] = s[1] /\ u[2] = s[2] /\ u[3] = s[3]
  BY <1>3, <1>4
<1>6. \A k \in 1..Len(t) : u[3 + k] = t[k]
  BY <1>3, <1>4
<1>7. RecordV1(w) = u
  BY <1>1, <1>2 DEF RecordV1
<1> QED
  BY <1>1, <1>3, <1>4, <1>5, <1>6, <1>7

LEMMA RecordsV1Type ==
  ASSUME NEW length, NEW windows \in Seq(Window), windows # <<>>
  PROVE  /\ RecordsV1(windows) \in Seq(Seq(Plain(length))) /\ RecordsV1(windows) # <<>>
         /\ Len(RecordsV1(windows)) = Len(windows)
         /\ \A i \in 1..Len(windows) : RecordsV1(windows)[i] = RecordV1(windows[i])
<1>1. PICK n \in Nat \ {0} : n = Len(windows) /\ DOMAIN windows = 1..n
  BY EmptySeq
<1>2. \A i \in 1..n : windows[i] \in Window
  BY <1>1
<1>3. \A i \in 1..n : RecordV1(windows[i]) \in Seq(Plain(length))
  BY <1>2, RecordV1Type
<1>4. RecordsV1(windows) \in [1..n -> Seq(Plain(length))]
  BY <1>1, <1>3 DEF RecordsV1
<1>5. RecordsV1(windows) \in Seq(Seq(Plain(length))) /\ Len(RecordsV1(windows)) = n
  BY <1>4
<1>6. RecordsV1(windows) # <<>>
  BY <1>5, EmptySeq
<1> QED
  BY <1>1, <1>5, <1>6 DEF RecordsV1

LEMMA HeadV1Type ==
  ASSUME NEW length \in Nat
  PROVE  /\ HeadV1(length) \in Seq(Plain(length)) /\ Len(HeadV1(length)) = HeaderLenV1
         /\ HeadV1(length)[HeaderLenV1] = Number(Len(Windows(length)))
<1> DEFINE P == Plain(length)
<1>1. PICK n \in Nat : n = Len(Windows(length))
  BY WindowsType
<1>2. /\ Magic \in P /\ Number(1) \in P /\ Number(length) \in P /\ Number(n) \in P
      /\ Binding(Sha(length)) \in P /\ Sha(length) \in P
  BY DEF Plain
<1> HIDE DEF P
<1>3. PICK a, b, c : a = << Magic, Number(1) >> /\ b = Identity(length) /\ c = << Number(length), Number(n) >>
  OBVIOUS
<1>4. /\ a \in Seq(P) /\ b \in Seq(P) /\ c \in Seq(P)
      /\ Len(a) = 2 /\ Len(b) = 2 /\ Len(c) = 2 /\ c[2] = Number(n)
  BY <1>2, <1>3 DEF Identity
<1>5. PICK u : u = a \o b
  OBVIOUS
<1>6. u \in Seq(P) /\ Len(u) = 4
  <2>1. a \in Seq(P) /\ b \in Seq(P)
    BY <1>4
  <2>2. u \in Seq(P) /\ Len(u) = Len(a) + Len(b)
    BY <1>5, <2>1, ConcatAt
  <2> QED
    BY <1>4, <2>2
<1>7. PICK v : v = u \o c
  OBVIOUS
<1>8. v \in Seq(P) /\ Len(v) = Len(u) + Len(c) /\ \A j \in 1..Len(c) : v[Len(u) + j] = c[j]
  <2>1. u \in Seq(P) /\ c \in Seq(P)
    BY <1>4, <1>6
  <2> QED
    BY <1>7, <2>1, ConcatAt
<1>9. Len(v) = 6 /\ v[4 + 2] = c[2]
  BY <1>4, <1>6, <1>8
<1>10. HeadV1(length) = v
  BY <1>1, <1>3, <1>5, <1>7 DEF HeadV1
<1>11. v \in Seq(P) /\ v[6] = Number(n)
  BY <1>4, <1>8, <1>9
<1> QED
  BY <1>1, <1>9, <1>10, <1>11 DEF HeaderLenV1, P

HoldsAt(s, p, t) == \A k \in 1..Len(t) : s[p + k] = t[k]

\* Where the parts of a sidecar of version 1 are.
LEMMA LayoutV1 ==
  ASSUME NEW length \in Nat, NEW e, Sums(e, Lengths(RecordsV1(Windows(length))))
  PROVE  /\ BodyV1(length) \in Seq(Plain(length))
         /\ Len(BodyV1(length)) = HeaderLenV1 + e[Len(Windows(length))]
         /\ BodyV1(length)[HeaderLenV1] = Number(Len(Windows(length)))
         /\ \A i \in 1..Len(Windows(length)) :
              /\ BodyV1(length)[HeaderLenV1 + e[i - 1] + 3] = Number(Len(Avec(Windows(length)[i])))
              /\ e[i] = e[i - 1] + 3 + Len(Avec(Windows(length)[i]))
              /\ HoldsAt(BodyV1(length), HeaderLenV1 + e[i - 1], RecordV1(Windows(length)[i]))
<1> DEFINE P == Plain(length)
           w == Windows(length)
<1>1. w \in Seq(Window) /\ w # <<>>
  BY WindowsType
<1> HIDE DEF w
<1>2. PICK n \in Nat \ {0} : n = Len(w) /\ DOMAIN w = 1..n
  BY <1>1, EmptySeq
<1>3. /\ RecordsV1(w) \in Seq(Seq(P)) /\ RecordsV1(w) # <<>> /\ Len(RecordsV1(w)) = n
      /\ \A i \in 1..n : RecordsV1(w)[i] = RecordV1(w[i])
  BY <1>1, <1>2, RecordsV1Type
<1> HIDE DEF P
<1>4. Sums(e, Lengths(RecordsV1(w)))
  BY DEF w
<1>5. PICK r : r = FlattenSeq(RecordsV1(w))
  OBVIOUS
<1>6. Laid(r, P, RecordsV1(w), e)
  BY <1>3, <1>4, <1>5, FlattenLaid
<1>7. /\ Len(Lengths(RecordsV1(w))) = n
      /\ \A i \in 1..n : Lengths(RecordsV1(w))[i] = Len(RecordsV1(w)[i])
  BY <1>3, LengthsType
<1>8. /\ e \in [0..n -> Nat] /\ e[0] = 0
      /\ \A i \in 1..n : e[i] = e[i - 1] + Len(RecordV1(w[i]))
  BY <1>3, <1>4, <1>7 DEF Sums
<1>9. PICK h : h = HeadV1(length) /\ h \in Seq(P) /\ Len(h) = 6 /\ h[6] = Number(n)
  BY <1>2, HeadV1Type DEF P, HeaderLenV1, w
<1>10. r \in Seq(P) /\ Len(r) = e[n]
  BY <1>3, <1>6 DEF Laid
<1>11. PICK b : b = h \o r
  OBVIOUS
<1>12. /\ b \in Seq(P) /\ Len(b) = Len(h) + Len(r)
       /\ \A j \in 1..Len(h) : b[j] = h[j]
       /\ \A j \in 1..Len(r) : b[Len(h) + j] = r[j]
  <2>1. h \in Seq(P) /\ r \in Seq(P)
    BY <1>9, <1>10
  <2> QED
    BY <1>11, <2>1, ConcatAt
<1>13. BodyV1(length) = b
  BY <1>5, <1>9, <1>11 DEF BodyV1, w
<1>14. b[6] = Number(n) /\ Len(b) = 6 + e[n]
  BY <1>9, <1>10, <1>12
<1>15. ASSUME NEW i \in 1..n
       PROVE  /\ b[6 + e[i - 1] + 3] = Number(Len(Avec(w[i])))
              /\ e[i] = e[i - 1] + 3 + Len(Avec(w[i]))
              /\ HoldsAt(b, 6 + e[i - 1], RecordV1(w[i]))
  <2>1. w[i] \in Window
    BY <1>1, <1>2
  <2>2. PICK l \in Nat : l = Len(Avec(w[i]))
    BY <2>1, AvecType
  <2>3. Len(RecordV1(w[i])) = 3 + l /\ RecordV1(w[i])[3] = Number(l)
    BY <2>1, <2>2, RecordV1Type
  <2>4. PICK p \in Nat, q \in Nat : p = e[i - 1] /\ q = e[i]
    <3>1. i - 1 \in 0..n /\ i \in 0..n
      OBVIOUS
    <3>2. e[i - 1] \in Nat /\ e[i] \in Nat
      BY <1>8, <3>1
    <3> QED
      BY <3>2
  <2>5. q = p + (3 + l)
    BY <1>8, <2>3, <2>4
  <2>6. r[p + 3] = Number(l)
    <3>1. \A k \in 1..Len(RecordsV1(w)[i]) : r[e[i - 1] + k] = RecordsV1(w)[i][k]
      BY <1>3, <1>6 DEF Laid
    <3>2. 3 \in 1..Len(RecordV1(w[i])) /\ RecordsV1(w)[i] = RecordV1(w[i])
      BY <1>3, <2>3
    <3> QED
      BY <2>3, <2>4, <3>1, <3>2
  <2>7. q <= e[n]
    <3>1. Lengths(RecordsV1(w)) \in Seq(Nat)
      BY <1>3, LengthsType
    <3>2. i \in 0..n /\ n \in 0..n /\ i <= n
      OBVIOUS
    <3> QED
      BY <1>4, <1>7, <2>4, <3>1, <3>2, SumsGrow
  <2>8. PICK m \in Nat : m = e[n]
    BY <1>8
  <2>9. p + 3 \in 1..m
    BY <2>5, <2>7, <2>8
  <2>10. b[6 + (p + 3)] = r[p + 3]
    BY <1>9, <1>10, <1>12, <2>8, <2>9
  <2>11. 6 + p + 3 = 6 + (p + 3) /\ q = p + 3 + l
    BY <2>5
  <2>12. ASSUME NEW k \in 1..3 + l
         PROVE  b[(6 + p) + k] = RecordV1(w[i])[k]
    <3>1. r[p + k] = RecordV1(w[i])[k]
      <4>1. \A j \in 1..Len(RecordsV1(w)[i]) : r[e[i - 1] + j] = RecordsV1(w)[i][j]
        BY <1>3, <1>6 DEF Laid
      <4> QED
        BY <1>3, <2>3, <2>4, <4>1
    <3>2. p + k \in 1..m
      BY <2>5, <2>7, <2>8
    <3>3. b[6 + (p + k)] = r[p + k]
      BY <1>9, <1>10, <1>12, <2>8, <3>2
    <3>4. (6 + p) + k = 6 + (p + k)
      OBVIOUS
    <3> QED
      BY <3>1, <3>3, <3>4
  <2>13. HoldsAt(b, 6 + e[i - 1], RecordV1(w[i]))
    BY <2>3, <2>4, <2>12 DEF HoldsAt
  <2> QED
    BY <2>2, <2>4, <2>6, <2>10, <2>11, <2>13
<1> QED
  BY <1>2, <1>12, <1>13, <1>14, <1>15 DEF HeaderLenV1, P, w

\* All of the sidecar is in its last cell once more.
LEMMA WholeV1 ==
  ASSUME NEW length \in Nat
  PROVE  /\ ToBytesV1(length) = BodyV1(length) \o << Hash(BodyV1(length)) >>
         /\ ToBytesV1(length) \in Seq(CellsV1(length))
         /\ Len(ToBytesV1(length)) = Len(BodyV1(length)) + 1
         /\ \A j \in 1..Len(BodyV1(length)) : ToBytesV1(length)[j] = BodyV1(length)[j]
         /\ ToBytesV1(length)[Len(BodyV1(length)) + 1] = Hash(BodyV1(length))
<1> DEFINE S == CellsV1(length)
<1>1. ToBytesV1(length) = BodyV1(length) \o << Hash(BodyV1(length)) >>
  BY DEF ToBytesV1, BodyV1, HeadV1, RecordsV1, RecordV1
<1>2. Windows(length) \in Seq(Window) /\ Windows(length) # <<>>
  BY WindowsType
<1>3. Lengths(RecordsV1(Windows(length))) \in Seq(Nat)
  BY <1>2, RecordsV1Type, LengthsType
<1>4. PICK e : Sums(e, Lengths(RecordsV1(Windows(length))))
  BY <1>3, EndsSums
<1>5. BodyV1(length) \in Seq(Plain(length))
  BY <1>4, LayoutV1
<1>6. Plain(length) \subseteq S /\ Hash(BodyV1(length)) \in S
  BY DEF CellsV1
<1> HIDE DEF S
<1>7. PICK s : s = BodyV1(length) /\ s \in Seq(S)
  BY <1>5, <1>6
<1>8. PICK t : t = << Hash(BodyV1(length)) >> /\ t \in Seq(S) /\ Len(t) = 1 /\ t[1] = Hash(BodyV1(length))
  <2>1. PICK x \in S : x = Hash(BodyV1(length))
    BY <1>6
  <2>2. << x >> \in Seq(S) /\ Len(<< x >>) = 1 /\ << x >>[1] = x
    OBVIOUS
  <2> QED
    BY <2>1, <2>2
<1>9. PICK u : u = s \o t
  OBVIOUS
<1>10. /\ u \in Seq(S) /\ Len(u) = Len(s) + Len(t)
       /\ \A j \in 1..Len(s) : u[j] = s[j]
       /\ \A j \in 1..Len(t) : u[Len(s) + j] = t[j]
  <2>1. s \in Seq(S) /\ t \in Seq(S)
    BY <1>7, <1>8
  <2> QED
    BY <1>9, <2>1, ConcatAt
<1>11. Len(u) = Len(s) + 1 /\ u[Len(s) + 1] = t[1]
  BY <1>8, <1>10
<1>12. ToBytesV1(length) = u
  BY <1>1, <1>7, <1>8, <1>9
<1> QED
  BY <1>1, <1>7, <1>8, <1>10, <1>11, <1>12 DEF S

-----------------------------------------------------------------------------
(* What the damage may do.                                                 *)

\* What a cell may rot to.
Decay == { Number(n) : n \in Nat } \cup { <<"junk", n>> : n \in Nat }

CellsOf(length) == CellsV1(length) \cup CellsV2(length) \cup Decay

\* Each cell that is left is as it was written, or rotted, and then it is no hash.
Inv ==
  /\ total \in TotalLens /\ version \in {1, 2} /\ damage \in 0..MaxDamage
  /\ data \in Seq(CellsOf(total))
  /\ Len(data) <= Len(Written)
  /\ \A i \in DOMAIN data : data[i] = Written[i] \/ data[i] \in Decay

LEMMA TotalsAreNat == TotalLens \subseteq Nat
BY LengthAssumption

LEMMA CellKinds ==
  ASSUME NEW length, NEW c \in CellsOf(length)
  PROVE  c[1] \in Kinds /\ (c[1] = "number" => c[2] \in Nat) /\ Read(c) \in Nat
<1>1. c[1] \in Kinds /\ (c[1] = "number" => c[2] \in Nat)
  <2>1. CASE c \in Plain(length)
    BY <2>1, PlainKinds
  <2>2. CASE c \in { Hash(BodyV1(length)), Hash(EncodeDirectory(length)) }
    BY <2>2 DEF Hash, Kinds
  <2>3. CASE c \in Decay
    BY <2>3 DEF Decay, Number, Kinds
  <2> QED
    BY <2>1, <2>2, <2>3 DEF CellsOf, CellsV1, CellsV2
<1> QED
  BY <1>1, HugeAssumption DEF Read

LEMMA WrittenType ==
  ASSUME total \in TotalLens, version \in {1, 2}
  PROVE  /\ Written = IF version = 1 THEN ToBytesV1(total) ELSE ToBytes(total)
         /\ Written \in Seq(CellsOf(total))
<1>1. Written = IF version = 1 THEN ToBytesV1(total) ELSE ToBytes(total)
  BY DEF Written, Sidecars
<1>2. total \in Nat
  BY TotalsAreNat
<1>3. ToBytesV1(total) \in Seq(CellsOf(total))
  <2>1. ToBytesV1(total) \in Seq(CellsV1(total))
    BY <1>2, WholeV1
  <2>2. CellsV1(total) \subseteq CellsOf(total)
    BY DEF CellsOf
  <2> QED
    BY <2>1, <2>2
<1>4. ToBytes(total) \in Seq(CellsOf(total))
  <2>1. ToBytes(total) \in Seq(CellsV2(total))
    BY <1>2, LayoutV2 DEF HasLayout
  <2>2. CellsV2(total) \subseteq CellsOf(total)
    BY DEF CellsOf
  <2> QED
    BY <2>1, <2>2
<1> QED
  BY <1>1, <1>3, <1>4

LEMMA InvInit == Init => Inv
<1>1. SUFFICES ASSUME Init PROVE Inv
  OBVIOUS
<1>2. total \in TotalLens /\ version \in {1, 2} /\ data = Written /\ damage = 0
  BY <1>1 DEF Init
<1>3. Written \in Seq(CellsOf(total))
  BY <1>2, WrittenType
<1>4. 0 \in 0..MaxDamage
  BY BoundAssumption
<1>5. Len(Written) \in Nat
  BY <1>3
<1> QED
  BY <1>2, <1>3, <1>4, <1>5 DEF Inv

LEMMA InvNext ==
  ASSUME Inv, [Next]_vars
  PROVE  Inv'
<1>1. /\ total \in TotalLens /\ version \in {1, 2} /\ damage \in 0..MaxDamage
      /\ data \in Seq(CellsOf(total)) /\ Len(data) <= Len(Written)
      /\ \A i \in DOMAIN data : data[i] = Written[i] \/ data[i] \in Decay
  BY DEF Inv
<1>2. Decay \subseteq CellsOf(total)
  BY DEF CellsOf
<1>3. MaxDamage \in Nat
  BY BoundAssumption
<1>4. CASE Rot
  <2>1. PICK i \in DOMAIN data : \E cell \in Rotted(i, data[i]) : data' = [data EXCEPT ![i] = cell]
    BY <1>4 DEF Rot
  <2>2. PICK cell \in Rotted(i, data[i]) : data' = [data EXCEPT ![i] = cell]
    BY <2>1
  <2>3. cell \in Decay
    <3>1. i \in Nat
      BY <1>1
    <3>2. ASSUME NEW n \in {data[i][2] - 1, data[i][2] + 1} \cap Nat
          PROVE  Number(n) \in Decay
      BY DEF Decay
    <3> QED
      BY <3>1, <3>2 DEF Rotted, Decay
  <2>4. total' = total /\ version' = version /\ damage' = damage + 1 /\ damage < MaxDamage
    BY <1>4 DEF Rot
  <2>5. Written' = Written /\ CellsOf(total)' = CellsOf(total)
    BY <2>4 DEF Written
  <2>6. data' \in Seq(CellsOf(total)) /\ Len(data') = Len(data) /\ DOMAIN data' = DOMAIN data
    BY <1>1, <1>2, <2>2, <2>3
  <2>7. \A j \in DOMAIN data : data'[j] = Written[j] \/ data'[j] \in Decay
    BY <1>1, <2>2, <2>3
  <2>8. damage' \in 0..MaxDamage
    BY <1>1, <1>3, <2>4
  <2> QED
    BY <1>1, <2>4, <2>5, <2>6, <2>7, <2>8 DEF Inv
<1>5. CASE Truncate
  <2>1. PICK n \in 0..Len(data) - 1 : data' = SubSeq(data, 1, n)
    BY <1>5 DEF Truncate
  <2>2. total' = total /\ version' = version /\ damage' = damage + 2 /\ damage + 2 <= MaxDamage
    BY <1>5 DEF Truncate
  <2>3. Written' = Written /\ CellsOf(total)' = CellsOf(total)
    BY <2>2 DEF Written
  <2>4. PICK l \in Nat : l = Len(data) /\ DOMAIN data = 1..l
    BY <1>1
  <2>5. \A i \in 1..n : i \in 1..l /\ data[i] \in CellsOf(total)
    BY <1>1, <2>1, <2>4
  <2>6. /\ data' \in Seq(CellsOf(total)) /\ Len(data') = n /\ DOMAIN data' = 1..n
        /\ \A i \in 1..n : data'[i] = data[i]
    <3>1. 1 \in Int /\ n \in Nat /\ \A i \in 1..n : data[i] \in CellsOf(total)
      BY <2>4, <2>5
    <3>2. /\ data' \in Seq(CellsOf(total)) /\ Len(data') = IF 1 <= n THEN n - 1 + 1 ELSE 0
          /\ \A i \in 1..n - 1 + 1 : data'[i] = data[1 + i - 1]
      BY <2>1, <3>1, SubSeqProperties
    <3>3. Len(data') = n /\ n - 1 + 1 = n
      BY <3>1, <3>2
    <3>4. \A i \in 1..n : 1 + i - 1 = i
      OBVIOUS
    <3> QED
      BY <3>2, <3>3, <3>4
  <2>7. n <= Len(Written)
    <3>1. Len(Written) \in Nat
      BY <1>1, WrittenType
    <3> QED
      BY <1>1, <2>4, <3>1
  <2>8. damage' \in 0..MaxDamage
    BY <1>1, <1>3, <2>2
  <2> QED
    BY <1>1, <2>2, <2>3, <2>4, <2>5, <2>6, <2>7, <2>8 DEF Inv
<1>6. CASE UNCHANGED vars
  <2>1. total' = total /\ version' = version /\ damage' = damage /\ data' = data
    BY <1>6 DEF vars
  <2>2. Written' = Written /\ CellsOf(total)' = CellsOf(total)
    BY <2>1 DEF Written
  <2> QED
    BY <1>1, <2>1, <2>2 DEF Inv
<1> QED
  BY <1>4, <1>5, <1>6 DEF Next

LEMMA InvAlways == Spec => []Inv
<1>1. Inv /\ [Next]_vars => Inv'
  BY InvNext
<1> QED
  BY InvInit, <1>1, PTL DEF Spec

-----------------------------------------------------------------------------
(* Whatever is read lies within the sidecar.                               *)

Inside(segments, length) ==
  /\ segments # <<>>
  /\ \A i \in DOMAIN segments : segments[i].start + segments[i].avecLen <= length

LEMMA CopyBases ==
  ASSUME NEW n \in Nat
  PROVE  /\ DirLen(n) \in Nat /\ ParityStart(n) \in Nat
         /\ \A i \in 1..DirectoryCopies :
              /\ CopyBase(n, i) \in Nat
              /\ CopyBase(n, i) + DirLen(n) + 1 <= ParityStart(n)
<1>1. PICK d \in Nat : d = DirLen(n)
  BY DEF DirLen, DirFixedLen, DirPerSegLen
<1>2. ParityStart(n) = 5 + 3 * (d + 1)
  BY <1>1 DEF ParityStart, PrefixLen, DirectoryCopies
<1>3. \A i \in 1..3 : CopyBase(n, i) = 5 + (i - 1) * (d + 1)
  BY <1>1 DEF CopyBase, PrefixLen, DirectoryCopies
<1>4. CopyBase(n, 1) = 5 /\ CopyBase(n, 2) = 5 + (d + 1) /\ CopyBase(n, 3) = 5 + 2 * (d + 1)
  BY <1>3
<1>5. ASSUME NEW i \in 1..3
      PROVE  CopyBase(n, i) \in Nat /\ CopyBase(n, i) + d + 1 <= 5 + 3 * (d + 1)
  <2>1. CASE i = 1
    BY <1>4, <2>1
  <2>2. CASE i = 2
    BY <1>4, <2>2
  <2>3. CASE i = 3
    BY <1>4, <2>3
  <2> QED
    BY <2>1, <2>2, <2>3
<1> QED
  BY <1>1, <1>2, <1>5 DEF DirectoryCopies

LEMMA CopyType ==
  ASSUME NEW C, NEW bytes \in Seq(C), NEW n \in Nat, ParityStart(n) <= Len(bytes),
         NEW i \in 1..DirectoryCopies
  PROVE  /\ Copy(bytes, n, i) \in Seq(C) /\ Len(Copy(bytes, n, i)) = DirLen(n)
         /\ \A b \in 1..DirLen(n) : Copy(bytes, n, i)[b] = bytes[CopyBase(n, i) + b]
<1>1. PICK d \in Nat, base \in Nat, l \in Nat :
        /\ d = DirLen(n) /\ base = CopyBase(n, i) /\ l = Len(bytes) /\ base + d <= l
  <2>1. DirLen(n) \in Nat /\ ParityStart(n) \in Nat /\ CopyBase(n, i) \in Nat /\ Len(bytes) \in Nat
    BY CopyBases
  <2>2. CopyBase(n, i) + DirLen(n) + 1 <= ParityStart(n)
    BY CopyBases
  <2>3. CopyBase(n, i) + DirLen(n) <= Len(bytes)
    BY <2>1, <2>2
  <2> QED
    BY <2>1, <2>3
<1>2. \A j \in base + 1..base + d : bytes[j] \in C
  BY <1>1
<1>3. PICK c : c = SubSeq(bytes, base + 1, base + d)
  OBVIOUS
<1>4. /\ c \in Seq(C) /\ Len(c) = IF base + 1 <= base + d THEN (base + d) - (base + 1) + 1 ELSE 0
      /\ \A b \in 1..(base + d) - (base + 1) + 1 : c[b] = bytes[(base + 1) + b - 1]
  <2>1. base + 1 \in Int /\ base + d \in Int
    BY <1>1
  <2> QED
    BY <1>2, <1>3, <2>1, SubSeqProperties
<1>5. Len(c) = d /\ (base + d) - (base + 1) + 1 = d
  BY <1>1, <1>4
<1>6. ASSUME NEW b \in 1..d PROVE c[b] = bytes[base + b]
  <2>1. c[b] = bytes[(base + 1) + b - 1]
    BY <1>4, <1>5
  <2>2. (base + 1) + b - 1 = base + b
    BY <1>1
  <2> QED
    BY <2>1, <2>2, Zenon
<1> QED
  BY <1>1, <1>3, <1>4, <1>5, <1>6 DEF Copy

LEMMA RecoveredType ==
  ASSUME NEW C, NEW bytes \in Seq(C), NEW n \in Nat, ParityStart(n) <= Len(bytes)
  PROVE  \A b \in 1..DirLen(n) : RecoveredDirectory(bytes, n)[b] \in C
<1> DEFINE intact == { i \in 1..DirectoryCopies : Intact(bytes, n, i) }
<1>1. DirLen(n) \in Nat
  BY CopyBases
<1>2. \A i \in 1..DirectoryCopies : \A b \in 1..DirLen(n) : Copy(bytes, n, i)[b] \in C
  <2> TAKE i \in 1..DirectoryCopies
  <2>1. Copy(bytes, n, i) \in Seq(C) /\ Len(Copy(bytes, n, i)) = DirLen(n)
    BY CopyType
  <2> QED
    BY <1>1, <2>1
<1>3. CASE intact # {}
  <2>1. intact \in SUBSET Nat
    BY DEF DirectoryCopies
  <2>2. PICK i \in intact : \A j \in intact : i <= j
    BY <1>3, <2>1, LeastElement
  <2>3. Min(intact) = i
    BY <2>1, <2>2, LeastIsMin
  <2>4. RecoveredDirectory(bytes, n) = Copy(bytes, n, i)
    BY <1>3, <2>3 DEF RecoveredDirectory
  <2> QED
    BY <1>2, <2>2, <2>4
<1>4. CASE intact = {}
  <2>1. RecoveredDirectory(bytes, n) = Vote(bytes, n)
    BY <1>4 DEF RecoveredDirectory
  <2>2. 1 \in 1..DirectoryCopies /\ 2 \in 1..DirectoryCopies /\ 3 \in 1..DirectoryCopies
    BY DEF DirectoryCopies
  <2> QED
    BY <1>2, <2>1, <2>2 DEF Vote
<1> QED
  BY <1>3, <1>4

\* How long the parity of each window is by the directory.
SegLens(dir, n) == [i \in 1..n |-> Read(dir[DirFixedLen + DirPerSegLen * (i - 1) + 3])]

SegmentAt(dir, n, i) ==
  [offset   |-> Read(dir[DirFixedLen + DirPerSegLen * (i - 1) + 1]),
   len      |-> Read(dir[DirFixedLen + DirPerSegLen * (i - 1) + 2]),
   avecLen  |-> Read(dir[DirFixedLen + DirPerSegLen * (i - 1) + 3]),
   start    |-> ParityStart(n) + Ends(SegLens(dir, n))[i - 1],
   geometry |-> dir[DirFixedLen + DirPerSegLen * (i - 1) + 4]]

LEMMA SegmentsAt ==
  ASSUME NEW dir, NEW n
  PROVE  Segments(dir, n) = [i \in 1..n |-> SegmentAt(dir, n, i)]
BY DEF Segments, SegmentAt, SegLens

LEMMA SegLensType ==
  ASSUME NEW n \in Nat \ {0}, NEW dir,
         \A b \in 1..DirLen(n) : Read(dir[b]) \in Nat
  PROVE  SegLens(dir, n) \in Seq(Nat) /\ Len(SegLens(dir, n)) = n
<1>1. DirLen(n) = 3 + 4 * n
  BY DEF DirLen, DirFixedLen, DirPerSegLen
<1>2. ASSUME NEW i \in 1..n
      PROVE  Read(dir[3 + 4 * (i - 1) + 3]) \in Nat
  <2>1. PICK b \in Nat : b = 3 + 4 * (i - 1) + 3 /\ b \in 1..3 + 4 * n
    OBVIOUS
  <2> QED
    BY <1>1, <2>1
<1>3. SegLens(dir, n) \in [1..n -> Nat]
  BY <1>2 DEF SegLens, DirFixedLen, DirPerSegLen
<1> QED
  BY <1>3

LEMMA DecodedInside ==
  ASSUME NEW length, NEW bytes \in Seq(CellsOf(length)), NEW n \in Nat,
         Usable(bytes, n), Decoded(bytes, n) # Refused
  PROVE  Inside(Decoded(bytes, n).segments, Len(bytes))
<1>1. n # 0 /\ ParityStart(n) <= Len(bytes)
  BY DEF Usable, Fits
<1>2. PICK dir : dir = RecoveredDirectory(bytes, n)
  OBVIOUS
<1>3. \A b \in 1..DirLen(n) : Read(dir[b]) \in Nat
  BY <1>1, <1>2, RecoveredType, CellKinds
<1>4. SegLens(dir, n) \in Seq(Nat) /\ Len(SegLens(dir, n)) = n
  BY <1>1, <1>3, SegLensType
<1>5. PICK e : e = Ends(SegLens(dir, n)) /\ Sums(e, SegLens(dir, n))
  BY <1>4, EndsSums
<1>6. PICK s : s = Segments(dir, n)
  OBVIOUS
<1>7. s = [i \in 1..n |-> SegmentAt(dir, n, i)]
  BY <1>6, SegmentsAt
<1>8. PICK p \in Nat : p = ParityStart(n)
  BY CopyBases
<1>9. e \in [0..n -> Nat] /\ \A i \in 1..n : e[i] = e[i - 1] + SegLens(dir, n)[i]
  BY <1>4, <1>5 DEF Sums
<1>10. \A i \in 1..n : s[i].start = p + e[i - 1] /\ s[i].avecLen = SegLens(dir, n)[i]
  BY <1>5, <1>7, <1>8 DEF SegmentAt, SegLens
<1>11. ASSUME NEW i \in 1..n
       PROVE  s[i].start + s[i].avecLen = p + e[i] /\ e[i] \in Nat
  <2>1. e[i] \in Nat /\ e[i - 1] \in Nat /\ SegLens(dir, n)[i] \in Nat
    <3>1. i \in 0..n /\ i - 1 \in 0..n
      OBVIOUS
    <3> QED
      BY <1>4, <1>9, <3>1, SMTT(30)
  <2>2. PICK x \in Nat, y \in Nat : x = e[i - 1] /\ y = SegLens(dir, n)[i]
    BY <2>1
  <2>3. e[i] = x + y
    BY <1>9, <2>2
  <2>4. s[i].start = p + x /\ s[i].avecLen = y
    BY <1>10, <2>2
  <2> QED
    BY <2>1, <2>3, <2>4
<1>12. Decoded(bytes, n).segments = s /\ Accounted(s, Len(bytes))
  BY <1>2, <1>6 DEF Decoded, Refused
<1>13. Len(s) = n /\ DOMAIN s = 1..n /\ s # <<>>
  BY <1>1, <1>7
<1>14. p + e[n] = Len(bytes)
  <2>1. Last(s) = s[n]
    BY <1>13 DEF Last
  <2>2. n \in 1..n
    BY <1>1
  <2> QED
    BY <1>11, <1>12, <2>1, <2>2 DEF Accounted
<1>15. ASSUME NEW i \in 1..n
       PROVE  s[i].start + s[i].avecLen <= Len(bytes)
  <2>1. e[i] <= e[n]
    <3>1. i \in 0..n /\ n \in 0..n /\ i <= n
      OBVIOUS
    <3> QED
      BY <1>4, <1>5, <3>1, SumsGrow
  <2>2. e[n] \in Nat
    BY <1>1, <1>11
  <2> QED
    BY <1>11, <1>14, <2>1, <2>2
<1> QED
  BY <1>12, <1>13, <1>15 DEF Inside

LEMMA SlotsType ==
  ASSUME NEW C, NEW bytes \in Seq(C), Len(bytes) >= PrefixLen, NEW i \in 1..DirectoryCopies
  PROVE  Slots(bytes)[i] = bytes[2 + i] /\ bytes[2 + i] \in C
<1>1. PICK l \in Nat : l = Len(bytes) /\ l >= 5 /\ DOMAIN bytes = 1..l
  BY DEF PrefixLen, DirectoryCopies
<1>2. \A j \in 3..5 : bytes[j] \in C
  BY <1>1
<1>3. i \in 1..3 /\ 2 + i \in 3..5 /\ 3 + i - 1 = 2 + i
  BY DEF DirectoryCopies
<1>4. \A j \in 1..5 - 3 + 1 : SubSeq(bytes, 3, 5)[j] = bytes[3 + j - 1]
  <2>1. 3 \in Int /\ 5 \in Int
    OBVIOUS
  <2> QED
    BY <1>2, <2>1, SubSeqProperties
<1>5. SubSeq(bytes, 3, 5)[i] = bytes[3 + i - 1]
  BY <1>3, <1>4
<1> QED
  BY <1>2, <1>3, <1>5 DEF Slots, PrefixLen, DirectoryCopies

\* What either reader gives is what a usable count says.
LEMMA FoundV2 ==
  ASSUME NEW length, NEW bytes \in Seq(CellsOf(length)), Len(bytes) >= PrefixLen,
         NEW dir \in {ParsedV2(bytes), OpenedV2(bytes)}, dir # Refused
  PROVE  \E n \in Nat : /\ Usable(bytes, n) /\ dir = Decoded(bytes, n)
                        /\ \E j \in 1..DirectoryCopies : n = Read(bytes[2 + j])
<1> DEFINE C == CandidateCounts(bytes)
<1>1. PICK m \in Nat \ {0} : Len(C) = m /\ \A i \in 1..m : \E j \in 1..DirectoryCopies : C[i] = Slots(bytes)[j]
  BY CountsType
<1>2. \A i \in 1..m : /\ Read(C[i]) \in Nat
                       /\ \E j \in 1..DirectoryCopies : Read(C[i]) = Read(bytes[2 + j])
  <2> TAKE i \in 1..m
  <2>1. PICK j \in 1..DirectoryCopies : C[i] = Slots(bytes)[j]
    BY <1>1
  <2>2. C[i] = bytes[2 + j] /\ C[i] \in CellsOf(length)
    BY <2>1, SlotsType
  <2> QED
    BY <2>2, CellKinds
<1> HIDE DEF C
<1>3. UsableAt(bytes) = { i \in 1..m : Usable(bytes, Read(C[i])) }
  BY <1>1 DEF UsableAt, C
<1>4. GivesAt(bytes) \subseteq UsableAt(bytes)
  BY DEF GivesAt, UsableAt, Gives
<1>5. CASE dir = ParsedV2(bytes)
  <2>1. UsableAt(bytes) # {}
    BY <1>5, ParsedFirst
  <2>2. UsableAt(bytes) \in SUBSET Nat
    BY <1>3
  <2>3. PICK k \in UsableAt(bytes) : \A i \in UsableAt(bytes) : k <= i
    BY <2>1, <2>2, LeastElement
  <2>4. Min(UsableAt(bytes)) = k
    BY <2>2, <2>3, LeastIsMin
  <2>5. dir = Decoded(bytes, Read(C[k]))
    BY <1>5, <2>1, <2>4, ParsedFirst DEF C
  <2> QED
    BY <1>2, <1>3, <2>3, <2>5
<1>6. CASE dir = OpenedV2(bytes)
  <2>1. GivesAt(bytes) # {}
    BY <1>6, OpenedFirst
  <2>2. GivesAt(bytes) \in SUBSET Nat
    BY <1>3, <1>4
  <2>3. PICK k \in GivesAt(bytes) : \A i \in GivesAt(bytes) : k <= i
    BY <2>1, <2>2, LeastElement
  <2>4. Min(GivesAt(bytes)) = k
    BY <2>2, <2>3, LeastIsMin
  <2>5. k \in UsableAt(bytes)
    BY <1>4, <2>3
  <2>6. dir = Gives(bytes, C[k])
    BY <1>6, <2>1, <2>4, OpenedFirst DEF C
  <2>7. dir = Decoded(bytes, Read(C[k]))
    BY <1>3, <2>5, <2>6 DEF Gives
  <2> QED
    BY <1>2, <1>3, <2>5, <2>7
<1> QED
  BY <1>5, <1>6

\* Where the records of a sidecar of version 1 begin.
StartEquation(f, bytes, n) ==
  f = [i \in 1..n |-> IF i = 1 THEN HeaderLenV1 ELSE f[i - 1] + 3 + Read(bytes[f[i - 1] + 3])]

\* The lengths L are those that the records of a sidecar tell, one after the other.
RecordsTell(bytes, L, e, n) ==
  \A i \in 1..n : /\ L[i] = 3 + Read(bytes[HeaderLenV1 + e[i - 1] + 3])
                  /\ Read(bytes[HeaderLenV1 + e[i - 1] + 3]) \in Nat

LEMMA StartsV1 ==
  ASSUME NEW bytes, NEW n \in Nat \ {0}, NEW L \in Seq(Nat), Len(L) = n,
         NEW e, Sums(e, L), NEW f, StartEquation(f, bytes, n),
         RecordsTell(bytes, L, e, n)
  PROVE  \A i \in 1..n : f[i] = HeaderLenV1 + e[i - 1]
<1>1. /\ e \in [0..n -> Nat] /\ e[0] = 0 /\ \A i \in 1..n : e[i] = e[i - 1] + L[i]
  BY DEF Sums
<1>2. \A i \in 1..n : f[i] = IF i = 1 THEN 6 ELSE f[i - 1] + 3 + Read(bytes[f[i - 1] + 3])
  BY DEF StartEquation, HeaderLenV1
<1> DEFINE N == { m \in Nat : m + 1 <= n => f[m + 1] = 6 + e[m] }
<1>3. 0 \in N
  <2>1. 1 \in 1..n
    OBVIOUS
  <2> QED
    BY <1>1, <1>2, <2>1
<1>4. ASSUME NEW m \in Nat, m \in N
      PROVE  m + 1 \in N
  <2>1. SUFFICES ASSUME (m + 1) + 1 <= n PROVE f[(m + 1) + 1] = 6 + e[m + 1]
    OBVIOUS
  <2>2. PICK k \in Nat : k = m + 1
    OBVIOUS
  <2>3. k \in 1..n /\ k + 1 \in 1..n /\ k + 1 # 1 /\ (k + 1) - 1 = k /\ k - 1 = m /\ m \in 0..n
    BY <2>1, <2>2
  <2>4. f[k] = 6 + e[m]
    BY <1>4, <2>2, <2>3
  <2>5. PICK a \in Nat : a = e[m]
    BY <1>1, <2>3
  <2>6. PICK r \in Nat : r = Read(bytes[6 + a + 3]) /\ L[k] = 3 + r
    BY <2>3, <2>5 DEF HeaderLenV1, RecordsTell
  <2>7. f[k + 1] = (6 + a) + 3 + r
    <3>1. f[k + 1] = f[k] + 3 + Read(bytes[f[k] + 3])
      BY <1>2, <2>3
    <3>2. f[k] = 6 + a
      BY <2>4, <2>5
    <3> QED
      BY <2>6, <3>1, <3>2
  <2>8. e[k] = a + (3 + r)
    BY <1>1, <2>3, <2>5, <2>6
  <2> QED
    BY <2>2, <2>7, <2>8
<1>5. \A m \in Nat : m \in N
  <2> HIDE DEF N
  <2> QED
    BY <1>3, <1>4, Induction
<1>6. ASSUME NEW i \in 1..n
      PROVE  f[i] = 6 + e[i - 1]
  <2>1. PICK m \in Nat : m = i - 1 /\ m + 1 = i
    OBVIOUS
  <2>2. m \in N
    BY <1>5
  <2>3. m + 1 <= n
    BY <2>1
  <2> QED
    BY <2>1, <2>2, <2>3
<1> QED
  BY <1>6 DEF HeaderLenV1

SegmentsStart(segments, bytes, e, n) ==
  segments = [i \in 1..n |-> SegmentAtV1(bytes, HeaderLenV1 + e[i - 1])]

\* Where the records of version 1 begin is found from one to the next.
LEMMA SegmentsAtV1 ==
  ASSUME NEW length \in Nat
  PROVE  \E e : /\ Sums(e, Lengths(RecordsV1(Windows(length))))
                /\ SegmentsStart(SegmentsV1(ToBytesV1(length)), ToBytesV1(length), e,
                                 Len(Windows(length)))
<1> DEFINE w == Windows(length)
<1>1. w \in Seq(Window) /\ w # <<>>
  BY WindowsType
<1> HIDE DEF w
<1>2. PICK n \in Nat \ {0} : n = Len(w)
  BY <1>1, EmptySeq
<1>3. /\ RecordsV1(w) \in Seq(Seq(Plain(length))) /\ Len(RecordsV1(w)) = n
      /\ \A i \in 1..n : RecordsV1(w)[i] = RecordV1(w[i])
  BY <1>1, <1>2, RecordsV1Type
<1>4. PICK L \in Seq(Nat) : L = Lengths(RecordsV1(w)) /\ Len(L) = n
  BY <1>3, LengthsType
<1>5. \A i \in 1..n : w[i] \in Window
  BY <1>1, <1>2
<1>6. ASSUME NEW i \in 1..n
      PROVE  L[i] = 3 + Len(Avec(w[i])) /\ Len(Avec(w[i])) \in Nat
  <2>1. L[i] = Len(RecordV1(w[i]))
    <3>1. PICK R : R = RecordsV1(w)
      OBVIOUS
    <3>2. R \in Seq(Seq(Plain(length))) /\ Len(R) = n /\ R[i] = RecordV1(w[i])
      BY <1>3, <3>1
    <3>3. Lengths(R)[i] = Len(R[i])
      BY <3>2, LengthsType
    <3> QED
      BY <1>4, <3>1, <3>2, <3>3
  <2> QED
    <3>1. w[i] \in Window
      BY <1>5
    <3>2. Len(RecordV1(w[i])) = 3 + Len(Avec(w[i]))
      BY <3>1, RecordV1Type
    <3>3. Avec(w[i]) \in Seq(Plain(length))
      BY <3>1, AvecType
    <3>4. Len(Avec(w[i])) \in Nat
      BY <3>3
    <3> QED
      BY <2>1, <3>2, <3>4
<1>7. PICK e : Sums(e, L)
  BY <1>4, EndsSums
<1>8. /\ e \in [0..n -> Nat] /\ e[0] = 0 /\ \A i \in 1..n : e[i] = e[i - 1] + L[i]
  BY <1>4, <1>7 DEF Sums
<1>9. PICK body : body = BodyV1(length)
  OBVIOUS
<1>10. /\ body \in Seq(Plain(length)) /\ Len(body) = 6 + e[n] /\ body[6] = Number(n)
       /\ \A i \in 1..n : body[6 + e[i - 1] + 3] = Number(Len(Avec(w[i])))
  <2>1. Sums(e, Lengths(RecordsV1(Windows(length))))
    BY <1>4, <1>7 DEF w
  <2>2. n = Len(Windows(length))
    BY <1>2 DEF w
  <2>3. /\ BodyV1(length) \in Seq(Plain(length))
        /\ Len(BodyV1(length)) = HeaderLenV1 + e[n]
        /\ BodyV1(length)[HeaderLenV1] = Number(n)
        /\ \A i \in 1..n :
             BodyV1(length)[HeaderLenV1 + e[i - 1] + 3] = Number(Len(Avec(Windows(length)[i])))
    BY <2>1, <2>2, LayoutV1
  <2> QED
    BY <1>9, <2>3 DEF w, HeaderLenV1
<1>11. PICK bytes : bytes = ToBytesV1(length)
  OBVIOUS
<1>12. Len(bytes) = Len(body) + 1 /\ \A j \in 1..Len(body) : bytes[j] = body[j]
  BY <1>9, <1>11, WholeV1
<1>13. PICK m \in Nat : m = e[n] /\ Len(body) = 6 + m /\ Len(bytes) = 7 + m
  <2>1. n \in 0..n
    OBVIOUS
  <2>2. e[n] \in Nat
    BY <1>8, <2>1
  <2>3. Len(body) = 6 + e[n]
    BY <1>10
  <2>4. Len(bytes) = Len(body) + 1
    BY <1>12
  <2> QED
    BY <2>2, <2>3, <2>4
<1>14. Read(bytes[6]) = n
  <2>1. 6 \in 1..Len(body)
    BY <1>13
  <2> QED
    BY <1>10, <1>12, <2>1, SMTT(30) DEF Read, Number
<1>15. \A i \in 1..n : e[i - 1] \in Nat /\ e[i] \in Nat /\ e[i] <= m
  <2> TAKE i \in 1..n
  <2>1. i - 1 \in 0..n /\ i \in 0..n /\ n \in 0..n /\ i <= n
    OBVIOUS
  <2>2. e[i] <= e[n]
    BY <1>4, <1>7, <2>1, SumsGrow
  <2> QED
    BY <1>8, <1>13, <2>1, <2>2
<1>16. ASSUME NEW i \in 1..n
       PROVE  Read(bytes[6 + e[i - 1] + 3]) = Len(Avec(w[i]))
  <2>1. PICK a \in Nat, l \in Nat : a = e[i - 1] /\ l = Len(Avec(w[i]))
    BY <1>6, <1>15
  <2>2. e[i] = a + (3 + l)
    BY <1>6, <1>8, <2>1
  <2>3. 6 + a + 3 \in 1..Len(body)
    <3>1. a + (3 + l) <= m
      BY <1>15, <2>2
    <3>2. 6 + a + 3 \in 1..6 + m
      BY <3>1
    <3> QED
      BY <1>13, <3>2
  <2>4. bytes[6 + a + 3] = Number(l)
    BY <1>10, <1>12, <2>1, <2>3
  <2> QED
    BY <2>1, <2>4 DEF Read, Number
<1> DEFINE g == [i \in 1..n |-> 6 + e[i - 1]]
<1>17. StartEquation(g, bytes, n)
  <2>1. ASSUME NEW i \in 1..n
        PROVE  g[i] = IF i = 1 THEN 6 ELSE g[i - 1] + 3 + Read(bytes[g[i - 1] + 3])
    <3>1. CASE i = 1
      BY <1>8, <3>1
    <3>2. CASE i # 1
      <4>1. PICK k \in 1..n : k = i - 1
        BY <3>2
      <4>2. g[i] = 6 + e[k] /\ g[k] = 6 + e[k - 1]
        BY <4>1
      <4>3. PICK a \in Nat, l \in Nat : a = e[k - 1] /\ l = Len(Avec(w[k]))
        BY <1>6, <1>15
      <4>4. e[k] = a + (3 + l)
        BY <1>6, <1>8, <4>3
      <4>5. Read(bytes[g[k] + 3]) = l
        BY <1>16, <4>2, <4>3
      <4>6. g[i] = 6 + a + 3 + l /\ g[k] = 6 + a
        <5>1. 6 + (a + (3 + l)) = 6 + a + 3 + l
          OBVIOUS
        <5> HIDE DEF g
        <5> QED
          BY <4>2, <4>3, <4>4, <5>1
      <4> HIDE DEF g
      <4> QED
        BY <3>2, <4>1, <4>5, <4>6
    <3> QED
      BY <3>1, <3>2
  <2>2. g = [i \in 1..n |-> g[i]]
    OBVIOUS
  <2> HIDE DEF g
  <2> QED
    BY <2>1, <2>2 DEF StartEquation, HeaderLenV1
<1> HIDE DEF g
<1> DEFINE f == CHOOSE h : StartEquation(h, bytes, n)
<1>18. StartEquation(f, bytes, n)
  BY <1>17
<1>19. SegmentsV1(bytes) = [i \in 1..n |-> SegmentAtV1(bytes, f[i])]
  BY <1>14 DEF SegmentsV1, StartEquation, HeaderLenV1, SegmentLenV1
<1> HIDE DEF f
<1>20. \A i \in 1..n : f[i] = 6 + e[i - 1]
  <2>1. RecordsTell(bytes, L, e, n)
    BY <1>6, <1>16 DEF HeaderLenV1, RecordsTell
  <2>2. \A i \in 1..n : f[i] = HeaderLenV1 + e[i - 1]
    BY <1>4, <1>7, <1>18, <2>1, StartsV1
  <2> QED
    BY <2>2 DEF HeaderLenV1
<1>21. SegmentsStart(SegmentsV1(bytes), bytes, e, n)
  BY <1>19, <1>20 DEF SegmentsStart, HeaderLenV1
<1>22. Sums(e, Lengths(RecordsV1(Windows(length))))
  BY <1>4, <1>7 DEF w
<1> QED
  BY <1>2, <1>11, <1>21, <1>22 DEF w

\* Segments that are the windows of the stream, each with its own parity.
PlacedV1(s, length) ==
  /\ DOMAIN s = 1..Len(Windows(length)) /\ Len(s) = Len(Windows(length)) /\ s # <<>>
  /\ \A i \in 1..Len(Windows(length)) :
       LET w == Windows(length)[i]
       IN  /\ s[i].offset = w.offset /\ s[i].len = w.len
           /\ s[i].start + s[i].avecLen <= Len(ToBytesV1(length))
           /\ SubSeq(ToBytesV1(length), s[i].start + 1, s[i].start + s[i].avecLen) = Avec(w)

LEMMA RecordsInV1 ==
  ASSUME NEW length \in Nat
  PROVE  PlacedV1(SegmentsV1(ToBytesV1(length)), length)
<1> DEFINE w == Windows(length)
<1>1. w \in Seq(Window) /\ w # <<>>
  BY WindowsType
<1>2. PICK e : /\ Sums(e, Lengths(RecordsV1(w)))
               /\ SegmentsStart(SegmentsV1(ToBytesV1(length)), ToBytesV1(length), e, Len(w))
  BY SegmentsAtV1
<1>3. PICK body : body = BodyV1(length)
  OBVIOUS
<1>4. /\ body \in Seq(Plain(length)) /\ Len(body) = 6 + e[Len(w)]
      /\ \A i \in 1..Len(w) : /\ e[i] = e[i - 1] + 3 + Len(Avec(w[i]))
                              /\ HoldsAt(body, 6 + e[i - 1], RecordV1(w[i]))
  BY <1>2, <1>3, LayoutV1 DEF HeaderLenV1
<1> HIDE DEF w
<1>5. PICK n \in Nat \ {0} : n = Len(w) /\ \A i \in 1..n : w[i] \in Window
  BY <1>1, EmptySeq
<1>6. PICK L : L = Lengths(RecordsV1(w)) /\ L \in Seq(Nat) /\ Len(L) = n
  <2>1. RecordsV1(w) \in Seq(Seq(Plain(length))) /\ Len(RecordsV1(w)) = n
    BY <1>1, <1>5, RecordsV1Type
  <2> QED
    BY <2>1, LengthsType
<1>7. e \in [0..n -> Nat] /\ Sums(e, L)
  BY <1>2, <1>6 DEF Sums
<1>8. PICK t : t = ToBytesV1(length)
  OBVIOUS
<1>9. /\ t \in Seq(CellsV1(length)) /\ Len(t) = Len(body) + 1
      /\ \A j \in 1..Len(body) : t[j] = body[j]
  BY <1>3, <1>8, WholeV1
<1>10. PICK m \in Nat : m = e[n] /\ Len(body) = 6 + m /\ Len(t) = 7 + m
  <2>1. e[n] \in Nat
    <3>1. n \in 0..n
      OBVIOUS
    <3> QED
      BY <1>7, <3>1
  <2> QED
    BY <1>4, <1>5, <1>9, <2>1
<1>11. PICK s : s = SegmentsV1(t)
  OBVIOUS
<1>12. s = [i \in 1..n |-> SegmentAtV1(t, 6 + e[i - 1])]
  BY <1>2, <1>5, <1>8, <1>11 DEF SegmentsStart, HeaderLenV1
<1>13. DOMAIN s = 1..n /\ Len(s) = n /\ s # <<>>
  BY <1>12
<1>14. ASSUME NEW i \in 1..n
       PROVE  /\ s[i].offset = w[i].offset /\ s[i].len = w[i].len
              /\ s[i].start + s[i].avecLen <= Len(t)
              /\ SubSeq(t, s[i].start + 1, s[i].start + s[i].avecLen) = Avec(w[i])
  <2>1. w[i] \in Window /\ w[i].offset \in Nat /\ w[i].len \in Nat
    BY <1>5 DEF Window
  <2>2. PICK a \in Seq(Plain(length)) : a = Avec(w[i])
    BY <2>1, AvecType
  <2>3. PICK l \in Nat : l = Len(a)
    OBVIOUS
  <2>4. PICK r : /\ r = RecordV1(w[i]) /\ Len(r) = 3 + l
                 /\ r[1] = Number(w[i].offset) /\ r[2] = Number(w[i].len) /\ r[3] = Number(l)
                 /\ \A k \in 1..l : r[3 + k] = a[k]
    BY <2>1, <2>2, <2>3, RecordV1Type
  <2>5. PICK x \in Nat, y \in Nat : x = e[i - 1] /\ y = e[i] /\ y = x + 3 + l /\ y <= m
    <3>1. i - 1 \in 0..n /\ i \in 0..n /\ n \in 0..n /\ i <= n
      OBVIOUS
    <3>2. e[i - 1] \in Nat /\ e[i] \in Nat
      BY <1>7, <3>1
    <3>3. e[i] <= e[n]
      BY <1>6, <1>7, <3>1, SumsGrow
    <3>4. e[i] = e[i - 1] + 3 + l
      BY <1>4, <1>5, <2>2, <2>3
    <3> QED
      BY <1>10, <3>2, <3>3, <3>4
  <2>6. \A k \in 1..3 + l : t[(6 + x) + k] = r[k]
    <3> TAKE k \in 1..3 + l
    <3>1. HoldsAt(body, 6 + x, r)
      BY <1>4, <1>5, <2>4, <2>5
    <3>2. body[(6 + x) + k] = r[k]
      BY <2>4, <3>1 DEF HoldsAt
    <3>3. (6 + x) + k \in 1..6 + m
      <4>1. (x + 3) + l <= m
        BY <2>5
      <4> QED
        BY <4>1
    <3> QED
      BY <1>9, <1>10, <3>2, <3>3
  <2>7. t[(6 + x) + 1] = r[1] /\ t[(6 + x) + 2] = r[2] /\ t[(6 + x) + 3] = r[3]
    <3>1. 1 \in 1..3 + l /\ 2 \in 1..3 + l /\ 3 \in 1..3 + l
      OBVIOUS
    <3> QED
      BY <2>6, <3>1
  <2>8. s[i] = SegmentAtV1(t, 6 + x)
    BY <1>12, <2>5
  <2>9. /\ s[i].offset = w[i].offset /\ s[i].len = w[i].len
        /\ s[i].start = (6 + x) + 3 /\ s[i].avecLen = l
    <3>1. /\ s[i].offset = Read(r[1]) /\ s[i].len = Read(r[2]) /\ s[i].avecLen = Read(r[3])
          /\ s[i].start = (6 + x) + 3
      BY <2>7, <2>8 DEF SegmentAtV1, SegmentLenV1
    <3>2. \A z : Read(Number(z)) = z
      BY DEF Read, Number
    <3> QED
      BY <2>4, <3>1, <3>2
  <2>10. PICK base \in Nat : base = (6 + x) + 3
    OBVIOUS
  <2>11. base + l <= Len(t)
    <3>1. (x + 3) + l <= m
      BY <2>5
    <3>2. base + l <= 7 + m
      BY <2>10, <3>1
    <3> QED
      BY <1>10, <3>2
  <2>12. \A k \in 1..l : t[base + k] = a[k]
    <3> TAKE k \in 1..l
    <3>1. 3 + k \in 1..3 + l /\ (6 + x) + (3 + k) = base + k
      BY <2>10
    <3>2. t[base + k] = r[3 + k]
      BY <2>6, <3>1
    <3> QED
      BY <2>4, <3>2
  <2>13. SubSeq(t, base + 1, base + l) = a
    <3>1. base + Len(a) <= Len(t)
      BY <2>3, <2>11
    <3>2. \A k \in 1..Len(a) : t[base + k] = a[k]
      BY <2>3, <2>12
    <3>3. SubSeq(t, base + 1, base + Len(a)) = a
      BY <1>9, <3>1, <3>2, SubSeqIs
    <3> QED
      BY <2>3, <3>3
  <2> QED
    BY <2>2, <2>9, <2>10, <2>11, <2>13
<1> QED
  BY <1>5, <1>8, <1>11, <1>13, <1>14 DEF PlacedV1, w

LEMMA InsideV1 ==
  ASSUME NEW length \in Nat
  PROVE  Inside(SegmentsV1(ToBytesV1(length)), Len(ToBytesV1(length)))
  BY RecordsInV1 DEF PlacedV1, Inside

\* What both readers of version 1 ask in the end.
Checksummed(bytes) == Len(bytes) > 6 /\ Last(bytes) = Hash(Front(bytes))

\* A sidecar that version 1 takes for whole is the one that was written: no other
\* last cell is a hash of what begins as a sidecar does.
LEMMA ChecksummedIsWhole ==
  ASSUME NEW length \in Nat, NEW bytes \in Seq(CellsOf(length)),
         VersionOf(bytes) = 1, Checksummed(bytes)
  PROVE  bytes = ToBytesV1(length)
<1>1. Len(bytes) > 6 /\ Last(bytes) = Hash(Front(bytes))
  BY DEF Checksummed
<1>2. bytes[1] = Magic
  BY DEF VersionOf
<1>3. PICK l \in Nat : Len(bytes) = l + 1 /\ DOMAIN bytes = 1..l + 1 /\ l >= 6
  <2>1. PICK k \in Nat : k = Len(bytes) /\ DOMAIN bytes = 1..k
    OBVIOUS
  <2>2. k - 1 \in Nat /\ k = (k - 1) + 1 /\ k - 1 >= 6
    BY <1>1, <2>1
  <2> QED
    BY <2>1, <2>2
<1>4. PICK front : front = Front(bytes)
  OBVIOUS
<1>5. front \in Seq(CellsOf(length)) /\ Len(front) = l /\ \A j \in 1..l : front[j] = bytes[j]
  <2>1. \A j \in 1..l : bytes[j] \in CellsOf(length)
    BY <1>3
  <2>2. front = SubSeq(bytes, 1, l)
    BY <1>3, <1>4 DEF Front
  <2>3. /\ front \in Seq(CellsOf(length)) /\ Len(front) = IF 1 <= l THEN l - 1 + 1 ELSE 0
        /\ \A j \in 1..l - 1 + 1 : front[j] = bytes[1 + j - 1]
    <3>1. 1 \in Int /\ l \in Int
      OBVIOUS
    <3> QED
      BY <2>1, <2>2, <3>1, SubSeqProperties
  <2>4. l - 1 + 1 = l /\ \A j \in 1..l : 1 + j - 1 = j
    OBVIOUS
  <2> QED
    BY <1>3, <2>3, <2>4
<1>6. bytes[l + 1] = Hash(front) /\ bytes[l + 1] \in CellsOf(length)
  BY <1>1, <1>3, <1>4 DEF Last
<1>7. front = BodyV1(length) \/ front = EncodeDirectory(length)
  <2>1. Hash(front)[1] = "hash" /\ Hash(front)[2] = front
    BY DEF Hash
  <2>2. Hash(front) \notin Plain(length)
    BY <2>1, PlainKinds
  <2>3. Hash(front) \notin Decay
    BY <2>1 DEF Decay, Number
  <2>4. Hash(front) = Hash(BodyV1(length)) \/ Hash(front) = Hash(EncodeDirectory(length))
    BY <1>6, <2>2, <2>3 DEF CellsOf, CellsV1, CellsV2
  <2> QED
    BY <2>4 DEF Hash
<1>8. front[1] = Magic
  BY <1>2, <1>3, <1>5
<1>9. front = BodyV1(length)
  <2>1. EncodeDirectory(length)[1] = Number(length)
    BY DirectoryType DEF DirectoryOf
  <2>2. Number(length) # Magic
    BY DEF Number, Magic
  <2> QED
    BY <1>7, <1>8, <2>1, <2>2
<1>10. bytes = ToBytesV1(length)
  <2>1. PICK t : t = ToBytesV1(length)
    OBVIOUS
  <2>2. /\ t \in Seq(CellsV1(length)) /\ Len(t) = l + 1 /\ t[l + 1] = Hash(front)
        /\ \A j \in 1..l : t[j] = front[j]
    BY <1>5, <1>9, <2>1, WholeV1
  <2>3. t = [j \in 1..l + 1 |-> t[j]] /\ bytes = [j \in 1..l + 1 |-> bytes[j]]
    BY <1>3, <2>2
  <2>4. \A j \in 1..l + 1 : t[j] = bytes[j]
    <3> TAKE j \in 1..l + 1
    <3>1. CASE j = l + 1
      BY <1>6, <2>2, <3>1
    <3>2. CASE j # l + 1
      <4>1. j \in 1..l
        BY <3>2
      <4> QED
        BY <1>5, <2>2, <4>1
    <3> QED
      BY <3>1, <3>2
  <2>5. t = bytes
    BY <2>3, <2>4
  <2> QED
    BY <2>1, <2>5
<1> QED
  BY <1>10

FoundEquation(f, bytes, n) ==
  f = [i \in 1..n |->
        IF i = 1 THEN FoundAt(bytes, HeaderLenV1)
        ELSE IF f[i - 1] = Refused THEN Refused
        ELSE FoundAt(bytes, f[i - 1].start + f[i - 1].avecLen)]

\* The records of a whole sidecar, each found where the parity before it ends.
Chained(s, bytes, n) ==
  /\ n \in Nat \ {0} /\ Read(bytes[HeaderLenV1]) = n
  /\ s = [i \in 1..n |-> s[i]]
  /\ s[1] = FoundAt(bytes, HeaderLenV1)
  /\ \A i \in 1..n : s[i] # Refused
  /\ \A i \in 1..n : i # 1 => s[i] = FoundAt(bytes, s[i - 1].start + s[i - 1].avecLen)

LEMMA ChainedV1 ==
  ASSUME NEW length \in Nat
  PROVE  \E n : Chained(SegmentsV1(ToBytesV1(length)), ToBytesV1(length), n)
<1> DEFINE w == Windows(length)
<1>1. w \in Seq(Window) /\ w # <<>>
  BY WindowsType
<1>2. PICK e : /\ Sums(e, Lengths(RecordsV1(w)))
               /\ SegmentsStart(SegmentsV1(ToBytesV1(length)), ToBytesV1(length), e, Len(w))
  BY SegmentsAtV1
<1>3. PICK body : body = BodyV1(length)
  OBVIOUS
<1>4. /\ body \in Seq(Plain(length)) /\ Len(body) = 6 + e[Len(w)] /\ body[6] = Number(Len(w))
      /\ \A i \in 1..Len(w) : /\ e[i] = e[i - 1] + 3 + Len(Avec(w[i]))
                              /\ body[6 + e[i - 1] + 3] = Number(Len(Avec(w[i])))
  BY <1>2, <1>3, LayoutV1 DEF HeaderLenV1
<1>5. PICK t : t = ToBytesV1(length)
  OBVIOUS
<1>6. PICK s : s = SegmentsV1(t) /\ \A i \in 1..Len(w) : s[i].len = w[i].len
  BY <1>5, RecordsInV1 DEF PlacedV1
<1> HIDE DEF w
<1>7. PICK n \in Nat \ {0} : n = Len(w) /\ \A i \in 1..n : w[i] \in Window
  BY <1>1, EmptySeq
<1>8. PICK L : L = Lengths(RecordsV1(w)) /\ L \in Seq(Nat) /\ Len(L) = n
  <2>1. RecordsV1(w) \in Seq(Seq(Plain(length))) /\ Len(RecordsV1(w)) = n
    BY <1>1, <1>7, RecordsV1Type
  <2> QED
    BY <2>1, LengthsType
<1>9. e \in [0..n -> Nat] /\ Sums(e, L) /\ e[0] = 0
  BY <1>2, <1>8 DEF Sums
<1>10. Len(t) = Len(body) + 1 /\ \A j \in 1..Len(body) : t[j] = body[j]
  BY <1>3, <1>5, WholeV1
<1>11. PICK m \in Nat : m = e[n] /\ Len(body) = 6 + m /\ Len(t) = 7 + m
  <2>1. e[n] \in Nat
    <3>1. n \in 0..n
      OBVIOUS
    <3> QED
      BY <1>9, <3>1
  <2> QED
    BY <1>4, <1>7, <1>10, <2>1
<1>12. s = [i \in 1..n |-> SegmentAtV1(t, 6 + e[i - 1])]
  BY <1>2, <1>5, <1>6, <1>7 DEF SegmentsStart, HeaderLenV1
<1>13. \A z : Read(Number(z)) = z
  BY DEF Read, Number
<1>14. ASSUME NEW i \in 1..n
       PROVE  /\ s[i] = FoundAt(t, 6 + e[i - 1]) /\ s[i] # Refused
              /\ s[i].start + s[i].avecLen = 6 + e[i]
  <2>1. PICK window \in Window : window = w[i] /\ window.len \in Nat
    BY <1>7 DEF Window
  <2>2. Len(Avec(window)) = AvecLenFor(window.len, ParityShards) /\ AvecLenFor(window.len, ParityShards) \in Nat
    <3>1. ParityShards \in Nat
      BY GridAssumption
    <3> QED
      BY <2>1, <3>1, AvecType, AvecLenType
  <2>3. PICK l \in Nat : l = Len(Avec(window))
    BY <2>2
  <2>4. PICK x \in Nat, y \in Nat : x = e[i - 1] /\ y = e[i] /\ y = x + 3 + l /\ y <= m
    <3>1. i - 1 \in 0..n /\ i \in 0..n /\ n \in 0..n /\ i <= n
      OBVIOUS
    <3>2. e[i - 1] \in Nat /\ e[i] \in Nat
      BY <1>9, <3>1
    <3>3. e[i] <= e[n]
      BY <1>8, <1>9, <3>1, SumsGrow
    <3>4. e[i] = e[i - 1] + 3 + l
      BY <1>4, <1>7, <2>1, <2>3
    <3> QED
      BY <1>11, <3>2, <3>3, <3>4
  <2>5. t[(6 + x) + 3] = Number(l)
    <3>1. (6 + x) + 3 \in 1..6 + m
      BY <2>4
    <3>2. body[6 + x + 3] = Number(l)
      BY <1>4, <1>7, <2>1, <2>3, <2>4
    <3> QED
      BY <1>10, <1>11, <3>1, <3>2
  <2>6. PICK segment : segment = SegmentAtV1(t, 6 + x)
    OBVIOUS
  <2>7. s[i] = segment
    BY <1>12, <2>4, <2>6
  <2>8. segment.avecLen = l /\ segment.start = (6 + x) + 3
    BY <1>13, <2>5, <2>6 DEF SegmentAtV1, SegmentLenV1
  <2>9. segment.len = window.len
    BY <1>6, <1>7, <2>1, <2>7
  <2>10. segment.avecLen <= AvecLenFor(segment.len, MaxParity)
    <3>1. AvecLenFor(window.len, ParityShards) <= AvecLenFor(window.len, MaxParity)
      BY <2>1, AvecLenGrows
    <3> QED
      BY <2>2, <2>3, <2>8, <2>9, <3>1
  <2>11. (6 + x) + 3 < Len(t) /\ segment.start + segment.avecLen < Len(t)
    <3>1. (6 + x) + 3 + l < 7 + m /\ (6 + x) + 3 < 7 + m
      BY <2>4
    <3> QED
      BY <1>11, <2>8, <3>1
  <2>12. FoundAt(t, 6 + x) = segment
    BY <2>6, <2>10, <2>11 DEF FoundAt, SegmentLenV1
  <2>13. segment # Refused
    <3>1. "is" \notin DOMAIN segment
      BY <2>6 DEF SegmentAtV1
    <3>2. "is" \in DOMAIN Refused
      BY DEF Refused
    <3> QED
      BY <3>1, <3>2
  <2>14. segment.start + segment.avecLen = 6 + y
    BY <2>4, <2>8
  <2> QED
    BY <2>4, <2>7, <2>12, <2>13, <2>14
<1>15. Read(t[6]) = n
  <2>1. 6 \in 1..Len(body)
    BY <1>11
  <2> QED
    BY <1>4, <1>7, <1>10, <1>13, <2>1
<1>16. s[1] = FoundAt(t, 6)
  <2>1. 1 \in 1..n /\ e[1 - 1] = 0 /\ 6 + 0 = 6
    BY <1>9
  <2> QED
    BY <1>14, <2>1
<1>17. ASSUME NEW i \in 1..n, i # 1
       PROVE  s[i] = FoundAt(t, s[i - 1].start + s[i - 1].avecLen)
  <2>1. PICK k \in 1..n : k = i - 1
    BY <1>17
  <2>2. s[k].start + s[k].avecLen = 6 + e[k]
    BY <1>14
  <2> QED
    BY <1>14, <2>1, <2>2
<1>18. s = [i \in 1..n |-> s[i]]
  BY <1>12
<1>19. Chained(s, t, n)
  BY <1>14, <1>15, <1>16, <1>17, <1>18 DEF Chained, HeaderLenV1
<1> QED
  BY <1>5, <1>6, <1>19

\* Then going from one to the next finds these and no others.
LEMMA ChainedIsFound ==
  ASSUME NEW s, NEW bytes, NEW n, Chained(s, bytes, n)
  PROVE  /\ FoundEquation(s, bytes, n)
         /\ \A f : FoundEquation(f, bytes, n) => f = s
<1>0. n \in Nat \ {0}
  BY DEF Chained
<1>1. /\ s = [i \in 1..n |-> s[i]] /\ s[1] = FoundAt(bytes, HeaderLenV1)
      /\ \A i \in 1..n : s[i] # Refused
      /\ \A i \in 1..n : i # 1 => s[i] = FoundAt(bytes, s[i - 1].start + s[i - 1].avecLen)
  BY DEF Chained
<1>2. FoundEquation(s, bytes, n)
  <2>1. ASSUME NEW i \in 1..n
        PROVE  s[i] = IF i = 1 THEN FoundAt(bytes, HeaderLenV1)
                      ELSE IF s[i - 1] = Refused THEN Refused
                      ELSE FoundAt(bytes, s[i - 1].start + s[i - 1].avecLen)
    <3>1. CASE i = 1
      BY <1>1, <3>1
    <3>2. CASE i # 1
      <4>1. i - 1 \in 1..n
        BY <1>0, <3>2
      <4> QED
        BY <1>1, <3>2, <4>1
    <3> QED
      BY <3>1, <3>2
  <2> QED
    BY <1>1, <2>1 DEF FoundEquation
<1>3. ASSUME NEW f, FoundEquation(f, bytes, n)
      PROVE  f = s
  <2>1. /\ f = [i \in 1..n |-> f[i]]
        /\ \A i \in 1..n : f[i] = IF i = 1 THEN FoundAt(bytes, HeaderLenV1)
                                  ELSE IF f[i - 1] = Refused THEN Refused
                                  ELSE FoundAt(bytes, f[i - 1].start + f[i - 1].avecLen)
    BY <1>3 DEF FoundEquation
  <2> DEFINE N == { k \in Nat : k + 1 <= n => f[k + 1] = s[k + 1] }
  <2>2. 0 \in N
    <3>1. 1 \in 1..n /\ 0 + 1 = 1
      BY <1>0
    <3>2. f[1] = s[1]
      BY <1>1, <2>1, <3>1
    <3> QED
      BY <3>1, <3>2
  <2>3. ASSUME NEW k \in Nat, k \in N
        PROVE  k + 1 \in N
    <3>1. SUFFICES ASSUME k + 2 <= n PROVE f[k + 2] = s[k + 2]
      BY <1>0
    <3>2. PICK j \in 1..n : j = k + 1
      BY <1>0, <3>1
    <3>3. PICK i \in 1..n : i = k + 2 /\ i # 1 /\ i - 1 = j
      BY <1>0, <3>1, <3>2
    <3>4. f[j] = s[j]
      BY <1>0, <2>3, <3>1, <3>2
    <3>5. f[i] = IF f[j] = Refused THEN Refused ELSE FoundAt(bytes, f[j].start + f[j].avecLen)
      BY <2>1, <3>3
    <3>6. s[i] = FoundAt(bytes, s[j].start + s[j].avecLen)
      BY <1>1, <3>3
    <3> QED
      BY <1>1, <3>3, <3>4, <3>5, <3>6
  <2>4. \A k \in Nat : k \in N
    <3> HIDE DEF N
    <3> QED
      BY <2>2, <2>3, Induction
  <2>5. ASSUME NEW i \in 1..n
        PROVE  f[i] = s[i]
    <3>1. PICK k \in Nat : k + 1 = i
      <4>1. i - 1 \in Nat /\ (i - 1) + 1 = i
        BY <1>0
      <4> QED
        BY <4>1
    <3>2. k \in N /\ k + 1 <= n
      BY <1>0, <2>4, <3>1
    <3> QED
      BY <3>1, <3>2
  <2> QED
    BY <1>1, <2>1, <2>5
<1> QED
  BY <1>2, <1>3

\* Whatever one of the two readers makes of version 1 is what was written, and
\* the one from disk makes of it what the one in memory does.
LEMMA ReadV1 ==
  ASSUME NEW length \in Nat, NEW bytes \in Seq(CellsOf(length)), VersionOf(bytes) = 1
  PROVE  /\ ParsedV1(bytes) # Refused => OpenedV1(bytes) = ParsedV1(bytes)
         /\ \A dir \in {ParsedV1(bytes), OpenedV1(bytes)} : dir # Refused =>
              /\ bytes = ToBytesV1(length) /\ Len(bytes) > 6
              /\ dir.segments = SegmentsV1(ToBytesV1(length))
<1> DEFINE f == CHOOSE g : FoundEquation(g, bytes, Read(bytes[HeaderLenV1]))
           n == Read(bytes[HeaderLenV1])
           s == SegmentsV1(bytes)
<1>1. OpenedV1(bytes) =
        IF /\ Len(bytes) > HeaderLenV1
           /\ n \in CountsV1(bytes)
           /\ f[n] # Refused
           /\ f[n].start + f[n].avecLen = Len(bytes) - 1
           /\ Last(bytes) = Hash(Front(bytes))
        THEN DirectoryV1(bytes, f)
        ELSE Refused
  BY DEF OpenedV1, FoundEquation
<1>2. ParsedV1(bytes) =
        IF /\ Len(bytes) > HeaderLenV1
           /\ Last(bytes) = Hash(Front(bytes))
           /\ n \in CountsV1(bytes)
           /\ Accounted(s, Len(bytes) - 1)
        THEN DirectoryV1(bytes, s)
        ELSE Refused
  BY DEF ParsedV1
<1> HIDE DEF f, n, s
<1>3. ASSUME Checksummed(bytes)
      PROVE  /\ bytes = ToBytesV1(length) /\ f = s /\ s[n] # Refused
             /\ n \in Nat /\ Last(s) = s[n]
  <2>1. bytes = ToBytesV1(length)
    BY <1>3, ChecksummedIsWhole
  <2>2. PICK k : Chained(s, bytes, k)
    BY <2>1, ChainedV1 DEF s
  <2>3. k = n /\ n \in Nat \ {0} /\ s = [i \in 1..n |-> s[i]] /\ \A i \in 1..n : s[i] # Refused
    BY <2>2 DEF Chained, n
  <2>4. FoundEquation(f, bytes, n)
    BY <2>2, <2>3, ChainedIsFound DEF f, n
  <2>5. f = s
    BY <2>2, <2>3, <2>4, ChainedIsFound
  <2>6. Len(s) = n /\ n \in 1..n
    BY <2>3
  <2> QED
    BY <2>1, <2>3, <2>5, <2>6 DEF Last
<1>4. \A x : DirectoryV1(bytes, x).segments = x
  BY DEF DirectoryV1
<1>5. ASSUME ParsedV1(bytes) # Refused
      PROVE  OpenedV1(bytes) = ParsedV1(bytes)
  <2>1. Checksummed(bytes)
    BY <1>2, <1>5 DEF Checksummed, HeaderLenV1
  <2>2. f = s /\ s[n] # Refused /\ Last(s) = s[n]
    BY <1>3, <2>1
  <2>3. s[n].start + s[n].avecLen = Len(bytes) - 1
    BY <1>2, <1>5, <2>2 DEF Accounted
  <2> QED
    BY <1>1, <1>2, <1>5, <2>2, <2>3
<1>6. ASSUME NEW dir \in {ParsedV1(bytes), OpenedV1(bytes)}, dir # Refused
      PROVE  /\ bytes = ToBytesV1(length) /\ Len(bytes) > 6
             /\ dir.segments = SegmentsV1(ToBytesV1(length))
  <2>1. Checksummed(bytes)
    BY <1>1, <1>2, <1>6 DEF Checksummed, HeaderLenV1
  <2>2. bytes = ToBytesV1(length) /\ f = s
    BY <1>3, <2>1
  <2>3. dir = DirectoryV1(bytes, s)
    BY <1>1, <1>2, <1>6, <2>2
  <2> QED
    BY <1>4, <2>1, <2>2, <2>3 DEF Checksummed, s
<1> QED
  BY <1>5, <1>6

LEMMA ReadInsideV1 ==
  ASSUME NEW length \in Nat, NEW bytes \in Seq(CellsOf(length)), VersionOf(bytes) = 1,
         NEW dir \in {ParsedV1(bytes), OpenedV1(bytes)}, dir # Refused
  PROVE  Inside(dir.segments, Len(bytes))
<1>1. bytes = ToBytesV1(length) /\ dir.segments = SegmentsV1(ToBytesV1(length))
  BY ReadV1
<1> QED
  BY <1>1, InsideV1

LEMMA ReadInside ==
  ASSUME NEW length \in Nat, NEW bytes \in Seq(CellsOf(length)),
         NEW dir \in {Opened(bytes), Parsed(bytes)}, dir # Refused
  PROVE  Inside(dir.segments, Len(bytes))
<1>1. CASE VersionOf(bytes) = 2 /\ Len(bytes) >= PrefixLen
  <2>1. dir \in {ParsedV2(bytes), OpenedV2(bytes)}
    BY <1>1 DEF Opened, Parsed
  <2>2. PICK n \in Nat : Usable(bytes, n) /\ dir = Decoded(bytes, n)
    BY <1>1, <2>1, FoundV2
  <2> QED
    BY <2>2, DecodedInside
<1>2. CASE ~(VersionOf(bytes) = 2 /\ Len(bytes) >= PrefixLen)
  <2>1. VersionOf(bytes) = 1 /\ dir \in {ParsedV1(bytes), OpenedV1(bytes)}
    BY <1>2 DEF Opened, Parsed
  <2> QED
    BY <2>1, ReadInsideV1
<1> QED
  BY <1>1, <1>2

LEMMA InvType == Inv => TypeOK
<1>1. SUFFICES ASSUME Inv PROVE TypeOK
  OBVIOUS
<1>2. /\ total \in TotalLens /\ version \in {1, 2} /\ damage \in 0..MaxDamage
      /\ data \in Seq(CellsOf(total)) /\ Len(data) <= Len(Written)
  BY <1>1 DEF Inv
<1>3. total \in Nat
  BY <1>2, TotalsAreNat
<1>4. \A i \in DOMAIN data : data[i][1] \in Kinds
  BY <1>2, CellKinds
<1>5. ASSUME NEW dir \in {Opened(data), Parsed(data)} \ {Refused}
      PROVE  /\ dir.segments # <<>>
             /\ \A i \in DOMAIN dir.segments :
                  dir.segments[i].start + dir.segments[i].avecLen <= Len(data)
  <2>1. Inside(dir.segments, Len(data))
    BY <1>2, <1>3, ReadInside
  <2> QED
    BY <2>1 DEF Inside
<1> QED
  BY <1>2, <1>4, <1>5 DEF TypeOK

\* However a sidecar rots or is cut short, the parity that either reader would go on
\* to read lies within what is left of it: what parse_v2_directory_fields and the
\* checksum of version 1 are for.
THEOREM TypeCorrect == Spec => []TypeOK
<1>1. Inv => TypeOK
  BY InvType
<1> QED
  BY InvAlways, <1>1, PTL

-----------------------------------------------------------------------------
(* The two readers.                                                        *)

LEMMA Agree == Inv => ReadersAgree
<1>1. SUFFICES ASSUME Inv, Parsed(data) # Refused
               PROVE  Opened(data) = Parsed(data)
  BY DEF ReadersAgree
<1>2. total \in Nat /\ data \in Seq(CellsOf(total))
  BY <1>1, TotalsAreNat DEF Inv
<1>3. CASE VersionOf(data) = 2 /\ Len(data) >= PrefixLen
  BY <1>1, <1>3, AgreeV2 DEF Parsed, Opened
<1>4. CASE ~(VersionOf(data) = 2 /\ Len(data) >= PrefixLen)
  <2>1. /\ VersionOf(data) = 1
        /\ Parsed(data) = ParsedV1(data) /\ Opened(data) = OpenedV1(data)
    BY <1>1, <1>4 DEF Parsed, Opened
  <2> QED
    BY <1>1, <1>2, <2>1, ReadV1
<1> QED
  BY <1>3, <1>4

\* The two readers agree, however the sidecar is damaged: what from_bytes parses,
\* AeroCorrectSidecarReader::open opens as the same directory.  Of version 2 that is
\* so of any bytes at all; of version 1, of what can become of a sidecar, for there
\* it takes the checksum to say that both go through the same records.
THEOREM ReadersAlwaysAgree == Spec => []ReadersAgree
<1>1. Inv => ReadersAgree
  BY Agree
<1> QED
  BY InvAlways, <1>1, PTL

-----------------------------------------------------------------------------
(* Two of three are enough.                                                *)

LEMMA TwoOfThree ==
  ASSUME NEW S \in SUBSET (1..DirectoryCopies), Cardinality(S) >= 2
  PROVE  (1 \in S \/ 2 \in S) /\ (1 \in S \/ 3 \in S) /\ (2 \in S \/ 3 \in S)
<1>1. \A x : S \subseteq {x} => FALSE
  <2>1. SUFFICES ASSUME NEW x, S \subseteq {x} PROVE FALSE
    OBVIOUS
  <2>2. IsFiniteSet({x}) /\ Cardinality({x}) = 1
    BY FS_Singleton
  <2>3. IsFiniteSet(S) /\ Cardinality(S) <= 1
    BY <2>1, <2>2, FS_Subset
  <2>4. Cardinality(S) \in Nat
    BY <2>3, FS_CardinalityType
  <2> QED
    BY <2>3, <2>4
<1>2. S \subseteq {1, 2, 3}
  BY DEF DirectoryCopies
<1> QED
  BY <1>1, <1>2

\* The directory, as it was written.
Right(dir, length, n) == \A b \in 1..DirLen(n) : dir[b] = EncodeDirectory(length)[b]

\* A copy that is intact is the directory: no other cell is a hash.
LEMMA IntactIsRight ==
  ASSUME NEW length \in Nat, NEW n \in Nat, n = Len(Windows(length)),
         NEW bytes \in Seq(CellsOf(length)), ParityStart(n) <= Len(bytes),
         \A j \in DOMAIN bytes : bytes[j] = ToBytes(length)[j] \/ bytes[j] \in Decay,
         NEW i \in 1..DirectoryCopies, Intact(bytes, n, i)
  PROVE  Right(Copy(bytes, n, i), length, n)
<1>1. PICK j : j = CopyBase(n, i) + DirLen(n) + 1
  OBVIOUS
<1>2. j \in DOMAIN bytes
  <2>1. CopyBase(n, i) \in Nat /\ DirLen(n) \in Nat /\ ParityStart(n) \in Nat
    BY CopyBases
  <2>2. CopyBase(n, i) + DirLen(n) + 1 <= ParityStart(n)
    BY CopyBases
  <2>3. PICK l \in Nat : l = Len(bytes) /\ DOMAIN bytes = 1..l
    OBVIOUS
  <2> QED
    BY <1>1, <2>1, <2>2, <2>3
<1>3. bytes[j] = Hash(Copy(bytes, n, i))
  BY <1>1 DEF Intact
<1>4. ToBytes(length)[j] = Hash(EncodeDirectory(length))
  BY <1>1, LayoutV2 DEF HasLayout
<1>5. bytes[j] \notin Decay
  BY <1>3 DEF Hash, Decay, Number
<1>6. Copy(bytes, n, i) = EncodeDirectory(length)
  BY <1>2, <1>3, <1>4, <1>5 DEF Hash
<1> QED
  BY <1>6 DEF Right

\* The copies S all say x at the place b.
AllSay(bytes, n, S, b, x) == \A i \in S : bytes[CopyBase(n, i) + b] = x

\* What two copies say at b, the vote says.
LEMMA VoteAt ==
  ASSUME NEW C, NEW bytes \in Seq(C), NEW n \in Nat, ParityStart(n) <= Len(bytes),
         NEW b \in 1..DirLen(n), NEW x,
         NEW S \in SUBSET (1..DirectoryCopies), Cardinality(S) >= 2,
         AllSay(bytes, n, S, b, x)
  PROVE  Vote(bytes, n)[b] = x
<1>1. 1 \in 1..DirectoryCopies /\ 2 \in 1..DirectoryCopies /\ 3 \in 1..DirectoryCopies
  BY DEF DirectoryCopies
<1>2. \A i \in 1..DirectoryCopies : Copy(bytes, n, i)[b] = bytes[CopyBase(n, i) + b]
  BY CopyType
<1>3. \A i \in S : Copy(bytes, n, i)[b] = x
  BY <1>2 DEF AllSay
<1>4. Vote(bytes, n)[b] =
        IF Copy(bytes, n, 2)[b] = Copy(bytes, n, 3)[b] THEN Copy(bytes, n, 2)[b]
        ELSE Copy(bytes, n, 1)[b]
  BY <1>1 DEF Vote
<1> QED
  BY <1>3, <1>4, TwoOfThree

\* The directory survives what DirectoryThere allows for.
LEMMA DirectoryHeals ==
  ASSUME NEW length \in Nat, NEW n \in Nat, n = Len(Windows(length)),
         NEW bytes \in Seq(CellsOf(length)), ParityStart(n) <= Len(bytes),
         \A j \in DOMAIN bytes : bytes[j] = ToBytes(length)[j] \/ bytes[j] \in Decay,
         \/ \E i \in 1..DirectoryCopies : \A b \in 1..DirLen(n) + 1 :
              bytes[CopyBase(n, i) + b] = ToBytes(length)[CopyBase(n, i) + b]
         \/ \A b \in 1..DirLen(n) :
              Cardinality({ i \in 1..DirectoryCopies :
                bytes[CopyBase(n, i) + b] = ToBytes(length)[CopyBase(n, i) + b] }) >= 2
  PROVE  Recovers(bytes, n) /\ Right(RecoveredDirectory(bytes, n), length, n)
<1> DEFINE intact == { i \in 1..DirectoryCopies : Intact(bytes, n, i) }
           dir    == EncodeDirectory(length)
           t      == ToBytes(length)
<1>1. DirLen(n) \in Nat /\ DirLen(n) >= 3
  BY DEF DirLen, DirFixedLen, DirPerSegLen
<1>2. \A i \in 1..DirectoryCopies :
        /\ \A b \in 1..DirLen(n) : t[CopyBase(n, i) + b] = dir[b]
        /\ t[CopyBase(n, i) + DirLen(n) + 1] = Hash(dir)
  BY LayoutV2 DEF HasLayout
<1>3. dir \in Seq(Plain(length)) /\ Len(dir) = DirLen(n) /\ dir[2] = Binding(Sha(length)) /\ dir[3] = Sha(length)
  BY DirectoryType DEF DirectoryOf
<1> HIDE DEF dir, t
<1>4. CASE intact # {}
  <2>1. intact \in SUBSET Nat
    BY DEF DirectoryCopies
  <2>2. PICK i \in intact : \A j \in intact : i <= j
    BY <1>4, <2>1, LeastElement
  <2>3. Min(intact) = i
    BY <2>1, <2>2, LeastIsMin
  <2>4. RecoveredDirectory(bytes, n) = Copy(bytes, n, i)
    BY <1>4, <2>3 DEF RecoveredDirectory
  <2>5. Right(Copy(bytes, n, i), length, n)
    BY <2>2, IntactIsRight
  <2> QED
    BY <2>2, <2>4, <2>5 DEF Recovers
<1>5. CASE intact = {}
  <2>1. ASSUME NEW i \in 1..DirectoryCopies,
               \A b \in 1..DirLen(n) + 1 : bytes[CopyBase(n, i) + b] = t[CopyBase(n, i) + b]
        PROVE  Intact(bytes, n, i)
    <3>1. PICK base \in Nat, d \in Nat : base = CopyBase(n, i) /\ d = DirLen(n)
      BY <1>1, CopyBases
    <3>2. bytes[base + (d + 1)] = t[base + (d + 1)]
      <4>1. d + 1 \in 1..d + 1
        OBVIOUS
      <4> QED
        BY <2>1, <3>1, <4>1
    <3>3. t[base + (d + 1)] = Hash(dir)
      <4>1. base + (d + 1) = base + d + 1
        OBVIOUS
      <4> QED
        BY <1>2, <3>1, <4>1
    <3>4. PICK c : c = Copy(bytes, n, i)
      OBVIOUS
    <3>5. /\ c \in Seq(CellsOf(length)) /\ Len(c) = d
          /\ \A b \in 1..d : c[b] = bytes[base + b]
      BY <3>1, <3>4, CopyType
    <3>6. \A b \in 1..d : bytes[base + b] = dir[b]
      <4> TAKE b \in 1..d
      <4>1. b \in 1..d + 1
        OBVIOUS
      <4>2. bytes[base + b] = t[base + b]
        BY <2>1, <3>1, <4>1
      <4> QED
        BY <1>2, <3>1, <4>2
    <3>7. c = dir
      <4>1. c = [b \in 1..d |-> c[b]] /\ dir = [b \in 1..d |-> dir[b]]
        BY <1>3, <3>1, <3>5
      <4> QED
        BY <3>5, <3>6, <4>1
    <3>8. base + (d + 1) = base + d + 1
      OBVIOUS
    <3> QED
      BY <3>1, <3>2, <3>3, <3>4, <3>7, <3>8 DEF Intact
  <2>2. \A b \in 1..DirLen(n) :
          Cardinality({ i \in 1..DirectoryCopies :
            bytes[CopyBase(n, i) + b] = t[CopyBase(n, i) + b] }) >= 2
    BY <1>5, <2>1 DEF t
  <2>3. ASSUME NEW b \in 1..DirLen(n)
        PROVE  Vote(bytes, n)[b] = dir[b]
    <3>1. PICK S : S = { i \in 1..DirectoryCopies :
                           bytes[CopyBase(n, i) + b] = t[CopyBase(n, i) + b] }
      OBVIOUS
    <3>2. S \in SUBSET (1..DirectoryCopies) /\ Cardinality(S) >= 2
      BY <2>2, <3>1
    <3>3. PICK x : x = dir[b]
      OBVIOUS
    <3>4. AllSay(bytes, n, S, b, x)
      BY <1>2, <3>1, <3>3 DEF AllSay
    <3>5. Vote(bytes, n)[b] = x
      BY <3>2, <3>4, VoteAt
    <3> QED
      BY <3>3, <3>5
  <2>4. SelfConsistent(Vote(bytes, n))
    <3>1. 2 \in 1..DirLen(n) /\ 3 \in 1..DirLen(n)
      BY <1>1
    <3>2. Vote(bytes, n)[2] = dir[2] /\ Vote(bytes, n)[3] = dir[3]
      BY <2>3, <3>1
    <3> QED
      BY <1>3, <3>2 DEF SelfConsistent
  <2>5. RecoveredDirectory(bytes, n) = Vote(bytes, n)
    BY <1>5 DEF RecoveredDirectory
  <2> QED
    BY <2>3, <2>4, <2>5 DEF Recovers, Right, dir
<1> QED
  BY <1>4, <1>5

-----------------------------------------------------------------------------
(* What the directory says of the windows, and where it says they are.     *)

\* Segments that are the windows of the stream, the i-th with its parity at e[i - 1].
Found(s, length, n, e) ==
  /\ DOMAIN s = 1..n /\ Len(s) = n
  /\ \A i \in 1..n :
       LET w == Windows(length)[i]
       IN  /\ s[i].offset = w.offset /\ s[i].len = w.len
           /\ s[i].avecLen = Len(Avec(w))
           /\ s[i].start = ParityStart(n) + e[i - 1]

SameGeometry(s, length, n) == \A i \in 1..n : s[i].geometry = Geometry(Windows(length)[i])

\* Where the parity of each window ends.
ParityEnds(length) == Ends(Lengths(Avecs(Windows(length))))

LEMMA ParityEndsType ==
  ASSUME NEW length \in Nat, NEW n, n = Len(Windows(length))
  PROVE  /\ n \in Nat \ {0} /\ DOMAIN Windows(length) = 1..n
         /\ Avecs(Windows(length)) \in Seq(Seq(Plain(length))) /\ Len(Avecs(Windows(length))) = n
         /\ Lengths(Avecs(Windows(length))) \in Seq(Nat) /\ Len(Lengths(Avecs(Windows(length)))) = n
         /\ Sums(ParityEnds(length), Lengths(Avecs(Windows(length))))
         /\ \A i \in 1..n : /\ Windows(length)[i] \in Window
                            /\ Avecs(Windows(length))[i] = Avec(Windows(length)[i])
                            /\ Lengths(Avecs(Windows(length)))[i] = Len(Avec(Windows(length)[i]))
                            /\ Len(Avec(Windows(length)[i])) \in Nat
<1> DEFINE w == Windows(length)
<1>1. w \in Seq(Window) /\ w # <<>>
  BY WindowsType
<1> HIDE DEF w
<1>2. n \in Nat \ {0} /\ DOMAIN w = 1..n /\ Len(w) = n
  BY <1>1, EmptySeq DEF w
<1>3. \A i \in 1..n : w[i] \in Window
  BY <1>1, <1>2
<1>4. /\ Avecs(w) \in Seq(Seq(Plain(length))) /\ Len(Avecs(w)) = n
      /\ \A i \in 1..n : Avecs(w)[i] = Avec(w[i])
  BY <1>1, <1>2, PiecesType
<1>5. Lengths(Avecs(w)) \in Seq(Nat) /\ Len(Lengths(Avecs(w))) = n
  BY <1>4, LengthsType
<1>6. \A i \in 1..n : Lengths(Avecs(w))[i] = Len(Avecs(w)[i])
  BY <1>4, LengthsType
<1>7. \A i \in 1..n : Len(Avec(w[i])) \in Nat
  <2> TAKE i \in 1..n
  <2>1. Avec(w[i]) \in Seq(Plain(length))
    BY <1>3, AvecType
  <2> QED
    BY <2>1
<1>8. Sums(Ends(Lengths(Avecs(w))), Lengths(Avecs(w)))
  BY <1>5, EndsSums
<1> QED
  BY <1>2, <1>3, <1>4, <1>5, <1>6, <1>7, <1>8 DEF ParityEnds, w

LEMMA RightSegments ==
  ASSUME NEW length \in Nat, NEW n, n = Len(Windows(length)),
         NEW dir, Right(dir, length, n)
  PROVE  /\ Found(Segments(dir, n), length, n, ParityEnds(length))
         /\ SameGeometry(Segments(dir, n), length, n)
<1>1. n \in Nat \ {0}
  BY ParityEndsType
<1>2. ASSUME NEW i \in 1..n
      PROVE  LET w    == Windows(length)[i]
                 base == 3 + 4 * (i - 1)
             IN  /\ dir[base + 1] = Number(w.offset) /\ dir[base + 2] = Number(w.len)
                 /\ dir[base + 3] = Number(Len(Avec(w))) /\ dir[base + 4] = Geometry(w)
  <2>1. PICK base \in Nat : base = 3 + 4 * (i - 1)
    BY <1>1
  <2>2. base + 4 <= 3 + 4 * n
    BY <1>1, <2>1
  <2>3. \A k \in 1..4 : base + k \in 1..DirLen(n)
    BY <1>1, <2>1, <2>2 DEF DirLen, DirFixedLen, DirPerSegLen
  <2>4. \A k \in 1..4 : dir[base + k] = EncodeDirectory(length)[base + k]
    BY <2>3 DEF Right
  <2>5. /\ dir[base + 1] = EncodeDirectory(length)[base + 1]
        /\ dir[base + 2] = EncodeDirectory(length)[base + 2]
        /\ dir[base + 3] = EncodeDirectory(length)[base + 3]
        /\ dir[base + 4] = EncodeDirectory(length)[base + 4]
    BY <2>4
  <2>6. DirectoryOf(EncodeDirectory(length), length, n)
    BY DirectoryType
  <2> QED
    BY <2>1, <2>5, <2>6 DEF DirectoryOf, DirFixedLen, DirPerSegLen
<1>3. SegLens(dir, n) = Lengths(Avecs(Windows(length)))
  <2>1. PICK l : l = Lengths(Avecs(Windows(length)))
    OBVIOUS
  <2>2. l \in Seq(Nat) /\ Len(l) = n /\ \A i \in 1..n : l[i] = Len(Avec(Windows(length)[i]))
    BY <2>1, ParityEndsType
  <2>3. l = [i \in 1..n |-> l[i]]
    BY <2>2
  <2>4. \A i \in 1..n : Read(dir[3 + 4 * (i - 1) + 3]) = l[i]
    <3> SUFFICES ASSUME NEW i \in 1..n PROVE Read(dir[3 + 4 * (i - 1) + 3]) = l[i]
      OBVIOUS
    <3>1. dir[3 + 4 * (i - 1) + 3] = Number(Len(Avec(Windows(length)[i])))
      BY <1>2
    <3>2. Read(dir[3 + 4 * (i - 1) + 3]) = Len(Avec(Windows(length)[i]))
      BY <3>1 DEF Read, Number
    <3> QED
      BY <2>2, <3>2
  <2>5. SegLens(dir, n) = [i \in 1..n |-> l[i]]
    BY <2>4 DEF SegLens, DirFixedLen, DirPerSegLen
  <2> QED
    BY <2>1, <2>3, <2>5
<1>4. PICK s : s = Segments(dir, n)
  OBVIOUS
<1>5. s = [i \in 1..n |-> SegmentAt(dir, n, i)]
  BY <1>4, SegmentsAt
<1>6. DOMAIN s = 1..n /\ Len(s) = n
  BY <1>1, <1>5
<1>7. ASSUME NEW i \in 1..n
      PROVE  LET w == Windows(length)[i]
             IN  /\ s[i].offset = w.offset /\ s[i].len = w.len
                 /\ s[i].avecLen = Len(Avec(w))
                 /\ s[i].start = ParityStart(n) + ParityEnds(length)[i - 1]
                 /\ s[i].geometry = Geometry(w)
  <2>1. PICK base : base = 3 + 4 * (i - 1)
    OBVIOUS
  <2>2. /\ s[i].offset = Read(dir[base + 1]) /\ s[i].len = Read(dir[base + 2])
        /\ s[i].avecLen = Read(dir[base + 3]) /\ s[i].geometry = dir[base + 4]
        /\ s[i].start = ParityStart(n) + Ends(SegLens(dir, n))[i - 1]
    BY <1>5, <2>1 DEF SegmentAt, DirFixedLen, DirPerSegLen
  <2>3. Ends(SegLens(dir, n))[i - 1] = ParityEnds(length)[i - 1]
    BY <1>3 DEF ParityEnds
  <2> QED
    BY <1>2, <2>1, <2>2, <2>3 DEF Read, Number
<1> QED
  BY <1>4, <1>6, <1>7 DEF Found, SameGeometry

LEMMA FoundAccounted ==
  ASSUME NEW length \in Nat, NEW n, n = Len(Windows(length)),
         NEW s, Found(s, length, n, ParityEnds(length))
  PROVE  Accounted(s, Len(ToBytes(length)))
<1>1. n \in Nat \ {0} /\ \A i \in 1..n : Windows(length)[i] \in Window
  BY ParityEndsType
<1>2. ASSUME NEW i \in 1..n
      PROVE  s[i].avecLen <= AvecLenFor(s[i].len, MaxParity)
  <2>1. PICK w \in Window : w = Windows(length)[i]
    BY <1>1
  <2>2. s[i].avecLen = Len(Avec(w)) /\ s[i].len = w.len
    BY <2>1 DEF Found
  <2>3. Len(Avec(w)) = AvecLenFor(w.len, ParityShards)
    BY AvecType
  <2>4. w.len \in Nat
    BY DEF Window
  <2> QED
    BY <2>2, <2>3, <2>4, AvecLenGrows
<1>3. PICK p \in Nat, l \in Seq(Nat) :
        p = ParityStart(n) /\ l = Lengths(Avecs(Windows(length)))
  <2>1. ParityStart(n) \in Nat
    BY <1>1, CopyBases
  <2> QED
    BY <2>1, ParityEndsType
<1> DEFINE e == ParityEnds(length)
<1> HIDE DEF e
<1>4. /\ e \in [0..n -> Nat] /\ \A i \in 1..n : e[i] = e[i - 1] + l[i]
      /\ \A i \in 1..n : l[i] = Len(Avec(Windows(length)[i])) /\ l[i] \in Nat
  <2>1. Sums(e, l) /\ Len(l) = n
    BY <1>3, ParityEndsType DEF e
  <2>2. \A i \in 1..n : l[i] = Len(Avec(Windows(length)[i])) /\ l[i] \in Nat
    BY <1>3, ParityEndsType
  <2> QED
    BY <2>1, <2>2 DEF Sums
<1>5. Len(Parity(length)) = e[n]
  <2>1. Laid(Parity(length), Plain(length), Avecs(Windows(length)), e)
    BY <1>3, ParityEndsType, ParityType DEF e
  <2>2. Len(Avecs(Windows(length))) = n
    BY ParityEndsType
  <2> QED
    BY <2>1, <2>2 DEF Laid
<1>6. Len(ToBytes(length)) = p + e[n]
  BY <1>3, <1>5, LayoutV2 DEF HasLayout
<1>7. Last(s).start + Last(s).avecLen = p + e[n]
  <2>1. Last(s) = s[n] /\ n \in 1..n
    BY <1>1 DEF Found, Last
  <2>2. PICK x \in Nat, y \in Nat : x = e[n - 1] /\ y = l[n]
    <3>1. n - 1 \in 0..n
      BY <1>1
    <3> QED
      BY <1>4, <2>1, <3>1
  <2>3. e[n] = x + y
    BY <1>4, <2>1, <2>2
  <2>4. s[n].start = p + x /\ s[n].avecLen = y
    BY <1>3, <1>4, <2>1, <2>2 DEF Found, e
  <2> QED
    BY <2>1, <2>3, <2>4
<1>8. DOMAIN s = 1..n
  BY DEF Found
<1> QED
  BY <1>2, <1>6, <1>7, <1>8 DEF Accounted

LEMMA FoundTiles ==
  ASSUME NEW length \in Nat, NEW n, n = Len(Windows(length)),
         NEW s, Found(s, length, n, ParityEnds(length))
  PROVE  Tiles(s, length)
<1>1. n \in Nat \ {0}
  BY ParityEndsType
<1>2. Windows(length) \in Seq(Window)
  BY WindowsType
<1>3. PICK l \in Seq(Nat) : /\ l = Lens(Windows(length)) /\ Len(l) = n
                            /\ \A i \in 1..n : l[i] = Windows(length)[i].len
  BY <1>2, LensType
<1>4. DOMAIN s = 1..n /\ Len(s) = n
      /\ \A i \in 1..n : s[i].len = l[i] /\ s[i].offset = Windows(length)[i].offset
  BY <1>3 DEF Found
<1>5. [i \in DOMAIN s |-> s[i].len] = l
  <2>1. l = [i \in 1..n |-> l[i]]
    BY <1>3
  <2> QED
    BY <1>4, <2>1
<1>6. PICK e : e = Ends(l) /\ Sums(e, l)
  BY EndsSums
<1>7. /\ \A i \in 1..n : Windows(length)[i].offset = e[i - 1]
      /\ e[n] = length
  BY <1>3, <1>6, WindowsTile
<1> QED
  BY <1>4, <1>5, <1>6, <1>7 DEF Tiles

\* The parity of a window is where the directory says.
LEMMA FoundParity ==
  ASSUME NEW length \in Nat, NEW n, n = Len(Windows(length)),
         NEW s, Found(s, length, n, ParityEnds(length)), NEW i \in 1..n
  PROVE  SubSeq(ToBytes(length), s[i].start + 1, s[i].start + s[i].avecLen)
           = Avec(Windows(length)[i])
<1>1. n \in Nat \ {0}
  BY ParityEndsType
<1>2. PICK w \in Window : w = Windows(length)[i]
  BY ParityEndsType
<1>3. PICK a \in Seq(Plain(length)), m \in Nat : a = Avec(w) /\ m = Len(a)
  BY AvecType
<1> DEFINE e == ParityEnds(length)
<1>4. PICK l \in Seq(Nat) : Len(l) = n /\ Sums(e, l) /\ l[i] = m
  BY <1>2, <1>3, ParityEndsType
<1> HIDE DEF e
<1>5. PICK q : q = Parity(length) /\ q \in Seq(Plain(length)) /\ Len(q) = e[n]
               /\ \A k \in 1..m : q[e[i - 1] + k] = a[k]
  <2>1. Laid(Parity(length), Plain(length), Avecs(Windows(length)), e)
    BY ParityEndsType, ParityType DEF e
  <2>2. Len(Avecs(Windows(length))) = n /\ Avecs(Windows(length))[i] = a
    BY <1>2, <1>3, ParityEndsType
  <2>3. \A k \in 1..Len(Avecs(Windows(length))[i]) :
          Parity(length)[e[i - 1] + k] = Avecs(Windows(length))[i][k]
    BY <2>1, <2>2 DEF Laid
  <2> QED
    BY <1>3, <2>1, <2>2, <2>3 DEF Laid
<1>6. PICK x \in Nat, y \in Nat : x = e[i - 1] /\ y = e[n] /\ x + m <= y
  <2>1. e \in [0..n -> Nat] /\ e[i] = e[i - 1] + l[i]
    BY <1>4 DEF Sums
  <2>2. i - 1 \in 0..n /\ i \in 0..n /\ n \in 0..n /\ i <= n
    BY <1>1
  <2>3. e[i] <= e[n]
    BY <1>4, <2>2, SumsGrow
  <2> QED
    BY <1>4, <2>1, <2>2, <2>3
<1> DEFINE t == ToBytes(length)
           S == CellsV2(length)
<1>7. PICK p \in Nat : /\ t \in Seq(S) /\ p = ParityStart(n)
                       /\ Len(t) = p + y /\ \A b \in 1..y : t[p + b] = q[b]
  <2>1. ParityStart(n) \in Nat
    BY <1>1, CopyBases
  <2>2. HasLayout(t, S, n, EncodeDirectory(length), q)
    BY <1>5, LayoutV2
  <2>3. t \in Seq(S) /\ Len(t) = ParityStart(n) + Len(q)
        /\ \A b \in 1..Len(q) : t[ParityStart(n) + b] = q[b]
    BY <2>2 DEF HasLayout
  <2> HIDE DEF t, S
  <2>4. Len(q) = y
    BY <1>5, <1>6
  <2> QED
    BY <2>1, <2>3, <2>4
<1> HIDE DEF t, S
<1>8. s[i].start = p + x /\ s[i].avecLen = m
  BY <1>2, <1>3, <1>6, <1>7 DEF Found, e
<1>9. ASSUME NEW k \in 1..m
      PROVE  t[(p + x) + k] = a[k]
  <2>1. PICK b \in Nat : b = x + k /\ b \in 1..y
    BY <1>6, SMTT(30)
  <2>2. t[p + b] = q[b]
    BY <1>7, <2>1
  <2>3. q[x + k] = a[k]
    BY <1>5, <1>6
  <2>4. (p + x) + k = p + b
    BY <2>1
  <2> QED
    BY <2>1, <2>2, <2>3, <2>4
<1>10. PICK base \in Nat : base = p + x
  OBVIOUS
<1>11. SubSeq(t, base + 1, base + Len(a)) = a
  <2>1. base + Len(a) <= Len(t)
    <3>1. Len(a) = m /\ Len(t) = p + y
      BY <1>3, <1>7
    <3>2. base + m <= p + y
      <4>1. x + m <= y
        BY <1>6
      <4>2. base = p + x
        BY <1>10
      <4> QED
        BY <4>1, <4>2
    <3> QED
      BY <3>1, <3>2
  <2>2. \A k \in 1..Len(a) : t[base + k] = a[k]
    BY <1>3, <1>9, <1>10
  <2>3. t \in Seq(S) /\ a \in Seq(Plain(length))
    BY <1>7
  <2> QED
    BY <2>1, <2>2, <2>3, SubSeqIs
<1> QED
  BY <1>2, <1>3, <1>7, <1>8, <1>10, <1>11 DEF t

-----------------------------------------------------------------------------
(* What heals.                                                             *)

\* The copies of the directory take no more than a reader will look at.  The writer
\* does not see to that.
DirectoryFits(length) ==
  DirectoryCopies * (DirLen(Len(Windows(length))) + 1) <= MaxDirectories

\* The count that is tried first, if two slots have it.
LEMMA LikelyIs ==
  ASSUME NEW C, NEW bytes \in Seq(C), Len(bytes) >= PrefixLen, NEW x,
         NEW S \in SUBSET (1..DirectoryCopies), Cardinality(S) >= 2,
         \A i \in S : bytes[2 + i] = x
  PROVE  Likely(bytes) = x
<1>1. \A i \in 1..DirectoryCopies : Slots(bytes)[i] = bytes[2 + i]
  BY SlotsType
<1>2. \A i \in S : Slots(bytes)[i] = x
  BY <1>1
<1> QED
  BY <1>2, TwoOfThree DEF Likely

\* The count is the first that is tried, and both readers stop at it.
LEMMA FirstIsRead ==
  ASSUME NEW bytes, NEW n, Likely(bytes) = Number(n),
         Usable(bytes, n), Decoded(bytes, n) # Refused
  PROVE  ParsedV2(bytes) = Decoded(bytes, n) /\ OpenedV2(bytes) = Decoded(bytes, n)
<1>1. PICK m \in Nat \ {0} : Len(CandidateCounts(bytes)) = m /\ CandidateCounts(bytes)[1] = Number(n)
  BY CountsType
<1>2. UsableAt(bytes) \in SUBSET Nat /\ \A i \in UsableAt(bytes) : 1 <= i
  BY <1>1 DEF UsableAt
<1>3. Read(CandidateCounts(bytes)[1]) = n
  BY <1>1 DEF Read, Number
<1>4. 1 \in UsableAt(bytes)
  BY <1>1, <1>3 DEF UsableAt
<1>5. Min(UsableAt(bytes)) = 1
  BY <1>2, <1>4, LeastIsMin
<1>6. ParsedV2(bytes) = Decoded(bytes, n)
  BY <1>3, <1>4, <1>5, ParsedFirst
<1> QED
  BY <1>6, AgreeV2

\* The directory of a sidecar that heals, if it is read with the right count.
LEMMA GoodDirectory ==
  ASSUME Inv, FrameThere, DirectoryFits(total)
  PROVE  /\ Usable(data, Count) /\ Decoded(data, Count) # Refused
         /\ Accepted(Decoded(data, Count), total) /\ Exact(Decoded(data, Count))
         /\ Len(data) >= PrefixLen /\ VersionOf(data) = 2
<1> DEFINE n == Count
           t == ToBytes(total)
<1>1. total \in Nat /\ data \in Seq(CellsOf(total)) /\ version = 2
  BY TotalsAreNat DEF Inv, FrameThere
<1>2. Written = t
  BY <1>1, WrittenType DEF Inv
<1>3. n = Len(Windows(total)) /\ n \in Nat \ {0}
  BY <1>1, ParityEndsType DEF Count
<1>4. Len(data) = Len(t) /\ \A j \in DOMAIN data : data[j] = t[j] \/ data[j] \in Decay
  BY <1>2 DEF Inv, FrameThere
<1>5. PICK p \in Nat, m \in Nat : p = ParityStart(n) /\ Len(t) = p + m /\ PrefixLen <= p
  <2>1. ParityStart(n) \in Nat /\ DirLen(n) \in Nat
    BY <1>3, CopyBases
  <2>2. PrefixLen <= ParityStart(n)
    BY <2>1 DEF ParityStart, PrefixLen, DirectoryCopies
  <2>3. Parity(total) \in Seq(Plain(total))
    BY <1>1, ParityIsSeq
  <2>4. Len(t) = ParityStart(n) + Len(Parity(total)) /\ Len(Parity(total)) \in Nat
    BY <1>1, <1>3, <2>3, LayoutV2 DEF HasLayout
  <2> QED
    BY <2>1, <2>2, <2>4
<1>6. ParityStart(n) <= Len(data) /\ Len(data) >= PrefixLen
  <2>1. PrefixLen \in Nat
    BY DEF PrefixLen, DirectoryCopies
  <2> QED
    BY <1>4, <1>5, <2>1
<1>7. Fits(n, Len(data))
  BY <1>3, <1>6 DEF Fits, DirectoryFits
<1>8. \/ \E i \in 1..DirectoryCopies : \A b \in 1..DirLen(n) + 1 :
           data[CopyBase(n, i) + b] = t[CopyBase(n, i) + b]
      \/ \A b \in 1..DirLen(n) :
           Cardinality({ i \in 1..DirectoryCopies :
             data[CopyBase(n, i) + b] = t[CopyBase(n, i) + b] }) >= 2
  BY <1>2 DEF FrameThere, DirectoryThere, Unharmed
<1>9. Recovers(data, n) /\ Right(RecoveredDirectory(data, n), total, n)
  BY <1>1, <1>3, <1>4, <1>6, <1>8, DirectoryHeals
<1> HIDE DEF n, t
<1>10. PICK s : s = Segments(RecoveredDirectory(data, n), n)
  OBVIOUS
<1>11. Found(s, total, n, ParityEnds(total)) /\ SameGeometry(s, total, n)
  BY <1>1, <1>3, <1>9, <1>10, RightSegments
<1>12. Accounted(s, Len(data))
  BY <1>1, <1>3, <1>4, <1>11, FoundAccounted DEF t
<1>13. PICK dir : dir = Decoded(data, n)
  OBVIOUS
<1>14. /\ dir # Refused /\ dir.segments = s
       /\ dir.total = total /\ dir.binding = Binding(Sha(total)) /\ dir.sha = Sha(total)
  <2>1. DirectoryOf(EncodeDirectory(total), total, n)
    BY <1>1, <1>3, DirectoryType
  <2>2. 1 \in 1..DirLen(n) /\ 2 \in 1..DirLen(n) /\ 3 \in 1..DirLen(n)
    BY <1>3 DEF DirLen, DirFixedLen, DirPerSegLen
  <2>3. /\ RecoveredDirectory(data, n)[1] = Number(total)
        /\ RecoveredDirectory(data, n)[2] = Binding(Sha(total))
        /\ RecoveredDirectory(data, n)[3] = Sha(total)
    BY <1>9, <2>1, <2>2 DEF Right, DirectoryOf
  <2>4. dir = [is |-> "directory", total |-> Read(RecoveredDirectory(data, n)[1]),
               binding |-> RecoveredDirectory(data, n)[2], sha |-> RecoveredDirectory(data, n)[3],
               segments |-> s]
    BY <1>10, <1>12, <1>13 DEF Decoded
  <2>5. Read(Number(total)) = total
    BY DEF Read, Number
  <2>6. dir # Refused
    <3>1. dir.is = "directory" /\ Refused.is = "refused"
      BY <2>4 DEF Refused
    <3> QED
      BY <3>1
  <2> QED
    BY <2>3, <2>4, <2>5, <2>6
<1>15. VersionOf(data) = 2
  <2>1. Len(data) >= 2
    BY <1>1, <1>6 DEF PrefixLen, DirectoryCopies
  <2> QED
    BY <2>1 DEF VersionOf, FrameThere, Read, Number
<1>16. Usable(data, n)
  BY <1>7, <1>9 DEF Usable
<1>17. Accepted(dir, total)
  <2>1. Tiles(s, total)
    BY <1>1, <1>3, <1>11, FoundTiles
  <2> QED
    BY <1>14, <2>1 DEF Accepted
<1>18. /\ DOMAIN s = 1..n /\ Len(s) = n
       /\ \A i \in 1..n : s[i].offset = Windows(total)[i].offset /\ s[i].len = Windows(total)[i].len
  BY <1>11 DEF Found
<1>19. Placed(dir)
  <2>1. \A i \in 1..n :
          SubSeq(t, s[i].start + 1, s[i].start + s[i].avecLen) = Avec(Windows(total)[i])
    BY <1>1, <1>3, <1>11, FoundParity DEF t
  <2> QED
    BY <1>2, <1>14, <1>18, <2>1 DEF Placed, n
<1>20. Exact(dir)
  BY <1>11, <1>14, <1>19 DEF Exact, SameGeometry, n
<1> QED
  BY <1>6, <1>13, <1>14, <1>15, <1>16, <1>17, <1>20 DEF n

LEMMA HealedDirectory ==
  ASSUME Inv, FrameThere, Cardinality(SlotsRight) >= 2, DirectoryFits(total)
  PROVE  \E dir : /\ Parsed(data) = dir /\ Opened(data) = dir
                  /\ Accepted(dir, total) /\ Exact(dir)
<1>1. PICK n, dir : n = Count /\ dir = Decoded(data, n)
  OBVIOUS
<1>2. /\ Usable(data, n) /\ dir # Refused /\ Accepted(dir, total) /\ Exact(dir)
      /\ Len(data) >= PrefixLen /\ VersionOf(data) = 2
  BY <1>1, GoodDirectory
<1>3. Likely(data) = Number(n)
  <2>1. SlotsRight \in SUBSET (1..DirectoryCopies) /\ \A i \in SlotsRight : data[2 + i] = Number(n)
    BY <1>1 DEF SlotsRight
  <2>2. data \in Seq(CellsOf(total))
    BY DEF Inv
  <2> QED
    BY <1>2, <2>1, <2>2, LikelyIs
<1>4. ParsedV2(data) = dir /\ OpenedV2(data) = dir
  BY <1>1, <1>2, <1>3, FirstIsRead
<1>5. Parsed(data) = dir /\ Opened(data) = dir
  BY <1>2, <1>4 DEF Parsed, Opened
<1> QED
  BY <1>2, <1>5

\* The point of writing the locator three times over: whatever rots, of a stream of
\* any length, as long as two slots have the count, and one copy of the directory is
\* whole or two say each of its fields, both readers give the directory as to_bytes
\* wrote it, and the callers accept it.  It has to be one that V2Layout::for_count
\* will look at, which to_bytes does not check.
THEOREM HealsAlways == Spec => [](DirectoryFits(total) => HealsWithinBudget)
<1>1. Inv => (DirectoryFits(total) => HealsWithinBudget)
  <2>1. SUFFICES ASSUME Inv, DirectoryFits(total), FrameThere, Cardinality(SlotsRight) >= 2,
                        NEW dir \in {Opened(data), Parsed(data)}
                 PROVE  Accepted(dir, total) /\ Exact(dir)
    BY DEF HealsWithinBudget
  <2>2. PICK d : Parsed(data) = d /\ Opened(data) = d /\ Accepted(d, total) /\ Exact(d)
    BY <2>1, HealedDirectory
  <2> QED
    BY <2>2
<1> QED
  BY InvAlways, <1>1, PTL

-----------------------------------------------------------------------------
(* What so much damage can have done, and no more.                         *)

Damaged == { j \in DOMAIN data : data[j] # Written[j] }

\* A number has gone up by one for each damage at most.  What is no number has become none.
Near(cell, was, d) ==
  \/ cell = was
  \/ cell[1] = "junk"
  \/ \E k, m \in Nat : was = Number(k) /\ cell = Number(m) /\ m <= k + d

Spent == IF Len(data) < Len(Written) THEN 2 ELSE 0

Wear ==
  /\ \A j \in DOMAIN data : Near(data[j], Written[j], damage)
  /\ IsFiniteSet(Damaged) /\ Cardinality(Damaged) + Spent <= damage

LEMMA NumberCells ==
  ASSUME NEW length, NEW c \in CellsOf(length), c[1] = "number"
  PROVE  c[2] \in Nat /\ c = Number(c[2])
<1>1. c \in { Number(n) : n \in Nat }
  BY DEF CellsOf, CellsV1, CellsV2, Decay, Plain, Hash, Number, Magic, Zeros, Sha, Binding
<1> QED
  BY <1>1 DEF Number

LEMMA RottedNear ==
  ASSUME NEW length, NEW was \in CellsOf(length), NEW cell \in CellsOf(length), NEW d \in Nat,
         Near(cell, was, d), NEW i, NEW next \in Rotted(i, cell)
  PROVE  Near(next, was, d + 1)
<1>1. CASE next = <<"junk", i>>
  BY <1>1 DEF Near
<1>2. CASE next # <<"junk", i>>
  <2>1. cell[1] = "number"
    BY <1>2 DEF Rotted
  <2>2. PICK a \in Nat : cell = Number(a)
    BY <2>1, NumberCells
  <2>3. PICK b \in Nat : next = Number(b) /\ b <= a + 1
    BY <1>2, <2>1, <2>2 DEF Rotted, Number
  <2>4. PICK k \in Nat : was = Number(k) /\ a <= k + d
    <3>1. CASE cell = was
      <4>1. was = Number(a) /\ a <= a + d
        BY <2>2, <3>1
      <4> QED
        BY <4>1
    <3>2. CASE cell # was
      <4>1. PICK k \in Nat, m \in Nat : was = Number(k) /\ cell = Number(m) /\ m <= k + d
        BY <2>1, <3>2 DEF Near
      <4>2. m = a
        BY <2>2, <4>1 DEF Number
      <4> QED
        BY <4>1, <4>2
    <3> QED
      BY <3>1, <3>2
  <2>5. b <= k + (d + 1)
    BY <2>3, <2>4
  <2> QED
    BY <2>3, <2>4, <2>5 DEF Near
<1> QED
  BY <1>1, <1>2

LEMMA WearInit == Init => Wear
<1>1. SUFFICES ASSUME Init PROVE Wear
  OBVIOUS
<1>2. data = Written /\ damage = 0
  BY <1>1 DEF Init
<1>3. Damaged = {}
  BY <1>2 DEF Damaged
<1>4. Len(data) \in Nat
  BY <1>1, InvInit DEF Inv
<1>5. Spent = 0
  BY <1>2, <1>4 DEF Spent
<1>6. IsFiniteSet(Damaged) /\ Cardinality(Damaged) = 0
  BY <1>3, FS_EmptySet
<1> QED
  BY <1>2, <1>5, <1>6 DEF Wear, Near

LEMMA WearNext ==
  ASSUME Inv, Wear, [Next]_vars
  PROVE  Wear'
<1>1. /\ data \in Seq(CellsOf(total)) /\ damage \in Nat
      /\ Written \in Seq(CellsOf(total)) /\ Len(data) <= Len(Written)
  BY WrittenType, BoundAssumption DEF Inv
<1>2. /\ \A j \in DOMAIN data : Near(data[j], Written[j], damage)
      /\ IsFiniteSet(Damaged) /\ Cardinality(Damaged) + Spent <= damage
  BY DEF Wear
<1>3. Cardinality(Damaged) \in Nat /\ Spent \in {0, 2}
  BY <1>2, FS_CardinalityType DEF Spent
<1>4. PICK l \in Nat, m \in Nat : l = Len(data) /\ DOMAIN data = 1..l /\ m = Len(Written)
                                  /\ DOMAIN Written = 1..m /\ l <= m
  BY <1>1
<1>5. CASE Rot
  <2>1. PICK i \in DOMAIN data : \E cell \in Rotted(i, data[i]) : data' = [data EXCEPT ![i] = cell]
    BY <1>5 DEF Rot
  <2>2. PICK cell \in Rotted(i, data[i]) : data' = [data EXCEPT ![i] = cell]
    BY <2>1
  <2>3. Written' = Written /\ damage' = damage + 1
    BY <1>5 DEF Rot, Written
  <2>4. DOMAIN data' = 1..l /\ Len(data') = l
    BY <1>1, <1>4, <2>2
  <2>5. \A j \in 1..l : data'[j] = IF j = i THEN cell ELSE data[j]
    BY <1>4, <2>2
  <2>6. ASSUME NEW j \in 1..l
        PROVE  Near(data'[j], Written[j], damage + 1)
    <3>1. data[j] \in CellsOf(total) /\ Written[j] \in CellsOf(total)
      <4>1. j \in 1..m
        BY <1>4
      <4> QED
        BY <1>1, <1>4, <4>1
    <3>2. Near(data[j], Written[j], damage)
      BY <1>2, <1>4
    <3>3. CASE j = i
      BY <1>1, <2>5, <3>1, <3>2, <3>3, RottedNear
    <3>4. CASE j # i
      <4>1. data'[j] = data[j]
        BY <2>5, <3>4
      <4>2. \A k \in Nat, n \in Nat : n <= k + damage => n <= k + (damage + 1)
        BY <1>1
      <4> QED
        BY <3>2, <4>1, <4>2 DEF Near
    <3> QED
      BY <3>3, <3>4
  <2>7. Damaged' \subseteq Damaged \cup {i}
    BY <1>4, <2>3, <2>4, <2>5 DEF Damaged
  <2>8. Spent' = Spent
    BY <1>4, <2>3, <2>4 DEF Spent
  <2>9. IsFiniteSet(Damaged') /\ Cardinality(Damaged') <= Cardinality(Damaged) + 1
        /\ Cardinality(Damaged') \in Nat
    <3>1. IsFiniteSet(Damaged \cup {i}) /\ Cardinality(Damaged \cup {i}) <= Cardinality(Damaged) + 1
          /\ Cardinality(Damaged \cup {i}) \in Nat
      <4>1. IsFiniteSet(Damaged \cup {i})
        BY <1>2, FS_AddElement
      <4>2. Cardinality(Damaged \cup {i}) \in {Cardinality(Damaged), Cardinality(Damaged) + 1}
        BY <1>2, FS_AddElement
      <4> QED
        BY <1>3, <4>1, <4>2
    <3>2. IsFiniteSet(Damaged') /\ Cardinality(Damaged') <= Cardinality(Damaged \cup {i})
      BY <2>7, <3>1, FS_Subset
    <3>3. Cardinality(Damaged') \in Nat
      BY <3>2, FS_CardinalityType
    <3> QED
      BY <1>3, <3>1, <3>2, <3>3
  <2>10. Cardinality(Damaged') + Spent' <= damage'
    BY <1>1, <1>2, <1>3, <2>3, <2>8, <2>9
  <2> QED
    BY <2>3, <2>4, <2>6, <2>9, <2>10 DEF Wear
<1>6. CASE Truncate
  <2>1. PICK n \in 0..Len(data) - 1 : data' = SubSeq(data, 1, n)
    BY <1>6 DEF Truncate
  <2>2. Written' = Written /\ damage' = damage + 2
    BY <1>6 DEF Truncate, Written
  <2>3. n < l /\ n \in Nat
    BY <1>4, <2>1
  <2>4. Len(data') = n /\ DOMAIN data' = 1..n /\ \A j \in 1..n : data'[j] = data[j]
    <3>1. \A j \in 1..n : data[j] \in CellsOf(total)
      BY <1>1, <1>4, <2>3
    <3>2. /\ data' \in Seq(CellsOf(total)) /\ Len(data') = IF 1 <= n THEN n - 1 + 1 ELSE 0
          /\ \A j \in 1..n - 1 + 1 : data'[j] = data[1 + j - 1]
      <4>1. 1 \in Int /\ n \in Int
        BY <2>3
      <4> QED
        BY <2>1, <3>1, <4>1, SubSeqProperties
    <3>3. Len(data') = n /\ n - 1 + 1 = n /\ \A j \in 1..n : 1 + j - 1 = j
      BY <2>3, <3>2
    <3> QED
      BY <3>2, <3>3
  <2>5. ASSUME NEW j \in 1..n
        PROVE  Near(data'[j], Written[j], damage + 2)
    <3>1. j \in 1..l
      BY <2>3
    <3>2. Near(data[j], Written[j], damage) /\ data'[j] = data[j]
      BY <1>2, <1>4, <2>4, <3>1
    <3>3. \A k \in Nat, q \in Nat : q <= k + damage => q <= k + (damage + 2)
      BY <1>1
    <3> QED
      BY <3>2, <3>3 DEF Near
  <2>6. Damaged' \subseteq Damaged
    <3>1. \A j \in 1..n : j \in 1..l
      BY <2>3
    <3> QED
      BY <1>4, <2>2, <2>4, <3>1 DEF Damaged
  <2>7. IsFiniteSet(Damaged') /\ Cardinality(Damaged') <= Cardinality(Damaged)
        /\ Cardinality(Damaged') \in Nat
    <3>1. IsFiniteSet(Damaged') /\ Cardinality(Damaged') <= Cardinality(Damaged)
      BY <1>2, <2>6, FS_Subset
    <3>2. Cardinality(Damaged') \in Nat
      BY <3>1, FS_CardinalityType
    <3> QED
      BY <3>1, <3>2
  <2>8. Spent' \in {0, 2}
    BY DEF Spent
  <2>9. Cardinality(Damaged') + Spent' <= damage'
    BY <1>1, <1>2, <1>3, <2>2, <2>7, <2>8
  <2> QED
    BY <2>2, <2>4, <2>5, <2>7, <2>9 DEF Wear
<1>7. CASE UNCHANGED vars
  <2>1. data' = data /\ damage' = damage /\ Written' = Written
    BY <1>7 DEF vars, Written
  <2> QED
    BY <1>2, <2>1 DEF Wear, Damaged, Spent
<1> QED
  BY <1>5, <1>6, <1>7 DEF Next

LEMMA WearAlways == Spec => [](Inv /\ Wear)
<1>1. Inv /\ Wear /\ [Next]_vars => (Inv /\ Wear)'
  BY InvNext, WearNext
<1> QED
  BY InvInit, WearInit, <1>1, PTL DEF Spec

-----------------------------------------------------------------------------
(* How long a sidecar is.                                                   *)

\* The parity of a window that is as long as a window can be.
Most == AvecLenFor(WindowSize, ParityShards)

LEMMA CeilDivGrows ==
  ASSUME NEW a \in Nat, NEW b \in Nat, a <= b, NEW n \in Nat \ {0}
  PROVE  CeilDiv(a, n) <= CeilDiv(b, n)
<1>1. PICK x \in Nat, y \in Nat : x = CeilDiv(a, n) /\ y = CeilDiv(b, n)
  BY CeilDivBounds
<1>2. b <= y * n
  BY <1>1, CeilDivBounds
<1>3. CASE a = 0
  <2>1. x = (a + n - 1) \div n
    BY <1>1 DEF CeilDiv
  <2>2. x = 0
    BY <1>3, <2>1
  <2> QED
    BY <1>1, <2>2
<1>4. CASE a # 0
  <2>1. (x - 1) * n < a
    BY <1>1, <1>4, CeilDivBounds
  <2>2. (x - 1) * n < y * n
    BY <1>2, <2>1
  <2>3. ~(x - 1 >= y)
    <3>1. SUFFICES ASSUME x - 1 >= y PROVE FALSE
      OBVIOUS
    <3>2. PICK k \in Nat : x - 1 = y + k
      <4>1. x - 1 - y \in Nat /\ x - 1 = y + (x - 1 - y)
        BY <3>1
      <4> QED
        BY <4>1
    <3>3. (y + k) * n = y * n + k * n /\ k * n \in Nat
      OBVIOUS
    <3> QED
      BY <2>2, <3>2, <3>3
  <2> QED
    BY <1>1, <2>3
<1> QED
  BY <1>3, <1>4

LEMMA AvecLenMost ==
  ASSUME NEW len \in Nat, len <= WindowSize
  PROVE  AvecLenFor(len, ParityShards) <= Most
<1>1. WindowSize \in Nat \ {0} /\ DataShards \in Nat \ {0} /\ ParityShards \in Nat \ {0}
  BY GridAssumption
<1>2. PICK x \in Nat, y \in Nat : /\ x = CeilDiv(len, DataShards)
                                  /\ y = CeilDiv(WindowSize, DataShards) /\ x <= y
  BY <1>1, CeilDivBounds, CeilDivGrows
<1>3. PICK p \in Nat : p = ParityShards
  BY <1>1
<1>4. PICK u \in Nat, v \in Nat : u = x * p /\ v = y * p /\ u <= v
  <2>1. PICK k \in Nat : y = x + k
    <3>1. y - x \in Nat /\ y = x + (y - x)
      BY <1>2
    <3> QED
      BY <3>1
  <2>2. (x + k) * p = x * p + k * p /\ k * p \in Nat /\ x * p \in Nat /\ (x + k) * p \in Nat
    OBVIOUS
  <2>3. x * p <= y * p /\ y * p \in Nat
    BY <2>1, <2>2
  <2> QED
    BY <2>2, <2>3
<1>5. Most = 1 + (WindowSize + v) + v
  BY <1>1, <1>2, <1>3, <1>4 DEF Most, AvecLenFor
<1>6. AvecLenFor(len, ParityShards) = IF len = 0 THEN 0 ELSE 1 + (len + u) + u
  BY <1>2, <1>3, <1>4 DEF AvecLenFor
<1> QED
  BY <1>1, <1>4, <1>5, <1>6

LEMMA MostType == Most \in Nat /\ WindowSize \in Nat \ {0}
  BY GridAssumption, AvecLenType DEF Most

\* No window is longer than that, and only the last one may be shorter.
LEMMA WindowLens ==
  ASSUME NEW length \in Nat, NEW n, n = Len(Windows(length)), NEW i \in 1..n
  PROVE  /\ n \in Nat \ {0}
         /\ Windows(length)[i] \in Window
         /\ Windows(length)[i].len <= WindowSize
         /\ Len(Avec(Windows(length)[i])) \in Nat /\ Len(Avec(Windows(length)[i])) <= Most
         /\ i < n => /\ Windows(length)[i].len = WindowSize
                     /\ Len(Avec(Windows(length)[i])) = Most
<1>1. n \in Nat \ {0} /\ \A j \in 1..n : Windows(length)[j] \in Window
  BY ParityEndsType
<1>2. PICK w : w = Windows(length)[i]
  OBVIOUS
<1>3. w \in Window /\ w.len \in Nat
  BY <1>1, <1>2 DEF Window
<1>4. WindowSize \in Nat \ {0}
  BY MostType
<1>5. w.len <= WindowSize /\ (i < n => w.len = WindowSize)
  <2>1. CASE length = 0
    <3>2. Windows(length) = << [offset |-> 0, len |-> 0] >>
      BY <2>1 DEF Windows
    <3>1. n = 1 /\ i = 1
      <4>1. Len(<< [offset |-> 0, len |-> 0] >>) = 1
        OBVIOUS
      <4>2. n = 1
        BY <3>2, <4>1
      <4> QED
        BY <4>2
    <3>3. w.len = 0
      BY <1>2, <3>1, <3>2
    <3> QED
      BY <1>4, <3>1, <3>3
  <2>2. CASE length # 0
    <3>1. \A j \in 1..n : /\ Windows(length)[j].offset = (j - 1) * WindowSize
                          /\ Windows(length)[j].offset < length
                          /\ Windows(length)[j].len =
                               IF WindowSize <= length - Windows(length)[j].offset THEN WindowSize
                               ELSE length - Windows(length)[j].offset
      BY <2>2, WindowsType
    <3>2. PICK o \in Int : o = (i - 1) * WindowSize
      BY <1>4
    <3>3. o < length /\ w.len = IF WindowSize <= length - o THEN WindowSize ELSE length - o
      BY <1>2, <3>1, <3>2
    <3>4. w.len <= WindowSize
      BY <1>4, <3>3
    <3>5. ASSUME i < n PROVE w.len = WindowSize
      <4>1. i + 1 \in 1..n /\ (i + 1) - 1 = i
        BY <1>1, <3>5
      <4>2. i * WindowSize < length
        BY <3>1, <4>1
      <4>3. i * WindowSize = o + WindowSize
        BY <1>4, <3>2
      <4>4. WindowSize <= length - o
        BY <1>4, <4>2, <4>3
      <4> QED
        BY <3>3, <4>4
    <3> QED
      BY <3>4, <3>5
  <2> QED
    BY <2>1, <2>2
<1>6. Len(Avec(w)) = AvecLenFor(w.len, ParityShards)
  BY <1>3, AvecType
<1>7. Len(Avec(w)) \in Nat
  BY <1>1, <1>2, ParityEndsType
<1>8. Len(Avec(w)) <= Most
  BY <1>3, <1>5, <1>6, AvecLenMost
<1>9. i < n => Len(Avec(w)) = Most
  BY <1>5, <1>6 DEF Most
<1> QED
  BY <1>1, <1>2, <1>5, <1>7, <1>8, <1>9

LEMMA TotalIsLong ==
  ASSUME NEW length \in Nat, NEW n, n = Len(Windows(length)), n > 1
  PROVE  (n - 1) * WindowSize < length
<1>1. n \in Nat \ {0}
  BY ParityEndsType
<1>2. length # 0
  <2>1. SUFFICES ASSUME length = 0 PROVE FALSE
    OBVIOUS
  <2>2. Windows(length) = << [offset |-> 0, len |-> 0] >>
    BY <2>1 DEF Windows
  <2>3. Len(<< [offset |-> 0, len |-> 0] >>) = 1
    OBVIOUS
  <2> QED
    BY <2>2, <2>3
<1>3. Windows(length)[n].offset = (n - 1) * WindowSize /\ Windows(length)[n].offset < length
  <2>1. n \in 1..n
    BY <1>1
  <2> QED
    BY <1>2, <2>1, WindowsType
<1> QED
  BY <1>3

LEMMA ParityIsLong ==
  ASSUME NEW length \in Nat, NEW n, n = Len(Windows(length))
  PROVE  ParityEnds(length)[n] \in Nat /\ (n - 1) * Most <= ParityEnds(length)[n]
<1>1. /\ n \in Nat \ {0}
      /\ Lengths(Avecs(Windows(length))) \in Seq(Nat) /\ Len(Lengths(Avecs(Windows(length)))) = n
      /\ Sums(ParityEnds(length), Lengths(Avecs(Windows(length))))
      /\ \A i \in 1..n : Lengths(Avecs(Windows(length)))[i] = Len(Avec(Windows(length)[i]))
  BY ParityEndsType
<1>2. PICK L \in Seq(Nat) : L = Lengths(Avecs(Windows(length))) /\ Len(L) = n
  BY <1>1
<1>3. PICK e : e = ParityEnds(length)
  OBVIOUS
<1>4. Sums(e, L)
  BY <1>1, <1>2, <1>3
<1>5. e \in [0..n -> Nat] /\ e[0] = 0 /\ \A i \in 1..n : e[i] = e[i - 1] + L[i]
  BY <1>2, <1>4 DEF Sums
<1>6. Most \in Nat
  BY MostType
<1>7. \A i \in 1..n : i < n => L[i] = Most
  BY <1>1, <1>2, WindowLens
<1> DEFINE N == { m \in Nat : m < n => e[m] = m * Most }
<1>8. 0 \in N
  BY <1>5, <1>6
<1>9. ASSUME NEW m \in Nat, m \in N
      PROVE  m + 1 \in N
  <2>1. SUFFICES ASSUME m + 1 < n PROVE e[m + 1] = (m + 1) * Most
    OBVIOUS
  <2>2. m + 1 \in 1..n /\ (m + 1) - 1 = m /\ m < n
    BY <1>1, <2>1
  <2>3. e[m] = m * Most
    BY <1>9, <2>2
  <2>4. e[m + 1] = e[m] + Most
    <3>1. L[m + 1] = Most
      BY <1>7, <2>1, <2>2
    <3>2. e[m + 1] = e[(m + 1) - 1] + L[m + 1]
      BY <1>5, <2>2
    <3> QED
      BY <2>2, <3>1, <3>2
  <2>5. (m + 1) * Most = m * Most + Most
    BY <1>6
  <2> QED
    BY <2>3, <2>4, <2>5
<1>10. \A m \in Nat : m \in N
  <2> HIDE DEF N
  <2> QED
    BY <1>8, <1>9, Induction
<1>11. e[n - 1] = (n - 1) * Most
  <2>1. n - 1 \in Nat /\ n - 1 < n
    BY <1>1
  <2> QED
    BY <1>10, <2>1
<1>12. e[n - 1] <= e[n] /\ e[n] \in Nat
  <2>1. n - 1 \in 0..n /\ n \in 0..n /\ n - 1 <= n
    BY <1>1
  <2>2. e[n - 1] <= e[n]
    BY <1>2, <1>4, <2>1, SumsGrow
  <2> QED
    BY <1>5, <2>1, <2>2
<1> QED
  BY <1>3, <1>11, <1>12

-----------------------------------------------------------------------------
(* What is where in one of version 2.                                       *)

\* Where a directory of n windows lies, reckoned from the beginning.
LEMMA BasesAre ==
  ASSUME NEW n \in Nat
  PROVE  /\ CopyBase(n, 1) = 5 /\ CopyBase(n, 2) = 9 + 4 * n /\ CopyBase(n, 3) = 13 + 8 * n
         /\ DirLen(n) = 3 + 4 * n /\ ParityStart(n) = 17 + 12 * n
  BY DEF CopyBase, PrefixLen, DirectoryCopies, DirLen, DirFixedLen, DirPerSegLen, ParityStart

FieldAt(n, i, m, f) == CopyBase(n, i) + DirFixedLen + DirPerSegLen * (m - 1) + f

RecordFields(length, m) ==
  << Number(Windows(length)[m].offset), Number(Windows(length)[m].len),
     Number(Len(Avec(Windows(length)[m]))), Geometry(Windows(length)[m]) >>

LEMMA WrittenFields ==
  ASSUME NEW length \in Nat, NEW n, n = Len(Windows(length)),
         NEW i \in 1..DirectoryCopies, NEW m \in 1..n, NEW f \in 1..4
  PROVE  ToBytes(length)[FieldAt(n, i, m, f)] = RecordFields(length, m)[f]
<1>1. n \in Nat
  BY WindowLens
<1>2. PICK b : b = 3 + 4 * (m - 1) + f
  OBVIOUS
<1>3. b \in 1..DirLen(n) /\ FieldAt(n, i, m, f) = CopyBase(n, i) + b
  <2>1. CopyBase(n, i) \in Nat /\ DirLen(n) = 3 + 4 * n
    BY <1>1, CopyBases, BasesAre
  <2>2. PICK k \in Nat : m - 1 = k /\ k + 1 <= n
    BY <1>1
  <2>3. b = 3 + 4 * k + f
    BY <1>2, <2>2
  <2>4. b \in 1..3 + 4 * n
    BY <1>1, <2>2, <2>3
  <2>5. PICK base \in Nat : base = CopyBase(n, i)
    BY <2>1
  <2>6. FieldAt(n, i, m, f) = base + b
    BY <2>2, <2>3, <2>4, <2>5 DEF FieldAt, DirFixedLen, DirPerSegLen
  <2> QED
    BY <2>1, <2>4, <2>5, <2>6
<1>4. ToBytes(length)[CopyBase(n, i) + b] = EncodeDirectory(length)[b]
  <2>1. HasLayout(ToBytes(length), CellsV2(length), n, EncodeDirectory(length), Parity(length))
    BY LayoutV2
  <2> QED
    BY <1>3, <2>1 DEF HasLayout
<1>5. PICK d : d = EncodeDirectory(length)
  OBVIOUS
<1>6. DirectoryOf(d, length, n)
  BY <1>5, DirectoryType
<1>7. d[3 + 4 * (m - 1) + f] = RecordFields(length, m)[f]
  <2>1. /\ d[3 + 4 * (m - 1) + 1] = Number(Windows(length)[m].offset)
        /\ d[3 + 4 * (m - 1) + 2] = Number(Windows(length)[m].len)
        /\ d[3 + 4 * (m - 1) + 3] = Number(Len(Avec(Windows(length)[m])))
        /\ d[3 + 4 * (m - 1) + 4] = Geometry(Windows(length)[m])
    BY <1>6 DEF DirectoryOf, DirFixedLen, DirPerSegLen
  <2>2. CASE f = 1
    BY <2>1, <2>2 DEF RecordFields
  <2>3. CASE f = 2
    BY <2>1, <2>3 DEF RecordFields
  <2>4. CASE f = 3
    BY <2>1, <2>4 DEF RecordFields
  <2>5. CASE f = 4
    BY <2>1, <2>5 DEF RecordFields
  <2>6. f = 1 \/ f = 2 \/ f = 3 \/ f = 4
    OBVIOUS
  <2> QED
    BY <2>2, <2>3, <2>4, <2>5, <2>6
<1> QED
  BY <1>2, <1>3, <1>4, <1>5, <1>7

\* Nothing in the parity is a number, an identity or a hash.
ParityCells == { <<"parity", n>> : n \in Nat } \cup { <<"geometry", n>> : n \in Nat } \cup {Zeros}

LEMMA AvecCells ==
  ASSUME NEW w \in Window
  PROVE  Avec(w) \in Seq(ParityCells)
<1>1. w.len \in Nat /\ w.offset \in Nat
  BY DEF Window
<1>2. PICK n \in Nat : n = AvecLenFor(w.len, ParityShards)
  <2>1. ParityShards \in Nat
    BY GridAssumption
  <2> QED
    BY <1>1, <2>1, AvecLenType
<1>3. Geometry(w) \in ParityCells /\ <<"parity", w.offset>> \in ParityCells
  BY <1>1 DEF Geometry, ParityCells
<1>4. Avec(w) = [j \in 1..n |-> IF j = 1 THEN Geometry(w) ELSE <<"parity", w.offset>>]
  BY <1>2 DEF Avec
<1> QED
  BY <1>3, <1>4

LEMMA ParityHolds ==
  ASSUME NEW length \in Nat
  PROVE  Parity(length) \in Seq(ParityCells)
<1>1. PICK a : a = Avecs(Windows(length))
  OBVIOUS
<1>2. PICK n \in Nat \ {0} : n = Len(Windows(length))
  BY ParityEndsType
<1>3. a \in Seq(Seq(Plain(length))) /\ Len(a) = n /\ \A i \in 1..n : a[i] \in Seq(ParityCells)
  <2>1. /\ Avecs(Windows(length)) \in Seq(Seq(Plain(length))) /\ Len(Avecs(Windows(length))) = n
        /\ \A i \in 1..n : Windows(length)[i] \in Window
                           /\ Avecs(Windows(length))[i] = Avec(Windows(length)[i])
    BY <1>2, ParityEndsType
  <2> QED
    BY <1>1, <2>1, AvecCells
<1>4. a \in Seq(Seq(ParityCells)) /\ a # <<>>
  <2>1. a = [i \in 1..n |-> a[i]]
    BY <1>3
  <2>2. a \in [1..n -> Seq(ParityCells)]
    BY <1>3, <2>1
  <2>3. a \in Seq(Seq(ParityCells))
    BY <2>2
  <2>4. a # <<>>
    BY <1>2, <1>3, EmptySeq
  <2> QED
    BY <2>3, <2>4
<1>5. PICK e : Sums(e, Lengths(a))
  <2>1. Lengths(a) \in Seq(Nat)
    BY <1>4, LengthsType
  <2> QED
    BY <2>1, EndsSums
<1>6. Laid(FlattenSeq(a), ParityCells, a, e)
  BY <1>4, <1>5, FlattenLaid
<1> QED
  BY <1>1, <1>6 DEF Laid, Parity

LEMMA ParityIsNoNumber ==
  ASSUME NEW c \in ParityCells
  PROVE  c[1] # "number" /\ c[1] # "binding" /\ c[1] # "hash"
  BY DEF ParityCells, Zeros

\* What is in the second version, and where, when it says how many windows there are.
LEMMA WrittenV2 ==
  ASSUME Inv, version = 2
  PROVE  /\ total \in Nat /\ Count \in Nat \ {0} /\ Count = Len(Windows(total))
         /\ Written = ToBytes(total)
         /\ data \in Seq(CellsOf(total)) /\ Written \in Seq(CellsV2(total))
         /\ Len(data) \in Nat /\ Len(Written) \in Nat /\ Len(data) <= Len(Written)
         /\ Len(Written) < Huge
         /\ DOMAIN data = 1..Len(data) /\ DOMAIN Written = 1..Len(Written)
         /\ Len(Written) = ParityStart(Count) + ParityEnds(total)[Count]
         /\ HasLayout(ToBytes(total), CellsV2(total), Count, EncodeDirectory(total), Parity(total))
         /\ damage \in Nat
<1>1. total \in TotalLens /\ total \in Nat /\ data \in Seq(CellsOf(total)) /\ damage \in Nat
      /\ Len(data) <= Len(Written)
  BY TotalsAreNat, BoundAssumption DEF Inv
<1>2. Count \in Nat \ {0} /\ Count = Len(Windows(total))
  BY <1>1, ParityEndsType DEF Count
<1>3. Written = ToBytes(total)
  BY <1>1, WrittenType
<1>4. HasLayout(ToBytes(total), CellsV2(total), Count, EncodeDirectory(total), Parity(total))
  BY <1>1, <1>2, LayoutV2
<1>5. ToBytes(total) \in Seq(CellsV2(total))
      /\ Len(ToBytes(total)) = ParityStart(Count) + Len(Parity(total))
  BY <1>4 DEF HasLayout
<1>6. Len(Parity(total)) = ParityEnds(total)[Count]
  <2>1. /\ Sums(ParityEnds(total), Lengths(Avecs(Windows(total))))
        /\ Len(Avecs(Windows(total))) = Count
    BY <1>1, <1>2, ParityEndsType
  <2>2. Laid(Parity(total), Plain(total), Avecs(Windows(total)), ParityEnds(total))
    BY <1>1, <2>1, ParityType
  <2> QED
    BY <2>1, <2>2 DEF Laid
<1>7. Len(Written) < Huge
  BY <1>1, <1>3, HugeAssumption
<1> QED
  BY <1>1, <1>2, <1>3, <1>4, <1>5, <1>6, <1>7

-----------------------------------------------------------------------------
(* What a directory says, field by field.                                   *)

LEMMA VoteIs ==
  ASSUME NEW C, NEW bytes \in Seq(C), NEW n \in Nat, ParityStart(n) <= Len(bytes),
         NEW b \in 1..DirLen(n)
  PROVE  Vote(bytes, n)[b] =
           IF bytes[CopyBase(n, 2) + b] = bytes[CopyBase(n, 3) + b] THEN bytes[CopyBase(n, 2) + b]
           ELSE bytes[CopyBase(n, 1) + b]
<1>1. \A i \in 1..3 : Copy(bytes, n, i)[b] = bytes[CopyBase(n, i) + b]
  BY CopyType DEF DirectoryCopies
<1>2. 1 \in 1..3 /\ 2 \in 1..3 /\ 3 \in 1..3
  OBVIOUS
<1> QED
  BY <1>1, <1>2 DEF Vote, DirectoryCopies

FieldOf(r, f) == DirFixedLen + DirPerSegLen * (r - 1) + f

LEMMA FieldsAre ==
  ASSUME NEW n \in Nat, NEW r \in 1..n, NEW f \in 1..4
  PROVE  /\ FieldOf(r, f) \in 1..DirLen(n)
         /\ FieldAt(n, 1, r, f) = 4 + 4 * r + f
         /\ FieldAt(n, 2, r, f) = 8 + 4 * n + 4 * r + f
         /\ FieldAt(n, 3, r, f) = 12 + 8 * n + 4 * r + f
         /\ \A i \in 1..3 : /\ FieldAt(n, i, r, f) = CopyBase(n, i) + FieldOf(r, f)
                            /\ FieldAt(n, i, r, f) \in 1..ParityStart(n)
<1>1. /\ CopyBase(n, 1) = 5 /\ CopyBase(n, 2) = 9 + 4 * n /\ CopyBase(n, 3) = 13 + 8 * n
      /\ DirLen(n) = 3 + 4 * n /\ ParityStart(n) = 17 + 12 * n
  BY BasesAre
<1>2. r - 1 \in Nat /\ 4 * (r - 1) = 4 * r - 4
  OBVIOUS
<1>3. FieldOf(r, f) = 4 * r - 1 + f /\ FieldOf(r, f) \in 1..3 + 4 * n
  BY <1>2 DEF FieldOf, DirFixedLen, DirPerSegLen
<1>4. \A i \in 1..3 : CopyBase(n, i) \in Nat
  BY <1>1
<1>5. \A i \in 1..3 : FieldAt(n, i, r, f) = CopyBase(n, i) + FieldOf(r, f)
  <2> TAKE i \in 1..3
  <2>1. PICK base \in Nat : base = CopyBase(n, i)
    BY <1>4
  <2>2. FieldAt(n, i, r, f) = base + 3 + 4 * (r - 1) + f
    BY <2>1 DEF FieldAt, DirFixedLen, DirPerSegLen
  <2> QED
    BY <1>2, <1>3, <2>1, <2>2
<1>6. /\ FieldAt(n, 1, r, f) = 4 + 4 * r + f
      /\ FieldAt(n, 2, r, f) = 8 + 4 * n + 4 * r + f
      /\ FieldAt(n, 3, r, f) = 12 + 8 * n + 4 * r + f
  BY <1>1, <1>3, <1>5
<1>7. \A i \in 1..3 : FieldAt(n, i, r, f) \in 1..ParityStart(n)
  <2>1. /\ 4 + 4 * r + f \in 1..17 + 12 * n
        /\ 8 + 4 * n + 4 * r + f \in 1..17 + 12 * n
        /\ 12 + 8 * n + 4 * r + f \in 1..17 + 12 * n
    OBVIOUS
  <2>2. \A i \in 1..3 : i = 1 \/ i = 2 \/ i = 3
    OBVIOUS
  <2> QED
    BY <1>1, <1>6, <2>1, <2>2
<1> QED
  BY <1>1, <1>3, <1>5, <1>6, <1>7

\* Where copies of n windows are looked for, copies of c, which are more, were written.
\* A vote on a field of a record is then still the same field of some record: what
\* the copies that decide it say cannot all be the head of a directory.
LEMMA FieldsMeet ==
  ASSUME NEW c \in Nat, NEW n \in Nat, n < c, NEW r \in 1..n, NEW f \in 1..4
  PROVE  /\ \E m \in 1..c : FieldAt(n, 1, r, f) = FieldAt(c, 1, m, f)
         /\ \/ \E i \in 1..3, m \in 1..c : FieldAt(n, 2, r, f) = FieldAt(c, i, m, f)
            \/ \E i \in 1..3, m \in 1..c : FieldAt(n, 3, r, f) = FieldAt(c, i, m, f)
<1>1. /\ FieldAt(n, 1, r, f) = 4 + 4 * r + f
      /\ FieldAt(n, 2, r, f) = 8 + 4 * n + 4 * r + f
      /\ FieldAt(n, 3, r, f) = 12 + 8 * n + 4 * r + f
  BY FieldsAre
<1>2. \A m \in 1..c : /\ FieldAt(c, 1, m, f) = 4 + 4 * m + f
                      /\ FieldAt(c, 2, m, f) = 8 + 4 * c + 4 * m + f
  BY FieldsAre
<1>3. \E m \in 1..c : FieldAt(n, 1, r, f) = FieldAt(c, 1, m, f)
  <2>1. r \in 1..c
    OBVIOUS
  <2> QED
    BY <1>1, <1>2, <2>1
<1>4. CASE n + 1 + r <= c
  <2>1. PICK m \in 1..c : m = n + 1 + r
    BY <1>4
  <2>2. FieldAt(c, 1, m, f) = 4 + 4 * m + f
    BY <1>2
  <2>3. FieldAt(n, 2, r, f) = FieldAt(c, 1, m, f)
    BY <1>1, <2>1, <2>2
  <2>4. 1 \in 1..3
    OBVIOUS
  <2> QED
    BY <1>3, <2>3, <2>4
<1>5. CASE n + 1 + r > c + 1
  <2>1. PICK m \in 1..c : m = (n + 1 + r) - (c + 1)
    BY <1>5
  <2>2. FieldAt(c, 2, m, f) = 8 + 4 * c + 4 * m + f
    BY <1>2
  <2>3. FieldAt(n, 2, r, f) = FieldAt(c, 2, m, f)
    BY <1>1, <2>1, <2>2
  <2>4. 2 \in 1..3
    OBVIOUS
  <2> QED
    BY <1>3, <2>3, <2>4
<1>6. CASE n + 1 + r = c + 1
  <2>1. PICK m \in 1..c : m = n + 1
    OBVIOUS
  <2>2. FieldAt(c, 2, m, f) = 8 + 4 * c + 4 * m + f
    BY <1>2
  <2>3. FieldAt(n, 3, r, f) = FieldAt(c, 2, m, f)
    BY <1>1, <1>6, <2>1, <2>2
  <2>4. 2 \in 1..3
    OBVIOUS
  <2> QED
    BY <1>3, <2>3, <2>4
<1> QED
  BY <1>4, <1>5, <1>6

\* What the vote on a field takes, and the one of the three cells that it has it from.
VotedFrom(n, r, f) == { FieldAt(n, i, r, f) : i \in 1..3 }

Deciding(bytes, n, r, f, c, p) ==
  /\ p \in VotedFrom(n, r, f) /\ p \in 1..ParityStart(n)
  /\ Vote(bytes, n)[FieldOf(r, f)] = bytes[p]
  /\ \E i \in 1..3, m \in 1..c : p = FieldAt(c, i, m, f)

LEMMA VotedRecord ==
  ASSUME NEW C, NEW bytes \in Seq(C), NEW c \in Nat, NEW n \in Nat, n < c,
         ParityStart(n) <= Len(bytes), NEW r \in 1..n, NEW f \in 1..4
  PROVE  \E p : Deciding(bytes, n, r, f, c, p)
<1>1. PICK p1, p2, p3 : /\ p1 = FieldAt(n, 1, r, f) /\ p2 = FieldAt(n, 2, r, f)
                        /\ p3 = FieldAt(n, 3, r, f)
  OBVIOUS
<1>2. /\ FieldOf(r, f) \in 1..DirLen(n)
      /\ \A i \in 1..3 : /\ FieldAt(n, i, r, f) = CopyBase(n, i) + FieldOf(r, f)
                         /\ FieldAt(n, i, r, f) \in 1..ParityStart(n)
  BY FieldsAre
<1>3. 1 \in 1..3 /\ 2 \in 1..3 /\ 3 \in 1..3
  OBVIOUS
<1>4. {p1, p2, p3} \subseteq VotedFrom(n, r, f) /\ {p1, p2, p3} \subseteq 1..ParityStart(n)
  BY <1>1, <1>2, <1>3 DEF VotedFrom
<1>5. Vote(bytes, n)[FieldOf(r, f)] = IF bytes[p2] = bytes[p3] THEN bytes[p2] ELSE bytes[p1]
  <2>1. Vote(bytes, n)[FieldOf(r, f)] =
          IF bytes[CopyBase(n, 2) + FieldOf(r, f)] = bytes[CopyBase(n, 3) + FieldOf(r, f)]
          THEN bytes[CopyBase(n, 2) + FieldOf(r, f)] ELSE bytes[CopyBase(n, 1) + FieldOf(r, f)]
    BY <1>2, VoteIs
  <2>2. /\ CopyBase(n, 1) + FieldOf(r, f) = p1 /\ CopyBase(n, 2) + FieldOf(r, f) = p2
        /\ CopyBase(n, 3) + FieldOf(r, f) = p3
    BY <1>1, <1>2, <1>3
  <2> QED
    BY <2>1, <2>2
<1>6. /\ \E m \in 1..c : p1 = FieldAt(c, 1, m, f)
      /\ \/ \E i \in 1..3, m \in 1..c : p2 = FieldAt(c, i, m, f)
         \/ \E i \in 1..3, m \in 1..c : p3 = FieldAt(c, i, m, f)
  BY <1>1, FieldsMeet
<1>7. CASE bytes[p2] # bytes[p3]
  <2>1. Deciding(bytes, n, r, f, c, p1)
    BY <1>3, <1>4, <1>5, <1>6, <1>7 DEF Deciding
  <2> QED
    BY <2>1
<1>8. CASE bytes[p2] = bytes[p3]
  <2>1. Vote(bytes, n)[FieldOf(r, f)] = bytes[p2] /\ Vote(bytes, n)[FieldOf(r, f)] = bytes[p3]
    BY <1>5, <1>8
  <2>2. Deciding(bytes, n, r, f, c, p2) \/ Deciding(bytes, n, r, f, c, p3)
    BY <1>4, <1>6, <2>1 DEF Deciding
  <2> QED
    BY <2>2
<1> QED
  BY <1>7, <1>8

\* Two fields are never voted from the same cell.
LEMMA VotedApart ==
  ASSUME NEW n \in Nat, NEW r \in 1..n, NEW q \in 1..n, NEW f \in 1..4,
         NEW p, p \in VotedFrom(n, r, f), p \in VotedFrom(n, q, f)
  PROVE  r = q
<1>1. /\ FieldAt(n, 1, r, f) = 4 + 4 * r + f
      /\ FieldAt(n, 2, r, f) = 8 + 4 * n + 4 * r + f
      /\ FieldAt(n, 3, r, f) = 12 + 8 * n + 4 * r + f
  BY FieldsAre
<1>2. /\ FieldAt(n, 1, q, f) = 4 + 4 * q + f
      /\ FieldAt(n, 2, q, f) = 8 + 4 * n + 4 * q + f
      /\ FieldAt(n, 3, q, f) = 12 + 8 * n + 4 * q + f
  BY FieldsAre
<1>3. PICK i \in 1..3 : p = FieldAt(n, i, r, f)
  BY DEF VotedFrom
<1>4. PICK j \in 1..3 : p = FieldAt(n, j, q, f)
  BY DEF VotedFrom
<1>5. \A x \in 1..3 : x = 1 \/ x = 2 \/ x = 3
  OBVIOUS
<1>6. p = 4 + 4 * r + f \/ p = 8 + 4 * n + 4 * r + f \/ p = 12 + 8 * n + 4 * r + f
  BY <1>1, <1>3, <1>5
<1>7. p = 4 + 4 * q + f \/ p = 8 + 4 * n + 4 * q + f \/ p = 12 + 8 * n + 4 * q + f
  BY <1>2, <1>4, <1>5
<1> QED
  BY <1>6, <1>7

\* A copy that passes for whole tells how many windows there are.
LEMMA IntactIsCount ==
  ASSUME Inv, version = 2, NEW n \in Nat, ParityStart(n) <= Len(data),
         NEW i \in 1..DirectoryCopies, Intact(data, n, i)
  PROVE  n = Count
<1>1. /\ total \in Nat /\ Count \in Nat /\ data \in Seq(CellsOf(total))
      /\ Written = ToBytes(total) /\ Written \in Seq(CellsV2(total))
      /\ Len(data) \in Nat /\ Len(Written) \in Nat /\ Len(data) <= Len(Written)
      /\ DOMAIN data = 1..Len(data) /\ DOMAIN Written = 1..Len(Written)
  BY WrittenV2
<1>2. PICK p : p = CopyBase(n, i) + DirLen(n) + 1
  OBVIOUS
<1>3. p \in 1..Len(data) /\ p \in 1..Len(Written)
  <2>1. /\ CopyBase(n, i) \in Nat /\ DirLen(n) \in Nat /\ ParityStart(n) \in Nat
        /\ CopyBase(n, i) + DirLen(n) + 1 <= ParityStart(n)
    BY CopyBases
  <2> QED
    BY <1>1, <1>2, <2>1
<1>4. data[p] = Hash(Copy(data, n, i))
  BY <1>2 DEF Intact
<1>5. data[p] = Written[p] \/ data[p] \in Decay
  BY <1>1, <1>3 DEF Inv
<1>6. Written[p] \in CellsV2(total)
  BY <1>1, <1>3
<1>7. Hash(Copy(data, n, i))[1] = "hash" /\ Hash(Copy(data, n, i))[2] = Copy(data, n, i)
  BY DEF Hash
<1>8. data[p] \notin Decay /\ data[p] \notin Plain(total)
  <2>1. \A x \in Decay : x[1] # "hash"
    BY DEF Decay, Number
  <2>2. \A x \in Plain(total) : x[1] # "hash"
    BY PlainKinds
  <2> QED
    BY <1>4, <1>7, <2>1, <2>2
<1>9. Copy(data, n, i) = EncodeDirectory(total)
  <2>1. data[p] = Hash(EncodeDirectory(total))
    BY <1>5, <1>6, <1>8 DEF CellsV2
  <2> QED
    BY <1>4, <2>1 DEF Hash
<1>10. Len(Copy(data, n, i)) = DirLen(n)
  BY <1>1, CopyType
<1>11. Len(EncodeDirectory(total)) = DirLen(Count)
  BY <1>1, DirectoryType DEF DirectoryOf, Count
<1>12. DirLen(n) = 3 + 4 * n /\ DirLen(Count) = 3 + 4 * Count
  BY <1>1, BasesAre
<1> QED
  BY <1>1, <1>9, <1>10, <1>11, <1>12

-----------------------------------------------------------------------------
(* A count that is too high.                                                *)

\* What the records of n windows add up to has to be what the sidecar is long.
LEMMA AccountedSums ==
  ASSUME NEW dir, NEW n \in Nat \ {0}, \A b \in 1..DirLen(n) : Read(dir[b]) \in Nat,
         NEW length, Accounted(Segments(dir, n), length)
  PROVE  /\ SegLens(dir, n) \in Seq(Nat) /\ Len(SegLens(dir, n)) = n
         /\ \A i \in 1..n : SegLens(dir, n)[i] = Read(dir[FieldOf(i, 3)])
         /\ Sums(Ends(SegLens(dir, n)), SegLens(dir, n))
         /\ ParityStart(n) + Ends(SegLens(dir, n))[n] = length
<1>1. PICK l \in Seq(Nat) : l = SegLens(dir, n) /\ Len(l) = n
  BY SegLensType
<1>2. PICK e : e = Ends(l)
  OBVIOUS
<1>3. Sums(e, l)
  BY <1>2, EndsSums
<1>4. e \in [0..n -> Nat] /\ \A i \in 1..n : e[i] = e[i - 1] + l[i]
  BY <1>1, <1>3 DEF Sums
<1>5. \A i \in 1..n : l[i] = Read(dir[FieldOf(i, 3)])
  BY <1>1 DEF SegLens, FieldOf
<1>6. PICK s : s = Segments(dir, n)
  OBVIOUS
<1>7. s = [i \in 1..n |-> SegmentAt(dir, n, i)]
  BY <1>6, SegmentsAt
<1>8. Len(s) = n
  BY <1>7
<1>9. Last(s) = SegmentAt(dir, n, n)
  BY <1>7, <1>8 DEF Last
<1>10. Last(s).start = ParityStart(n) + e[n - 1] /\ Last(s).avecLen = l[n]
  <2>1. n \in 1..n
    OBVIOUS
  <2> QED
    BY <1>1, <1>2, <1>5, <1>9, <2>1 DEF SegmentAt, FieldOf
<1>11. Last(s).start + Last(s).avecLen = length
  BY <1>6 DEF Accounted
<1>12. PICK a \in Nat, b \in Nat, k \in Nat : a = e[n - 1] /\ b = l[n] /\ k = ParityStart(n)
  <2>1. n - 1 \in 0..n /\ n \in 1..n
    OBVIOUS
  <2>2. e[n - 1] \in Nat
    BY <1>1, <1>4, <2>1
  <2>3. l[n] \in Nat
    BY <1>1, <2>1
  <2>4. ParityStart(n) \in Nat
    BY CopyBases
  <2> QED
    BY <2>2, <2>3, <2>4
<1>13. e[n] = a + b /\ k + a + b = length
  <2>1. n \in 1..n
    OBVIOUS
  <2> QED
    BY <1>4, <1>10, <1>11, <1>12, <2>1
<1>14. ParityStart(n) + e[n] = length
  <2>1. k + a + b = k + (a + b)
    OBVIOUS
  <2> QED
    BY <1>12, <1>13, <2>1
<1> QED
  BY <1>1, <1>2, <1>3, <1>5, <1>14

LEMMA TermOfSum ==
  ASSUME NEW lens \in Seq(Nat), NEW e, Sums(e, lens), NEW i \in 1..Len(lens)
  PROVE  lens[i] <= e[Len(lens)] /\ e[Len(lens)] \in Nat
<1>1. PICK n \in Nat : n = Len(lens)
  OBVIOUS
<1>2. /\ e \in [0..n -> Nat] /\ e[i] = e[i - 1] + lens[i]
  BY <1>1 DEF Sums
<1>3. i - 1 \in 0..n /\ i \in 0..n /\ n \in 0..n /\ i <= n
  BY <1>1
<1>4. PICK a \in Nat, b \in Nat, c \in Nat, d \in Nat :
        a = e[i - 1] /\ b = lens[i] /\ c = e[i] /\ d = e[n]
  <2>1. e[i - 1] \in Nat /\ e[i] \in Nat /\ e[n] \in Nat
    BY <1>2, <1>3
  <2>2. lens[i] \in Nat
    OBVIOUS
  <2> QED
    BY <2>1, <2>2
<1>5. c <= d
  BY <1>1, <1>3, <1>4, SumsGrow
<1>6. c = a + b
  BY <1>2, <1>4
<1> QED
  BY <1>1, <1>4, <1>5, <1>6

\* Without a copy that passes for whole, it is the vote.
LEMMA VotedDirectory ==
  ASSUME NEW bytes, NEW n, ~\E i \in 1..DirectoryCopies : Intact(bytes, n, i)
  PROVE  RecoveredDirectory(bytes, n) = Vote(bytes, n)
<1>1. { i \in 1..DirectoryCopies : Intact(bytes, n, i) } = {}
  OBVIOUS
<1> QED
  BY <1>1 DEF RecoveredDirectory

LEMMA RecoveredReads ==
  ASSUME NEW length, NEW bytes \in Seq(CellsOf(length)), NEW n \in Nat,
         ParityStart(n) <= Len(bytes)
  PROVE  \A b \in 1..DirLen(n) : Read(RecoveredDirectory(bytes, n)[b]) \in Nat
<1>1. \A b \in 1..DirLen(n) : RecoveredDirectory(bytes, n)[b] \in CellsOf(length)
  BY RecoveredType
<1> QED
  BY <1>1, CellKinds

\* If a count is too high, the record after the last one is read from an identity or
\* from the parity.
LEMMA TooManyRead ==
  ASSUME Inv, Wear, version = 2, NEW n \in Nat, n > Count, ParityStart(n) <= Len(data)
  PROVE  Read(Vote(data, n)[FieldOf(Count + 1, 3)]) = Huge
<1>1. /\ total \in Nat /\ Count \in Nat \ {0} /\ data \in Seq(CellsOf(total))
      /\ Written = ToBytes(total)
      /\ Len(data) \in Nat /\ Len(Written) \in Nat /\ Len(data) <= Len(Written)
      /\ DOMAIN data = 1..Len(data) /\ DOMAIN Written = 1..Len(Written)
      /\ HasLayout(ToBytes(total), CellsV2(total), Count, EncodeDirectory(total), Parity(total))
  BY WrittenV2
<1>2. PICK c \in Nat \ {0} : c = Count
  BY <1>1
<1>3. PICK p1 \in Nat, p3 \in Nat : p1 = 11 + 4 * c /\ p3 = 19 + 8 * n + 4 * c
  OBVIOUS
<1>4. /\ FieldOf(c + 1, 3) \in 1..DirLen(n)
      /\ CopyBase(n, 1) + FieldOf(c + 1, 3) = p1
      /\ CopyBase(n, 3) + FieldOf(c + 1, 3) = p3
  <2>1. c + 1 \in 1..n /\ 3 \in 1..4
    BY <1>2
  <2>2. FieldOf(c + 1, 3) = 6 + 4 * c
    BY DEF FieldOf, DirFixedLen, DirPerSegLen
  <2>3. CopyBase(n, 1) = 5 /\ CopyBase(n, 3) = 13 + 8 * n /\ DirLen(n) = 3 + 4 * n
    BY BasesAre
  <2>4. 6 + 4 * c \in 1..3 + 4 * n
    BY <2>1
  <2> QED
    BY <1>3, <2>2, <2>3, <2>4
<1>5. p1 \in 1..Len(data) /\ p3 \in 1..Len(data) /\ p3 \in 1..Len(Written)
  <2>1. ParityStart(n) = 17 + 12 * n
    BY BasesAre
  <2>2. c < n
    BY <1>2
  <2> QED
    BY <1>1, <1>3, <2>1, <2>2
<1>6. Written[p1] = Binding(Sha(total))
  <2>1. CopyBase(c, 2) + 2 = p1 /\ 2 \in 1..DirLen(c)
    <3>1. CopyBase(c, 2) = 9 + 4 * c /\ DirLen(c) = 3 + 4 * c
      BY BasesAre
    <3>2. 9 + 4 * c + 2 = 11 + 4 * c /\ 2 \in 1..3 + 4 * c
      OBVIOUS
    <3> QED
      BY <1>3, <3>1, <3>2
  <2>2. 2 \in 1..DirectoryCopies
    BY DEF DirectoryCopies
  <2>3. ToBytes(total)[CopyBase(c, 2) + 2] = EncodeDirectory(total)[2]
    BY <1>1, <1>2, <2>1, <2>2 DEF HasLayout
  <2>4. EncodeDirectory(total)[2] = Binding(Sha(total))
    BY <1>1, DirectoryType DEF DirectoryOf
  <2> QED
    BY <1>1, <2>1, <2>3, <2>4
<1>7. Written[p3] \in ParityCells
  <2>1. PICK t \in Seq(ParityCells) : t = Parity(total)
    BY <1>1, ParityHolds
  <2>2. /\ Len(Written) = ParityStart(c) + Len(t)
        /\ \A b \in 1..Len(t) : Written[ParityStart(c) + b] = t[b]
    BY <1>1, <1>2, <2>1 DEF HasLayout
  <2>3. ParityStart(c) = 17 + 12 * c
    BY BasesAre
  <2>4. PICK b \in Nat : b = p3 - (17 + 12 * c) /\ b >= 1
    <3>1. c < n
      BY <1>2
    <3>2. p3 - (17 + 12 * c) \in Nat /\ p3 - (17 + 12 * c) >= 1
      BY <1>3, <3>1
    <3> QED
      BY <3>2
  <2>5. b \in 1..Len(t) /\ p3 = ParityStart(c) + b
    BY <1>5, <2>2, <2>3, <2>4
  <2> QED
    BY <2>2, <2>5
<1>8. ASSUME NEW p \in {p1, p3}
      PROVE  Read(data[p]) = Huge
  <2>1. Near(data[p], Written[p], damage)
    BY <1>1, <1>5 DEF Wear
  <2>2. Written[p][1] # "number"
    BY <1>6, <1>7, ParityIsNoNumber DEF Binding
  <2>3. data[p][1] # "number"
    BY <2>1, <2>2 DEF Near, Number
  <2> QED
    BY <2>3 DEF Read
<1>9. Vote(data, n)[FieldOf(c + 1, 3)] = data[p1] \/ Vote(data, n)[FieldOf(c + 1, 3)] = data[p3]
  <2>1. PICK b \in 1..DirLen(n) : b = FieldOf(c + 1, 3)
    BY <1>4
  <2>2. Vote(data, n)[b] =
          IF data[CopyBase(n, 2) + b] = data[CopyBase(n, 3) + b]
          THEN data[CopyBase(n, 2) + b] ELSE data[CopyBase(n, 1) + b]
    BY <1>1, VoteIs
  <2>3. CopyBase(n, 1) + b = p1 /\ CopyBase(n, 3) + b = p3
    BY <1>4, <2>1
  <2>4. Vote(data, n)[b] = data[p1] \/ Vote(data, n)[b] = data[p3]
    BY <2>2, <2>3
  <2> QED
    BY <2>1, <2>4
<1> QED
  BY <1>2, <1>8, <1>9

\* So it is never taken.
LEMMA TooMany ==
  ASSUME Inv, Wear, version = 2, NEW n \in Nat, n > Count, ParityStart(n) <= Len(data)
  PROVE  Decoded(data, n) = Refused
<1>1. /\ Count \in Nat \ {0} /\ data \in Seq(CellsOf(total))
      /\ Len(data) \in Nat /\ Len(Written) \in Nat /\ Len(data) <= Len(Written)
      /\ Len(Written) < Huge
  BY WrittenV2
<1>2. n # Count /\ n \in Nat \ {0} /\ Count + 1 \in 1..n
  BY <1>1
<1>3. RecoveredDirectory(data, n) = Vote(data, n)
  BY <1>2, IntactIsCount, VotedDirectory
<1>4. PICK dir : dir = RecoveredDirectory(data, n)
  OBVIOUS
<1>5. \A b \in 1..DirLen(n) : Read(dir[b]) \in Nat
  BY <1>1, <1>4, RecoveredReads
<1>6. SUFFICES ASSUME Accounted(Segments(dir, n), Len(data)) PROVE FALSE
  BY <1>4 DEF Decoded
<1>7. PICK l, e : /\ l \in Seq(Nat) /\ Len(l) = n /\ Sums(e, l)
                  /\ \A i \in 1..n : l[i] = Read(dir[FieldOf(i, 3)])
                  /\ ParityStart(n) + e[n] = Len(data)
  BY <1>2, <1>5, <1>6, AccountedSums
<1>8. l[Count + 1] = Huge
  BY <1>2, <1>3, <1>4, <1>7, TooManyRead
<1>9. Huge <= e[n] /\ e[n] \in Nat
  BY <1>2, <1>7, <1>8, TermOfSum
<1>10. ParityStart(n) \in Nat
  BY CopyBases
<1> QED
  BY <1>1, <1>7, <1>9, <1>10, HugeAssumption

-----------------------------------------------------------------------------
(* How little the records can be off.                                       *)

\* A sum whose terms are all small but for some that are not much larger.
LEMMA SumAtMost ==
  ASSUME NEW lens \in Seq(Nat), NEW e, Sums(e, lens), NEW m \in Nat, NEW R, IsFiniteSet(R),
         \A i \in 1..Len(lens) : lens[i] <= m \/ (i \in R /\ lens[i] <= m + 3)
  PROVE  e[Len(lens)] <= Len(lens) * m + 3 * Cardinality(R)
<1>1. PICK n \in Nat : n = Len(lens)
  OBVIOUS
<1>2. /\ e \in [0..n -> Nat] /\ e[0] = 0 /\ \A i \in 1..n : e[i] = e[i - 1] + lens[i]
      /\ \A i \in 1..n : lens[i] \in Nat
  BY <1>1 DEF Sums
<1> DEFINE Before(k) == { i \in R : i \in 1..k }
           N == { k \in Nat : k <= n => e[k] <= k * m + 3 * Cardinality(Before(k)) }
<1>3. \A k \in Nat : IsFiniteSet(Before(k)) /\ Cardinality(Before(k)) \in Nat
                     /\ Cardinality(Before(k)) <= Cardinality(R)
  <2> TAKE k \in Nat
  <2>1. Before(k) \subseteq R
    OBVIOUS
  <2> HIDE DEF Before
  <2>2. IsFiniteSet(Before(k)) /\ Cardinality(Before(k)) <= Cardinality(R)
    BY <2>1, FS_Subset
  <2> QED
    BY <2>2, FS_CardinalityType
<1>4. 0 \in N
  <2>1. Cardinality(Before(0)) \in Nat
    BY <1>3
  <2> HIDE DEF Before
  <2>2. e[0] <= 0 * m + 3 * Cardinality(Before(0))
    BY <1>2, <2>1
  <2> QED
    BY <2>2
<1>5. ASSUME NEW k \in Nat, k \in N
      PROVE  k + 1 \in N
  <2>1. SUFFICES ASSUME k + 1 <= n
                 PROVE  e[k + 1] <= (k + 1) * m + 3 * Cardinality(Before(k + 1))
    OBVIOUS
  <2>2. k + 1 \in 1..n /\ (k + 1) - 1 = k /\ k \in 0..n /\ k <= n
    BY <1>1, <2>1
  <2>3. PICK a \in Nat, x \in Nat, c \in Nat, q \in Nat :
          a = e[k] /\ x = lens[k + 1] /\ c = Cardinality(Before(k)) /\ q = k * m
    <3>1. e[k] \in Nat /\ lens[k + 1] \in Nat /\ k * m \in Nat
      BY <1>2, <2>2
    <3>2. Cardinality(Before(k)) \in Nat
      BY <1>3
    <3> HIDE DEF Before
    <3> QED
      BY <3>1, <3>2
  <2>4. a <= q + 3 * c
    <3>1. e[k] <= k * m + 3 * Cardinality(Before(k))
      BY <1>5, <2>2
    <3> HIDE DEF Before
    <3> QED
      BY <2>3, <3>1
  <2>5. e[k + 1] = a + x /\ (k + 1) * m = q + m
    <3>1. e[k + 1] = e[k] + lens[k + 1]
      BY <1>2, <2>2
    <3>2. (k + 1) * m = k * m + m
      OBVIOUS
    <3> QED
      BY <2>3, <3>1, <3>2
  <2>6. CASE x <= m
    <3>1. Before(k) \subseteq Before(k + 1)
      OBVIOUS
    <3>2. IsFiniteSet(Before(k + 1)) /\ Cardinality(Before(k + 1)) \in Nat
      <4>1. k + 1 \in Nat
        OBVIOUS
      <4> QED
        BY <1>3, <4>1
    <3> HIDE DEF Before
    <3>3. c <= Cardinality(Before(k + 1))
      BY <2>3, <3>1, <3>2, FS_Subset
    <3> QED
      BY <2>4, <2>5, <2>6, <3>2, <3>3
  <2>7. CASE x > m
    <3>1. k + 1 \in R /\ x <= m + 3
      BY <1>1, <2>2, <2>3, <2>7
    <3>2. Before(k + 1) = Before(k) \cup {k + 1} /\ k + 1 \notin Before(k)
      BY <3>1
    <3>3. IsFiniteSet(Before(k))
      BY <1>3
    <3> HIDE DEF Before
    <3>4. Cardinality(Before(k) \cup {k + 1}) = c + 1
      BY <2>3, <3>2, <3>3, FS_AddElement
    <3>5. Cardinality(Before(k + 1)) = c + 1
      BY <3>2, <3>4
    <3> QED
      BY <2>4, <2>5, <3>1, <3>5
  <2> QED
    BY <2>6, <2>7
<1>6. \A k \in Nat : k \in N
  <2> HIDE DEF N
  <2> QED
    BY <1>4, <1>5, Induction
<1>7. e[n] <= n * m + 3 * Cardinality(Before(n))
  BY <1>1, <1>6
<1>8. Cardinality(Before(n)) \in Nat /\ Cardinality(Before(n)) <= Cardinality(R)
  BY <1>1, <1>3
<1>9. Cardinality(R) \in Nat
  BY FS_CardinalityType
<1>10. e[n] \in Nat /\ n * m \in Nat
  <2>1. n \in 0..n
    BY <1>1
  <2> QED
    BY <1>1, <1>2, <2>1
<1> HIDE DEF Before
<1> QED
  BY <1>1, <1>7, <1>8, <1>9, <1>10

Limit(f) == IF f = 2 THEN WindowSize ELSE Most

\* The cell that decides on a field of a record was one that says no more than it could.
Little(n, r, f, p) ==
  /\ p \in VotedFrom(n, r, f) /\ p \in DOMAIN data /\ p > PrefixLen
  /\ Vote(data, n)[FieldOf(r, f)] = data[p]
  /\ \E k \in Nat : Written[p] = Number(k) /\ k <= Limit(f)

LEMMA RecordsSayLittle ==
  ASSUME Inv, version = 2, NEW n \in Nat, n < Count, ParityStart(n) <= Len(data),
         NEW r \in 1..n, NEW f \in {2, 3}
  PROVE  \E p : Little(n, r, f, p)
<1>1. /\ total \in Nat /\ Count \in Nat \ {0} /\ Count = Len(Windows(total))
      /\ data \in Seq(CellsOf(total)) /\ Written = ToBytes(total)
      /\ Len(data) \in Nat /\ DOMAIN data = 1..Len(data)
  BY WrittenV2
<1>2. PICK c \in Nat \ {0} : c = Count
  BY <1>1
<1>3. f \in 1..4
  OBVIOUS
<1>4. PICK p : Deciding(data, n, r, f, c, p)
  BY <1>1, <1>2, <1>3, VotedRecord
<1>5. PICK i \in 1..3, m \in 1..c : p = FieldAt(c, i, m, f)
  BY <1>4 DEF Deciding
<1>6. Written[p] = RecordFields(total, m)[f]
  BY <1>1, <1>2, <1>3, <1>5, WrittenFields DEF DirectoryCopies
<1>7. /\ Windows(total)[m] \in Window /\ Windows(total)[m].len <= WindowSize
      /\ Len(Avec(Windows(total)[m])) \in Nat /\ Len(Avec(Windows(total)[m])) <= Most
  BY <1>1, <1>2, WindowLens
<1>8. \E k \in Nat : Written[p] = Number(k) /\ k <= Limit(f)
  <2>1. CASE f = 2
    <3>1. Written[p] = Number(Windows(total)[m].len)
      BY <1>6, <2>1 DEF RecordFields
    <3>2. Windows(total)[m].len \in Nat
      BY <1>7 DEF Window
    <3> QED
      BY <1>7, <2>1, <3>1, <3>2 DEF Limit
  <2>2. CASE f = 3
    <3>1. Written[p] = Number(Len(Avec(Windows(total)[m])))
      BY <1>6, <2>2 DEF RecordFields
    <3> QED
      BY <1>7, <2>2, <3>1 DEF Limit
  <2> QED
    BY <2>1, <2>2
<1>9. p \in DOMAIN data
  <2>1. ParityStart(n) \in Nat
    BY CopyBases
  <2> QED
    BY <1>1, <1>4, <2>1 DEF Deciding
<1>10. p > PrefixLen
  <2>1. /\ FieldAt(c, 1, m, f) = 4 + 4 * m + f
        /\ FieldAt(c, 2, m, f) = 8 + 4 * c + 4 * m + f
        /\ FieldAt(c, 3, m, f) = 12 + 8 * c + 4 * m + f
    <3>1. c \in Nat
      BY <1>2
    <3> QED
      BY <1>3, <3>1, FieldsAre
  <2>2. i = 1 \/ i = 2 \/ i = 3
    OBVIOUS
  <2>3. p = 4 + 4 * m + f \/ p = 8 + 4 * c + 4 * m + f \/ p = 12 + 8 * c + 4 * m + f
    BY <1>5, <2>1, <2>2
  <2> QED
    BY <2>3 DEF PrefixLen, DirectoryCopies
<1> QED
  BY <1>4, <1>8, <1>9, <1>10 DEF Little, Deciding

\* What a number can have come to.
LEMMA NumberNear ==
  ASSUME NEW length, NEW cell \in CellsOf(length), NEW k \in Nat, NEW d \in Nat,
         Near(cell, Number(k), d), Read(cell) < Huge
  PROVE  Read(cell) \in Nat /\ Read(cell) <= k + d
<1>1. Read(cell) \in Nat
  BY CellKinds
<1>2. cell[1] = "number"
  BY <1>1, HugeAssumption DEF Read
<1>3. CASE cell = Number(k)
  <2>1. Read(cell) = k
    BY <1>3 DEF Read, Number
  <2>2. k <= k + d
    OBVIOUS
  <2> QED
    BY <1>1, <2>1, <2>2
<1>4. CASE cell # Number(k)
  <2>1. PICK a \in Nat, b \in Nat : Number(k) = Number(a) /\ cell = Number(b) /\ b <= a + d
    BY <1>2, <1>4 DEF Near
  <2>2. a = k /\ Read(cell) = b
    BY <2>1 DEF Number, Read
  <2> QED
    BY <1>1, <2>1, <2>2
<1> QED
  BY <1>3, <1>4

-----------------------------------------------------------------------------
(* A count that is too low.                                                 *)

\* If a count is too low, the directory that is wanted takes up room that the one that
\* is read leaves to the parity, and three damages cannot make up for that.
LEMMA TooFewWhole ==
  ASSUME Inv, Wear, version = 2, damage <= 3, Len(data) = Len(Written),
         NEW n \in Nat \ {0}, n < Count, ParityStart(n) <= Len(data)
  PROVE  Decoded(data, n) = Refused
<1>1. /\ total \in Nat /\ Count \in Nat \ {0} /\ Count = Len(Windows(total))
      /\ data \in Seq(CellsOf(total)) /\ damage \in Nat
      /\ Len(data) \in Nat /\ DOMAIN data = 1..Len(data) /\ Len(data) < Huge
      /\ Len(data) = ParityStart(Count) + ParityEnds(total)[Count]
  BY WrittenV2
<1>2. PICK c \in Nat \ {0} : c = Count
  BY <1>1
<1>3. RecoveredDirectory(data, n) = Vote(data, n)
  BY <1>1, IntactIsCount, VotedDirectory
<1>4. PICK dir : dir = RecoveredDirectory(data, n)
  OBVIOUS
<1>5. \A b \in 1..DirLen(n) : Read(dir[b]) \in Nat
  BY <1>1, <1>4, RecoveredReads
<1>6. SUFFICES ASSUME Accounted(Segments(dir, n), Len(data)) PROVE FALSE
  BY <1>4 DEF Decoded
<1>7. PICK l, e : /\ l \in Seq(Nat) /\ Len(l) = n /\ Sums(e, l)
                  /\ \A i \in 1..n : l[i] = Read(dir[FieldOf(i, 3)])
                  /\ ParityStart(n) + e[n] = Len(data)
  BY <1>5, <1>6, AccountedSums
<1>8. Most \in Nat
  BY MostType
<1>9. \A i \in 1..n : l[i] \in Nat /\ l[i] < Huge
  <2> TAKE i \in 1..n
  <2>1. l[i] <= e[n] /\ e[n] \in Nat
    BY <1>7, TermOfSum
  <2>2. ParityStart(n) \in Nat
    BY CopyBases
  <2>3. l[i] \in Nat
    BY <1>7
  <2> QED
    BY <1>1, <1>7, <2>1, <2>2, <2>3, HugeAssumption
<1> DEFINE P == [i \in 1..n |-> CHOOSE p : Little(n, i, 3, p)]
           R == { i \in 1..n : l[i] > Most }
<1>10. \A i \in 1..n : Little(n, i, 3, P[i])
  <2> TAKE i \in 1..n
  <2>1. \E p : Little(n, i, 3, p)
    BY <1>1, RecordsSayLittle
  <2> QED
    BY <2>1
<1>11. \A i \in 1..n : l[i] <= Most \/ (i \in R /\ l[i] <= Most + 3)
  <2> TAKE i \in 1..n
  <2>1. PICK p : p = P[i]
    OBVIOUS
  <2>2. p \in DOMAIN data /\ Vote(data, n)[FieldOf(i, 3)] = data[p]
    BY <1>10, <2>1 DEF Little
  <2>3. PICK k \in Nat : Written[p] = Number(k) /\ k <= Most
    <3>1. Little(n, i, 3, p) /\ Limit(3) = Most
      BY <1>10, <2>1 DEF Limit
    <3> QED
      BY <3>1 DEF Little
  <2>4. l[i] = Read(data[p])
    BY <1>3, <1>4, <1>7, <2>2
  <2>5. Near(data[p], Number(k), damage)
    BY <2>2, <2>3 DEF Wear
  <2>6. data[p] \in CellsOf(total)
    BY <1>1, <2>2
  <2>7. Read(data[p]) < Huge
    BY <1>9, <2>4
  <2>8. l[i] <= k + damage
    BY <1>1, <2>4, <2>5, <2>6, <2>7, NumberNear
  <2>9. l[i] <= Most + 3
    BY <1>1, <1>8, <1>9, <2>3, <2>8
  <2>10. l[i] <= Most \/ i \in R
    BY <1>8, <1>9
  <2> QED
    BY <2>9, <2>10
<1>12. IsFiniteSet(R) /\ Cardinality(R) \in Nat /\ Cardinality(R) <= 3
  <2>1. IsFiniteSet(Damaged) /\ Cardinality(Damaged) + Spent <= damage /\ Spent \in {0, 2}
    BY DEF Wear, Spent
  <2>2. Cardinality(Damaged) \in Nat /\ Cardinality(Damaged) <= 3
    <3>1. Cardinality(Damaged) \in Nat
      BY <2>1, FS_CardinalityType
    <3> QED
      BY <1>1, <2>1, <3>1
  <2> DEFINE g == [i \in R |-> P[i]]
  <2>3. \A i \in R : g[i] \in Damaged
    <3> TAKE i \in R
    <3>1. i \in 1..n /\ l[i] > Most
      OBVIOUS
    <3>2. PICK p : p = P[i] /\ g[i] = p
      OBVIOUS
    <3>3. p \in DOMAIN data /\ Vote(data, n)[FieldOf(i, 3)] = data[p]
      BY <1>10, <3>1, <3>2 DEF Little
    <3>4. PICK k \in Nat : Written[p] = Number(k) /\ k <= Most
      <4>1. Little(n, i, 3, p) /\ Limit(3) = Most
        BY <1>10, <3>1, <3>2 DEF Limit
      <4> QED
        BY <4>1 DEF Little
    <3>5. l[i] = Read(data[p])
      BY <1>3, <1>4, <1>7, <3>1, <3>3
    <3>6. Read(Number(k)) = k
      BY DEF Read, Number
    <3>7. data[p] # Written[p]
      BY <1>8, <3>1, <3>4, <3>5, <3>6
    <3> QED
      BY <3>2, <3>3, <3>7 DEF Damaged
  <2>4. \A i, j \in R : g[i] = g[j] => i = j
    <3> TAKE i, j \in R
    <3>1. SUFFICES ASSUME g[i] = g[j] PROVE i = j
      OBVIOUS
    <3>2. i \in 1..n /\ j \in 1..n /\ P[i] = P[j]
      BY <3>1
    <3>3. P[i] \in VotedFrom(n, i, 3) /\ P[j] \in VotedFrom(n, j, 3)
      BY <1>10, <3>2 DEF Little
    <3>4. 3 \in 1..4
      OBVIOUS
    <3> HIDE DEF P
    <3> QED
      BY <3>2, <3>3, <3>4, VotedApart
  <2>5. g \in [R -> Damaged] /\ DOMAIN g = R
    BY <2>3
  <2> HIDE DEF g
  <2>6. g \in Injection(R, Damaged)
    BY <2>4, <2>5 DEF Injection, IsInjective
  <2> HIDE DEF R
  <2>7. IsFiniteSet(R) /\ Cardinality(R) <= Cardinality(Damaged)
    BY <2>1, <2>6, FS_Injection
  <2>8. Cardinality(R) \in Nat
    BY <2>7, FS_CardinalityType
  <2> QED
    BY <2>2, <2>7, <2>8
<1> HIDE DEF P, R
<1>13. e[n] <= n * Most + 3 * Cardinality(R)
  BY <1>7, <1>8, <1>11, <1>12, SumAtMost
<1>14. (c - 1) * Most <= ParityEnds(total)[c] /\ ParityEnds(total)[c] \in Nat
  BY <1>1, <1>2, ParityIsLong
<1>15. n * Most <= (c - 1) * Most /\ n * Most \in Nat /\ (c - 1) * Most \in Nat
  <2>1. PICK k \in Nat : c - 1 = n + k
    <3>1. (c - 1) - n \in Nat /\ c - 1 = n + ((c - 1) - n)
      BY <1>2
    <3> QED
      BY <3>1
  <2>2. (n + k) * Most = n * Most + k * Most /\ n * Most \in Nat /\ k * Most \in Nat
    BY <1>8
  <2> QED
    BY <2>1, <2>2
<1>16. PICK x \in Nat, y \in Nat, r \in Nat, en \in Nat, ec \in Nat :
         /\ x = n * Most /\ y = (c - 1) * Most /\ r = Cardinality(R)
         /\ en = e[n] /\ ec = ParityEnds(total)[c]
  <2>1. e[n] \in Nat
    <3>1. n \in 0..n
      OBVIOUS
    <3> QED
      BY <1>7, <3>1 DEF Sums
  <2> QED
    BY <1>12, <1>14, <1>15, <2>1
<1>17. en <= x + 3 * r /\ r <= 3 /\ y <= ec /\ x <= y
  BY <1>12, <1>13, <1>14, <1>15, <1>16
<1>18. 17 + 12 * n + en = 17 + 12 * c + ec
  <2>1. ParityStart(n) = 17 + 12 * n /\ ParityStart(c) = 17 + 12 * c
    BY BasesAre
  <2>2. ParityStart(n) + en = ParityStart(c) + ec
    BY <1>1, <1>2, <1>7, <1>16
  <2> QED
    BY <2>1, <2>2
<1>19. n + 1 <= c
  BY <1>2
<1> QED
  BY <1>17, <1>18, <1>19

\* If nothing but the count has rotted, the windows that it leaves are too short for
\* the stream.
LEMMA TooFewCut ==
  ASSUME Inv, version = 2, \A p \in DOMAIN data : p > PrefixLen => data[p] = Written[p],
         NEW n \in Nat \ {0}, n < Count, ParityStart(n) <= Len(data)
  PROVE  ~Tiles(Segments(Vote(data, n), n), total)
<1>1. /\ total \in Nat /\ Count \in Nat \ {0} /\ Count = Len(Windows(total))
  BY WrittenV2
<1>2. PICK c \in Nat \ {0} : c = Count
  BY <1>1
<1>3. WindowSize \in Nat
  BY MostType
<1>4. PICK s : s = Segments(Vote(data, n), n)
  OBVIOUS
<1>5. s = [i \in 1..n |-> SegmentAt(Vote(data, n), n, i)]
  BY <1>4, SegmentsAt
<1>6. DOMAIN s = 1..n /\ Len(s) = n
  BY <1>5
<1>7. \A i \in 1..n : s[i].len \in Nat /\ s[i].len <= WindowSize
  <2> TAKE i \in 1..n
  <2>1. s[i].len = Read(Vote(data, n)[FieldOf(i, 2)])
    BY <1>5 DEF SegmentAt, FieldOf
  <2>2. PICK p : Little(n, i, 2, p)
    BY RecordsSayLittle
  <2>3. PICK k \in Nat : Written[p] = Number(k) /\ k <= WindowSize
    BY <2>2 DEF Little, Limit
  <2>4. data[p] = Written[p] /\ Vote(data, n)[FieldOf(i, 2)] = data[p]
    BY <2>2 DEF Little
  <2>5. Read(Number(k)) = k
    BY DEF Read, Number
  <2> QED
    BY <2>1, <2>3, <2>4, <2>5
<1>8. PICK l : l = [i \in DOMAIN s |-> s[i].len]
  OBVIOUS
<1>9. l \in Seq(Nat) /\ Len(l) = n /\ \A i \in 1..n : l[i] <= WindowSize
  <2>1. l \in [1..n -> Nat]
    BY <1>6, <1>7, <1>8
  <2>2. l \in Seq(Nat)
    BY <2>1
  <2> QED
    BY <1>6, <1>7, <1>8, <2>1, <2>2
<1>10. PICK e : e = Ends(l)
  OBVIOUS
<1>11. Sums(e, l)
  BY <1>9, <1>10, EndsSums
<1>12. IsFiniteSet({}) /\ Cardinality({}) = 0
  BY FS_EmptySet
<1>13. e[n] <= n * WindowSize + 3 * Cardinality({})
  BY <1>3, <1>9, <1>11, <1>12, SumAtMost
<1>14. (c - 1) * WindowSize < total
  BY <1>1, <1>2, TotalIsLong
<1>15. n * WindowSize <= (c - 1) * WindowSize
  <2>1. PICK k \in Nat : c - 1 = n + k
    <3>1. (c - 1) - n \in Nat /\ c - 1 = n + ((c - 1) - n)
      BY <1>2
    <3> QED
      BY <3>1
  <2>2. (n + k) * WindowSize = n * WindowSize + k * WindowSize /\ k * WindowSize \in Nat
        /\ n * WindowSize \in Nat
    BY <1>3
  <2> QED
    BY <2>1, <2>2
<1>16. e[n] # total
  <2>1. e[n] \in Nat
    <3>1. n \in 0..n
      OBVIOUS
    <3> QED
      BY <1>9, <1>11, <3>1 DEF Sums
  <2>2. PICK x \in Nat, y \in Nat : x = n * WindowSize /\ y = (c - 1) * WindowSize
    <3>1. n * WindowSize \in Nat
      BY <1>3
    <3>2. c - 1 \in Nat
      OBVIOUS
    <3>3. (c - 1) * WindowSize \in Nat
      BY <1>3, <3>2
    <3> QED
      BY <3>1, <3>3
  <2>3. e[n] <= x /\ y < total /\ x <= y
    BY <1>12, <1>13, <1>14, <1>15, <2>2
  <2> QED
    BY <1>1, <2>1, <2>2, <2>3
<1>17. Tiles(s, total) => e[n] = total
  BY <1>6, <1>8, <1>10 DEF Tiles
<1> QED
  BY <1>4, <1>16, <1>17

-----------------------------------------------------------------------------
(* One field that is wrong at the right count.                              *)

\* What the vote has wrong, two copies have wrong.
LEMMA TwoRotted ==
  ASSUME Inv, version = 2, NEW c, c = Count, ParityStart(c) <= Len(data), NEW b \in 1..DirLen(c),
         Vote(data, c)[b] # EncodeDirectory(total)[b]
  PROVE  \E i, j \in 1..3 : /\ i # j /\ CopyBase(c, i) + b \in Damaged
                            /\ CopyBase(c, j) + b \in Damaged
<1>1. /\ c \in Nat \ {0} /\ data \in Seq(CellsOf(total)) /\ Written = ToBytes(total)
      /\ Len(data) \in Nat /\ DOMAIN data = 1..Len(data)
      /\ HasLayout(ToBytes(total), CellsV2(total), c, EncodeDirectory(total), Parity(total))
  BY WrittenV2
<1>2. PICK was : was = EncodeDirectory(total)[b]
  OBVIOUS
<1>3. \A i \in 1..3 : Written[CopyBase(c, i) + b] = was
  BY <1>1, <1>2 DEF HasLayout, DirectoryCopies
<1>4. \A i \in 1..3 : CopyBase(c, i) + b \in DOMAIN data
  <2> TAKE i \in 1..3
  <2>1. /\ CopyBase(c, i) \in Nat /\ DirLen(c) \in Nat /\ ParityStart(c) \in Nat
        /\ CopyBase(c, i) + DirLen(c) + 1 <= ParityStart(c)
    BY <1>1, CopyBases DEF DirectoryCopies
  <2> QED
    BY <1>1, <2>1
<1>5. PICK p1, p2, p3 : p1 = CopyBase(c, 1) + b /\ p2 = CopyBase(c, 2) + b /\ p3 = CopyBase(c, 3) + b
  OBVIOUS
<1>6. Vote(data, c)[b] = IF data[p2] = data[p3] THEN data[p2] ELSE data[p1]
  BY <1>1, <1>5, VoteIs
<1>7. 1 \in 1..3 /\ 2 \in 1..3 /\ 3 \in 1..3 /\ 1 # 2 /\ 1 # 3 /\ 2 # 3
  OBVIOUS
<1>8. \A p \in {p1, p2, p3} : Written[p] = was /\ p \in DOMAIN data
  BY <1>3, <1>4, <1>5, <1>7
<1>9. \A p \in {p1, p2, p3} : p \in Damaged \/ data[p] = was
  BY <1>8 DEF Damaged
<1>10. \/ p1 \in Damaged /\ p2 \in Damaged
       \/ p1 \in Damaged /\ p3 \in Damaged
       \/ p2 \in Damaged /\ p3 \in Damaged
  BY <1>2, <1>6, <1>9
<1> QED
  BY <1>5, <1>7, <1>10

LEMMA FourInAll ==
  ASSUME NEW S, IsFiniteSet(S), NEW p \in S, NEW q \in S, NEW x \in S, NEW y \in S,
         p # q, p # x, p # y, q # x, q # y, x # y
  PROVE  Cardinality(S) \in Nat /\ Cardinality(S) >= 4
<1>1. IsFiniteSet({p}) /\ Cardinality({p}) = 1
  BY FS_Singleton
<1>2. IsFiniteSet({p} \cup {q}) /\ Cardinality({p} \cup {q}) = 2
  <2>1. q \notin {p}
    OBVIOUS
  <2>2. IsFiniteSet({p} \cup {q})
    BY <1>1, FS_AddElement
  <2>3. Cardinality({p} \cup {q}) = Cardinality({p}) + 1
    BY <1>1, <2>1, FS_AddElement
  <2> QED
    BY <1>1, <2>2, <2>3
<1>3. IsFiniteSet({p} \cup {q} \cup {x}) /\ Cardinality({p} \cup {q} \cup {x}) = 3
  <2>1. x \notin {p} \cup {q}
    OBVIOUS
  <2>2. IsFiniteSet({p} \cup {q} \cup {x})
    BY <1>2, FS_AddElement
  <2>3. Cardinality({p} \cup {q} \cup {x}) = Cardinality({p} \cup {q}) + 1
    BY <1>2, <2>1, FS_AddElement
  <2> QED
    BY <1>2, <2>2, <2>3
<1>4. Cardinality({p} \cup {q} \cup {x} \cup {y}) = 4
  <2>1. y \notin {p} \cup {q} \cup {x}
    OBVIOUS
  <2>2. Cardinality({p} \cup {q} \cup {x} \cup {y}) = Cardinality({p} \cup {q} \cup {x}) + 1
    BY <1>3, <2>1, FS_AddElement
  <2> QED
    BY <1>3, <2>2
<1>5. {p} \cup {q} \cup {x} \cup {y} \subseteq S
  OBVIOUS
<1>6. Cardinality(S) \in Nat
  BY FS_CardinalityType
<1>7. Cardinality({p} \cup {q} \cup {x} \cup {y}) <= Cardinality(S)
  BY <1>5, FS_Subset
<1> QED
  BY <1>4, <1>6, <1>7

LEMMA TwoInAll ==
  ASSUME NEW S, IsFiniteSet(S), NEW p \in S, NEW q \in S, p # q
  PROVE  Cardinality(S) \in Nat /\ Cardinality(S) >= 2
<1>1. IsFiniteSet({p}) /\ Cardinality({p}) = 1
  BY FS_Singleton
<1>2. Cardinality({p} \cup {q}) = 2
  <2>1. q \notin {p}
    OBVIOUS
  <2> QED
    BY <1>1, <2>1, FS_AddElement
<1>3. {p} \cup {q} \subseteq S
  OBVIOUS
<1>4. Cardinality(S) \in Nat
  BY FS_CardinalityType
<1>5. Cardinality({p} \cup {q}) <= Cardinality(S)
  BY <1>3, FS_Subset
<1> QED
  BY <1>2, <1>4, <1>5

\* Where the fields of the three copies lie apart.
LEMMA BasesApart ==
  ASSUME NEW c \in Nat, NEW i \in 1..3, NEW j \in 1..3, NEW a \in 1..DirLen(c),
         NEW b \in 1..DirLen(c), i # j \/ a # b
  PROVE  CopyBase(c, i) + a # CopyBase(c, j) + b
<1>1. /\ CopyBase(c, 1) = 5 /\ CopyBase(c, 2) = 9 + 4 * c /\ CopyBase(c, 3) = 13 + 8 * c
      /\ DirLen(c) = 3 + 4 * c
  BY BasesAre
<1>2. PICK x \in Nat, y \in Nat : x = CopyBase(c, i) /\ y = CopyBase(c, j)
  <2>1. \A k \in 1..3 : k = 1 \/ k = 2 \/ k = 3
    OBVIOUS
  <2>2. CopyBase(c, i) \in Nat /\ CopyBase(c, j) \in Nat
    BY <1>1, <2>1
  <2> QED
    BY <2>2
<1>3. a \in 1..3 + 4 * c /\ b \in 1..3 + 4 * c
  BY <1>1
<1>4. CASE i = j
  BY <1>2, <1>3, <1>4
<1>5. CASE i # j
  <2>1. x - y >= 4 + 4 * c \/ y - x >= 4 + 4 * c
    <3>1. /\ i = 1 => x = 5
          /\ i = 2 => x = 9 + 4 * c
          /\ i = 3 => x = 13 + 8 * c
          /\ j = 1 => y = 5
          /\ j = 2 => y = 9 + 4 * c
          /\ j = 3 => y = 13 + 8 * c
      BY <1>1, <1>2
    <3>2. (i = 1 \/ i = 2 \/ i = 3) /\ (j = 1 \/ j = 2 \/ j = 3)
      OBVIOUS
    <3> QED
      BY <1>5, <3>1, <3>2
  <2>2. x + a # y + b
    BY <1>3, <2>1
  <2> QED
    BY <1>2, <2>2
<1> QED
  BY <1>4, <1>5

\* Three damages do not get two fields wrong, nor one if a piece is gone as well.
LEMMA OneWrong ==
  ASSUME Inv, Wear, version = 2, damage <= 3, NEW c, c = Count, ParityStart(c) <= Len(data),
         NEW a \in 1..DirLen(c), Vote(data, c)[a] # EncodeDirectory(total)[a],
         NEW b \in 1..DirLen(c), Vote(data, c)[b] # EncodeDirectory(total)[b]
  PROVE  a = b /\ Len(data) = Len(Written)
<1>1. /\ c \in Nat \ {0} /\ damage \in Nat
      /\ Len(data) \in Nat /\ Len(Written) \in Nat /\ Len(data) <= Len(Written)
  BY WrittenV2
<1>2. IsFiniteSet(Damaged) /\ Cardinality(Damaged) + Spent <= 3 /\ Spent \in {0, 2}
      /\ Cardinality(Damaged) \in Nat
  <2>1. IsFiniteSet(Damaged) /\ Cardinality(Damaged) + Spent <= damage /\ Spent \in {0, 2}
    BY DEF Wear, Spent
  <2>2. Cardinality(Damaged) \in Nat
    BY <2>1, FS_CardinalityType
  <2> QED
    BY <1>1, <2>1, <2>2
<1>3. PICK i \in 1..3, j \in 1..3 : /\ i # j /\ CopyBase(c, i) + a \in Damaged
                                    /\ CopyBase(c, j) + a \in Damaged
  BY TwoRotted
<1>4. PICK k \in 1..3, m \in 1..3 : /\ k # m /\ CopyBase(c, k) + b \in Damaged
                                    /\ CopyBase(c, m) + b \in Damaged
  BY TwoRotted
<1>5. CopyBase(c, i) + a # CopyBase(c, j) + a /\ CopyBase(c, k) + b # CopyBase(c, m) + b
  BY <1>1, <1>3, <1>4, BasesApart
<1>6. Cardinality(Damaged) >= 2
  BY <1>2, <1>3, <1>5, TwoInAll
<1>7. Spent = 0
  BY <1>2, <1>6
<1>8. Len(data) = Len(Written)
  BY <1>1, <1>7 DEF Spent
<1>9. a = b
  <2>1. SUFFICES ASSUME a # b PROVE FALSE
    OBVIOUS
  <2>2. /\ CopyBase(c, i) + a # CopyBase(c, k) + b /\ CopyBase(c, i) + a # CopyBase(c, m) + b
        /\ CopyBase(c, j) + a # CopyBase(c, k) + b /\ CopyBase(c, j) + a # CopyBase(c, m) + b
    BY <1>1, <2>1, BasesApart
  <2>3. Cardinality(Damaged) >= 4
    BY <1>2, <1>3, <1>4, <1>5, <2>2, FourInAll
  <2> QED
    BY <1>2, <2>3
<1> QED
  BY <1>8, <1>9

AlikeBut(s, t, x) == \A i \in 1..Len(s) : i # x => s[i] = t[i]

\* Two sums with the same total whose terms agree but for one agree on that as well.
LEMMA SumsTell ==
  ASSUME NEW s \in Seq(Nat), NEW t \in Seq(Nat), Len(s) = Len(t), NEW d, Sums(d, s),
         NEW e, Sums(e, t), d[Len(s)] = e[Len(t)], NEW x, AlikeBut(s, t, x)
  PROVE  s = t
<1>1. PICK n \in Nat : /\ n = Len(s) /\ n = Len(t)
                       /\ \A i \in 1..n : i # x => s[i] = t[i]
  BY DEF AlikeBut
<1>2. /\ d \in [0..n -> Nat] /\ d[0] = 0 /\ \A i \in 1..n : d[i] = d[i - 1] + s[i]
      /\ e \in [0..n -> Nat] /\ e[0] = 0 /\ \A i \in 1..n : e[i] = e[i - 1] + t[i]
      /\ \A i \in 1..n : s[i] \in Nat /\ t[i] \in Nat
  BY <1>1 DEF Sums
<1>3. SUFFICES ASSUME x \in 1..n PROVE s[x] = t[x]
  <2>1. s = [i \in 1..n |-> s[i]] /\ t = [i \in 1..n |-> t[i]]
    BY <1>1
  <2> QED
    BY <1>1, <2>1
<1> DEFINE N == { m \in Nat : m <= n =>
                    IF m < x THEN d[m] = e[m] ELSE d[m] - s[x] = e[m] - t[x] }
<1>4. 0 \in N
  BY <1>2, <1>3
<1>5. ASSUME NEW m \in Nat, m \in N
      PROVE  m + 1 \in N
  <2>1. SUFFICES ASSUME m + 1 <= n
                 PROVE  IF m + 1 < x THEN d[m + 1] = e[m + 1]
                        ELSE d[m + 1] - s[x] = e[m + 1] - t[x]
    OBVIOUS
  <2>2. m + 1 \in 1..n /\ (m + 1) - 1 = m /\ m \in 0..n /\ m <= n
    BY <1>1, <2>1
  <2>3. PICK a \in Nat, b \in Nat, p \in Nat, q \in Nat, u \in Nat, v \in Nat :
          a = d[m] /\ b = e[m] /\ p = s[m + 1] /\ q = t[m + 1] /\ u = s[x] /\ v = t[x]
    <3>1. d[m] \in Nat /\ e[m] \in Nat
      BY <1>2, <2>2
    <3>2. s[m + 1] \in Nat /\ t[m + 1] \in Nat /\ s[x] \in Nat /\ t[x] \in Nat
      BY <1>2, <1>3, <2>2
    <3> QED
      BY <3>1, <3>2
  <2>4. IF m < x THEN a = b ELSE a - u = b - v
    BY <1>5, <2>2, <2>3
  <2>5. d[m + 1] = a + p /\ e[m + 1] = b + q
    <3>1. d[m + 1] = d[m] + s[m + 1] /\ e[m + 1] = e[m] + t[m + 1]
      BY <1>2, <2>2
    <3> QED
      BY <2>3, <3>1
  <2>6. m + 1 # x => p = q
    BY <1>1, <2>2, <2>3
  <2>7. m + 1 = x => p = u /\ q = v
    BY <2>3
  <2>8. IF m + 1 < x THEN a + p = b + q ELSE (a + p) - u = (b + q) - v
    <3>1. x \in Nat
      BY <1>3
    <3> QED
      BY <2>4, <2>6, <2>7, <3>1
  <2> QED
    BY <2>3, <2>5, <2>8
<1>6. \A m \in Nat : m \in N
  <2> HIDE DEF N
  <2> QED
    BY <1>4, <1>5, Induction
<1>7. d[n] - s[x] = e[n] - t[x]
  <2>1. n \in N /\ ~(n < x)
    BY <1>1, <1>3, <1>6
  <2> QED
    BY <1>1, <2>1
<1>8. d[n] = e[n] /\ d[n] \in Nat
  <2>1. n \in 0..n
    BY <1>1
  <2> QED
    BY <1>1, <1>2, <2>1
<1>9. PICK w \in Nat, u \in Nat, v \in Nat : w = d[n] /\ u = s[x] /\ v = t[x]
  BY <1>2, <1>3, <1>8
<1>10. w - u = w - v
  BY <1>7, <1>8, <1>9
<1>11. u = v
  BY <1>10
<1> QED
  BY <1>9, <1>11

LEMMA DirectoryFields ==
  ASSUME NEW length \in Nat, NEW n, n = Len(Windows(length)), NEW m \in 1..n
  PROVE  /\ EncodeDirectory(length)[FieldOf(m, 1)] = Number(Windows(length)[m].offset)
         /\ EncodeDirectory(length)[FieldOf(m, 2)] = Number(Windows(length)[m].len)
         /\ EncodeDirectory(length)[FieldOf(m, 3)] = Number(Len(Avec(Windows(length)[m])))
<1>1. DirectoryOf(EncodeDirectory(length), length, n)
  BY DirectoryType
<1>2. PICK d : d = EncodeDirectory(length)
  OBVIOUS
<1>3. /\ d[3 + 4 * (m - 1) + 1] = Number(Windows(length)[m].offset)
      /\ d[3 + 4 * (m - 1) + 2] = Number(Windows(length)[m].len)
      /\ d[3 + 4 * (m - 1) + 3] = Number(Len(Avec(Windows(length)[m])))
  BY <1>1, <1>2 DEF DirectoryOf, DirFixedLen, DirPerSegLen
<1> QED
  BY <1>2, <1>3 DEF FieldOf, DirFixedLen, DirPerSegLen

RightBut(dir, length, n, x) == \A b \in 1..DirLen(n) : b # x => dir[b] = EncodeDirectory(length)[b]

\* So one field at most is wrong, and none if a copy is whole or a piece is gone.
LEMMA Redundant ==
  ASSUME Inv, Wear, version = 2, damage <= 3, NEW c, c = Count, ParityStart(c) <= Len(data),
         NEW dir, dir = RecoveredDirectory(data, c)
  PROVE  \/ Right(dir, total, c)
         \/ Len(data) = Len(Written) /\ \E x : RightBut(dir, total, c, x)
<1>1. /\ total \in Nat /\ c \in Nat \ {0} /\ c = Len(Windows(total))
      /\ data \in Seq(CellsOf(total)) /\ Written = ToBytes(total)
  BY WrittenV2
<1>2. CASE \E i \in 1..DirectoryCopies : Intact(data, c, i)
  <2>1. { i \in 1..DirectoryCopies : Intact(data, c, i) } # {}
    BY <1>2
  <2>2. PICK k : k = Min({ i \in 1..DirectoryCopies : Intact(data, c, i) })
    OBVIOUS
  <2>3. k \in 1..DirectoryCopies /\ Intact(data, c, k)
    <3>1. PICK S \in SUBSET Nat : S = { i \in 1..DirectoryCopies : Intact(data, c, i) } /\ S # {}
      <4>1. 1..DirectoryCopies \subseteq Nat
        BY DEF DirectoryCopies
      <4> QED
        BY <2>1, <4>1
    <3>2. PICK m \in S : \A j \in S : m <= j
      BY <3>1, LeastElement
    <3>3. Min(S) = m
      BY <3>2, LeastIsMin
    <3> QED
      BY <2>2, <3>1, <3>2, <3>3
  <2>4. dir = Copy(data, c, k)
    BY <2>1, <2>2 DEF RecoveredDirectory
  <2>5. \A j \in DOMAIN data : data[j] = ToBytes(total)[j] \/ data[j] \in Decay
    BY <1>1 DEF Inv
  <2>6. Right(Copy(data, c, k), total, c)
    BY <1>1, <2>3, <2>5, IntactIsRight
  <2> QED
    BY <2>4, <2>6
<1>3. CASE ~\E i \in 1..DirectoryCopies : Intact(data, c, i)
  <2>1. dir = Vote(data, c)
    BY <1>3, VotedDirectory
  <2>2. SUFFICES ASSUME ~Right(dir, total, c)
                 PROVE  Len(data) = Len(Written) /\ \E x : RightBut(dir, total, c, x)
    OBVIOUS
  <2>3. PICK x \in 1..DirLen(c) : dir[x] # EncodeDirectory(total)[x]
    BY <2>2 DEF Right
  <2>4. Len(data) = Len(Written)
    BY <2>1, <2>3, OneWrong
  <2>5. \A b \in 1..DirLen(c) : dir[b] # EncodeDirectory(total)[b] => b = x
    BY <2>1, <2>3, OneWrong
  <2>6. RightBut(dir, total, c, x)
    BY <2>5 DEF RightBut
  <2> QED
    BY <2>4, <2>6
<1> QED
  BY <1>2, <1>3

ColumnBut(dir, length, n, f, y) ==
  \A i \in 1..n : i # y => dir[FieldOf(i, f)] = EncodeDirectory(length)[FieldOf(i, f)]

\* Of each column of the records one entry at most is wrong.
LEMMA OneRecordWrong ==
  ASSUME NEW dir, NEW length, NEW n \in Nat, NEW x, RightBut(dir, length, n, x), NEW f \in 1..4
  PROVE  \E y : ColumnBut(dir, length, n, f, y)
<1>1. \A i \in 1..n : FieldOf(i, f) \in 1..DirLen(n)
  BY FieldsAre
<1>2. \A i, j \in 1..n : FieldOf(i, f) = FieldOf(j, f) => i = j
  BY DEF FieldOf, DirFixedLen, DirPerSegLen
<1>3. CASE \E i \in 1..n : FieldOf(i, f) = x
  BY <1>1, <1>2, <1>3 DEF RightBut, ColumnBut
<1>4. CASE ~\E i \in 1..n : FieldOf(i, f) = x
  BY <1>1, <1>4 DEF RightBut, ColumnBut
<1> QED
  BY <1>3, <1>4

\* What is wrong in one field, the sums of the lengths tell: the windows that tile the
\* stream are its own, and the parity that ends where the sidecar does is theirs.
LEMMA SumsFind ==
  ASSUME NEW length \in Nat, NEW n, n = Len(Windows(length)), NEW dir, NEW x,
         RightBut(dir, length, n, x), \A b \in 1..DirLen(n) : Read(dir[b]) \in Nat,
         Tiles(Segments(dir, n), length),
         Accounted(Segments(dir, n), ParityStart(n) + ParityEnds(length)[n])
  PROVE  Found(Segments(dir, n), length, n, ParityEnds(length))
<1>1. n \in Nat \ {0}
  BY ParityEndsType
<1>2. PICK s : s = Segments(dir, n)
  OBVIOUS
<1>3. s = [i \in 1..n |-> SegmentAt(dir, n, i)]
  BY <1>2, SegmentsAt
<1>4. /\ DOMAIN s = 1..n /\ Len(s) = n
      /\ \A i \in 1..n : /\ s[i].len = Read(dir[FieldOf(i, 2)])
                         /\ s[i].avecLen = Read(dir[FieldOf(i, 3)])
                         /\ s[i].start = ParityStart(n) + Ends(SegLens(dir, n))[i - 1]
  BY <1>1, <1>3 DEF SegmentAt, FieldOf
<1>5. \A i \in 1..n : Read(dir[FieldOf(i, 2)]) \in Nat
  <2> TAKE i \in 1..n
  <2>1. 2 \in 1..4
    OBVIOUS
  <2>2. FieldOf(i, 2) \in 1..DirLen(n)
    BY <1>1, <2>1, FieldsAre
  <2> QED
    BY <2>2
<1>6. PICK l : l = [i \in DOMAIN s |-> s[i].len]
  OBVIOUS
<1>7. l \in Seq(Nat) /\ Len(l) = n /\ \A i \in 1..n : l[i] = s[i].len
  <2>1. l \in [1..n -> Nat]
    BY <1>4, <1>5, <1>6
  <2>2. l \in Seq(Nat)
    BY <1>1, <2>1
  <2> QED
    BY <1>1, <1>4, <1>6, <2>1, <2>2
<1>8. PICK w \in Seq(Nat) : /\ w = Lens(Windows(length)) /\ Len(w) = n
                            /\ \A i \in 1..n : w[i] = Windows(length)[i].len
  <2>1. Windows(length) \in Seq(Window)
    BY WindowsType
  <2> QED
    BY <2>1, LensType
<1>9. PICK d, e : d = Ends(l) /\ Sums(d, l) /\ e = Ends(w) /\ Sums(e, w)
  BY <1>7, <1>8, EndsSums
<1>10. d[n] = length /\ \A i \in 1..n : s[i].offset = d[i - 1]
  BY <1>2, <1>4, <1>6, <1>9 DEF Tiles
<1>11. e[n] = length /\ \A i \in 1..n : Windows(length)[i].offset = e[i - 1]
  BY <1>8, <1>9, WindowsTile
<1>12. l = w
  <2>1. PICK y : ColumnBut(dir, length, n, 2, y)
    <3>1. 2 \in 1..4
      OBVIOUS
    <3> QED
      BY <1>1, <3>1, OneRecordWrong
  <2>2. \A i \in 1..n : i # y => l[i] = w[i]
    <3> TAKE i \in 1..n
    <3>1. SUFFICES ASSUME i # y PROVE l[i] = w[i]
      OBVIOUS
    <3>2. dir[FieldOf(i, 2)] = EncodeDirectory(length)[FieldOf(i, 2)]
      BY <2>1, <3>1 DEF ColumnBut
    <3>3. EncodeDirectory(length)[FieldOf(i, 2)] = Number(Windows(length)[i].len)
      BY DirectoryFields
    <3>4. l[i] = Read(Number(Windows(length)[i].len))
      BY <1>4, <1>7, <3>2, <3>3
    <3> QED
      BY <1>8, <3>4 DEF Read, Number
  <2>3. d[Len(l)] = e[Len(w)] /\ Len(l) = Len(w)
    BY <1>7, <1>8, <1>10, <1>11
  <2>4. AlikeBut(l, w, y)
    BY <1>7, <2>2 DEF AlikeBut
  <2> QED
    BY <1>7, <1>8, <1>9, <2>3, <2>4, SumsTell
<1>13. \A i \in 1..n : s[i].offset = Windows(length)[i].offset /\ s[i].len = Windows(length)[i].len
  BY <1>7, <1>8, <1>9, <1>10, <1>11, <1>12
<1>14. PICK p : /\ p = SegLens(dir, n) /\ p \in Seq(Nat) /\ Len(p) = n
                /\ \A i \in 1..n : p[i] = Read(dir[FieldOf(i, 3)])
                /\ Sums(Ends(p), p)
                /\ ParityStart(n) + Ends(p)[n] = ParityStart(n) + ParityEnds(length)[n]
  BY <1>1, AccountedSums
<1>15. PICK q : /\ q = Lengths(Avecs(Windows(length))) /\ q \in Seq(Nat) /\ Len(q) = n
                /\ Sums(ParityEnds(length), q) /\ ParityEnds(length) = Ends(q)
                /\ \A i \in 1..n : q[i] = Len(Avec(Windows(length)[i]))
  BY ParityEndsType DEF ParityEnds
<1>16. Ends(p)[n] = ParityEnds(length)[n]
  <2>1. n \in 0..n
    BY <1>1
  <2>2. Ends(p)[n] \in Nat /\ ParityEnds(length)[n] \in Nat
    BY <1>14, <1>15, <2>1 DEF Sums
  <2>3. ParityStart(n) \in Nat
    BY <1>1, CopyBases
  <2>4. PICK a \in Nat, b \in Nat, k \in Nat :
          a = Ends(p)[n] /\ b = ParityEnds(length)[n] /\ k = ParityStart(n)
    BY <2>2, <2>3
  <2>5. k + a = k + b
    BY <1>14, <2>4
  <2>6. a = b
    BY <2>5
  <2> QED
    BY <2>4, <2>6
<1>17. p = q
  <2>1. PICK y : ColumnBut(dir, length, n, 3, y)
    <3>1. 3 \in 1..4
      OBVIOUS
    <3> QED
      BY <1>1, <3>1, OneRecordWrong
  <2>2. \A i \in 1..n : i # y => p[i] = q[i]
    <3> TAKE i \in 1..n
    <3>1. SUFFICES ASSUME i # y PROVE p[i] = q[i]
      OBVIOUS
    <3>2. dir[FieldOf(i, 3)] = EncodeDirectory(length)[FieldOf(i, 3)]
      BY <2>1, <3>1 DEF ColumnBut
    <3>3. EncodeDirectory(length)[FieldOf(i, 3)] = Number(Len(Avec(Windows(length)[i])))
      BY DirectoryFields
    <3>4. p[i] = Read(Number(Len(Avec(Windows(length)[i]))))
      BY <1>14, <3>2, <3>3
    <3> QED
      BY <1>15, <3>4 DEF Read, Number
  <2>3. PICK g : g = Ends(p) /\ Sums(g, p)
    BY <1>14
  <2>4. PICK h : h = ParityEnds(length) /\ Sums(h, q)
    BY <1>15
  <2>5. g[Len(p)] = h[Len(q)] /\ Len(p) = Len(q)
    BY <1>14, <1>15, <1>16, <2>3, <2>4
  <2> QED
    <3>1. AlikeBut(p, q, y)
      BY <1>14, <2>2 DEF AlikeBut
    <3> QED
      BY <1>14, <1>15, <2>3, <2>4, <2>5, <3>1, SumsTell
<1>18. \A i \in 1..n : /\ s[i].avecLen = Len(Avec(Windows(length)[i]))
                       /\ s[i].start = ParityStart(n) + ParityEnds(length)[i - 1]
  <2> TAKE i \in 1..n
  <2>1. s[i].avecLen = p[i]
    BY <1>4, <1>14
  <2>2. s[i].start = ParityStart(n) + Ends(p)[i - 1]
    BY <1>4, <1>14
  <2>3. p[i] = Len(Avec(Windows(length)[i])) /\ Ends(p) = ParityEnds(length)
    BY <1>15, <1>17
  <2> QED
    BY <2>1, <2>2, <2>3
<1> QED
  BY <1>2, <1>4, <1>13, <1>18 DEF Found

LEMMA AcceptedFound ==
  ASSUME Inv, Wear, version = 2, damage <= 3, NEW c, c = Count, ParityStart(c) <= Len(data),
         NEW s, s = Segments(RecoveredDirectory(data, c), c),
         Accounted(s, Len(data)), Tiles(s, total)
  PROVE  Found(s, total, c, ParityEnds(total))
<1>1. /\ total \in Nat /\ c \in Nat \ {0} /\ c = Len(Windows(total))
      /\ data \in Seq(CellsOf(total))
      /\ Len(Written) = ParityStart(c) + ParityEnds(total)[c]
  BY WrittenV2
<1>2. PICK dir : dir = RecoveredDirectory(data, c)
  OBVIOUS
<1>3. CASE Right(dir, total, c)
  BY <1>1, <1>2, <1>3, RightSegments
<1>4. CASE Len(data) = Len(Written) /\ \E x : RightBut(dir, total, c, x)
  <2>1. PICK x : RightBut(dir, total, c, x)
    BY <1>4
  <2>2. \A b \in 1..DirLen(c) : Read(dir[b]) \in Nat
    BY <1>1, <1>2, RecoveredReads
  <2>3. Accounted(Segments(dir, c), ParityStart(c) + ParityEnds(total)[c])
    BY <1>1, <1>2, <1>4
  <2>4. Tiles(Segments(dir, c), total)
    BY <1>2
  <2> QED
    BY <1>1, <1>2, <2>1, <2>2, <2>3, <2>4, SumsFind
<1> QED
  BY <1>2, <1>3, <1>4, Redundant

\* What is accepted of the second version, read with the right count.
LEMMA FoundPlaced ==
  ASSUME Inv, version = 2, NEW c, c = Count, NEW dir,
         Found(dir.segments, total, c, ParityEnds(total))
  PROVE  Placed(dir)
<1>1. /\ total \in Nat /\ c \in Nat \ {0} /\ c = Len(Windows(total)) /\ Written = ToBytes(total)
  BY WrittenV2
<1>2. PICK s : s = dir.segments
  OBVIOUS
<1>3. Found(s, total, c, ParityEnds(total))
  BY <1>2
<1>4. \A i \in 1..c :
        SubSeq(Written, s[i].start + 1, s[i].start + s[i].avecLen) = Avec(Windows(total)[i])
  BY <1>1, <1>3, FoundParity
<1>5. Len(s) = c
      /\ \A i \in 1..c : s[i].offset = Windows(total)[i].offset /\ s[i].len = Windows(total)[i].len
  BY <1>3 DEF Found
<1> QED
  BY <1>2, <1>4, <1>5 DEF Placed

-----------------------------------------------------------------------------
(* What is accepted is the file's.                                          *)

\* Behind the head of version 1 there are numbers and parity only, up to the checksum.
TailCells == { Number(n) : n \in Nat } \cup ParityCells

LEMMA RecordV1Cells ==
  ASSUME NEW w \in Window
  PROVE  RecordV1(w) \in Seq(TailCells)
<1>1. w.offset \in Nat /\ w.len \in Nat
  BY DEF Window
<1>2. PICK a \in Seq(ParityCells) : a = Avec(w)
  BY AvecCells
<1>3. a \in Seq(TailCells) /\ Len(a) \in Nat
  <2>1. a \in [1..Len(a) -> ParityCells] /\ Len(a) \in Nat
    OBVIOUS
  <2>2. a \in [1..Len(a) -> TailCells]
    BY <2>1 DEF TailCells
  <2> QED
    BY <2>1, <2>2
<1>4. Placement(w) \in Seq(TailCells)
  <2>1. Number(w.offset) \in TailCells /\ Number(w.len) \in TailCells /\ Number(Len(a)) \in TailCells
    BY <1>1, <1>3 DEF TailCells
  <2> HIDE DEF TailCells
  <2> QED
    BY <1>2, <2>1 DEF Placement
<1> QED
  BY <1>2, <1>3, <1>4, ConcatAt DEF RecordV1

LEMMA TailV1 ==
  ASSUME NEW length \in Nat
  PROVE  \A p \in 7..Len(BodyV1(length)) : BodyV1(length)[p] \in TailCells
<1>1. PICK w \in Seq(Window) : w = Windows(length) /\ w # <<>>
  BY WindowsType
<1>2. PICK n \in Nat \ {0} : n = Len(w) /\ \A i \in 1..n : w[i] \in Window
  BY <1>1, EmptySeq
<1>3. PICK r \in Seq(Seq(Plain(length))) : r = RecordsV1(w) /\ Len(r) = n /\ r # <<>>
                                           /\ \A i \in 1..n : r[i] = RecordV1(w[i])
  BY <1>1, <1>2, RecordsV1Type
<1>4. r \in Seq(Seq(TailCells))
  <2>1. \A i \in 1..n : r[i] \in Seq(TailCells)
    BY <1>2, <1>3, RecordV1Cells
  <2>2. r = [i \in 1..n |-> r[i]]
    BY <1>3
  <2>3. r \in [1..n -> Seq(TailCells)]
    BY <2>1, <2>2
  <2> QED
    BY <2>3
<1>5. PICK e : Sums(e, Lengths(r))
  <2>1. Lengths(r) \in Seq(Nat)
    BY <1>4, LengthsType
  <2> QED
    BY <2>1, EndsSums
<1>6. PICK t : t = FlattenSeq(r)
  OBVIOUS
<1>7. t \in Seq(TailCells)
  <2>1. Laid(t, TailCells, r, e)
    BY <1>3, <1>4, <1>5, <1>6, FlattenLaid
  <2> QED
    BY <2>1 DEF Laid
<1>8. PICK h \in Seq(Plain(length)) : h = HeadV1(length) /\ Len(h) = 6
  BY HeadV1Type DEF HeaderLenV1
<1>9. PICK b : b = h \o t
  OBVIOUS
<1>10. b = BodyV1(length)
  BY <1>1, <1>3, <1>6, <1>8, <1>9 DEF BodyV1
<1>11. Len(b) = 6 + Len(t) /\ \A j \in 1..Len(t) : b[6 + j] = t[j]
  <2>1. PICK S : S = Plain(length) \cup TailCells
    OBVIOUS
  <2>2. h \in Seq(S) /\ t \in Seq(S)
    <3>1. h \in [1..Len(h) -> Plain(length)] /\ t \in [1..Len(t) -> TailCells]
          /\ Len(h) \in Nat /\ Len(t) \in Nat
      BY <1>7
    <3>2. h \in [1..Len(h) -> S] /\ t \in [1..Len(t) -> S]
      BY <2>1, <3>1
    <3>3. \A k \in Nat : \A u : u \in [1..k -> S] => u \in Seq(S)
      OBVIOUS
    <3> QED
      BY <3>1, <3>2, <3>3, Zenon
  <2>3. Len(b) = Len(h) + Len(t) /\ \A j \in 1..Len(t) : b[Len(h) + j] = t[j]
    BY <1>9, <2>2, ConcatAt
  <2> QED
    BY <1>8, <2>3
<1>12. ASSUME NEW p \in 7..Len(b)
       PROVE  b[p] \in TailCells
  <2>1. PICK m \in Nat : m = Len(t)
    BY <1>7
  <2>2. PICK j \in 1..m : p = 6 + j
    <3>1. p - 6 \in 1..m /\ p = 6 + (p - 6)
      BY <1>11, <2>1
    <3> QED
      BY <3>1
  <2>3. b[p] = t[j] /\ t[j] \in TailCells
    BY <1>7, <1>11, <2>1, <2>2
  <2> QED
    BY <2>3
<1> QED
  BY <1>10, <1>12

LEMMA NoBindingV1 ==
  ASSUME Inv, version = 1, NEW p \in DOMAIN data, p >= 7
  PROVE  data[p] # Binding(Sha(total))
<1>1. total \in Nat /\ data \in Seq(CellsOf(total)) /\ Len(data) <= Len(Written)
      /\ (data[p] = Written[p] \/ data[p] \in Decay)
  BY TotalsAreNat DEF Inv
<1>2. Written = ToBytesV1(total)
  BY WrittenType DEF Inv
<1>3. PICK body : body = BodyV1(total)
  OBVIOUS
<1>4. body \in Seq(Plain(total))
  <2>1. PICK e : Sums(e, Lengths(RecordsV1(Windows(total))))
    BY <1>1, SegmentsAtV1
  <2> QED
    BY <1>1, <1>3, <2>1, LayoutV1
<1>5. /\ Written \in Seq(CellsV1(total)) /\ Len(Written) = Len(body) + 1
      /\ \A j \in 1..Len(body) : Written[j] = body[j]
      /\ Written[Len(body) + 1] = Hash(body)
  BY <1>1, <1>2, <1>3, WholeV1
<1>6. PICK m \in Nat, l \in Nat : m = Len(body) /\ l = Len(data) /\ l <= m + 1
  BY <1>1, <1>4, <1>5
<1>7. p \in 7..m + 1
  <2>1. p \in 1..l
    BY <1>1, <1>6
  <2> QED
    BY <1>6, <2>1
<1>8. Written[p] \in TailCells \/ Written[p] = Hash(body)
  <2>1. CASE p = m + 1
    BY <1>5, <1>6, <2>1
  <2>2. CASE p # m + 1
    <3>1. p \in 7..m /\ p \in 1..m
      BY <1>7, <2>2
    <3>2. body[p] \in TailCells
      BY <1>1, <1>3, <1>6, <3>1, TailV1
    <3> QED
      BY <1>5, <1>6, <3>1, <3>2
  <2> QED
    BY <2>1, <2>2
<1>9. Binding(Sha(total))[1] = "binding"
  BY DEF Binding
<1>10. \A x \in Decay : x[1] # "binding"
  BY DEF Decay, Number
<1>11. \A x \in TailCells : x[1] # "binding"
  BY ParityIsNoNumber DEF TailCells, Number
<1>12. Hash(body)[1] # "binding"
  BY DEF Hash
<1> QED
  BY <1>1, <1>8, <1>9, <1>10, <1>11, <1>12

\* Every field of what is recovered is in one of the three copies.
LEMMA RecoveredFrom ==
  ASSUME NEW C, NEW bytes \in Seq(C), NEW n \in Nat, ParityStart(n) <= Len(bytes),
         NEW b \in 1..DirLen(n)
  PROVE  \E i \in 1..3 : /\ RecoveredDirectory(bytes, n)[b] = bytes[CopyBase(n, i) + b]
                         /\ CopyBase(n, i) + b \in DOMAIN bytes /\ CopyBase(n, i) >= 5
<1>1. \A i \in 1..3 : CopyBase(n, i) + b \in DOMAIN bytes /\ CopyBase(n, i) >= 5
  <2> TAKE i \in 1..3
  <2>1. /\ CopyBase(n, i) \in Nat /\ DirLen(n) \in Nat /\ ParityStart(n) \in Nat
        /\ CopyBase(n, i) + DirLen(n) + 1 <= ParityStart(n)
    BY CopyBases DEF DirectoryCopies
  <2>2. CopyBase(n, i) + b \in DOMAIN bytes
    BY <2>1
  <2>3. CopyBase(n, i) >= 5
    <3>1. /\ CopyBase(n, 1) = 5 /\ CopyBase(n, 2) = 9 + 4 * n /\ CopyBase(n, 3) = 13 + 8 * n
      BY BasesAre
    <3>2. i = 1 \/ i = 2 \/ i = 3
      OBVIOUS
    <3> QED
      BY <3>1, <3>2
  <2> QED
    BY <2>2, <2>3
<1>2. CASE \E i \in 1..DirectoryCopies : Intact(bytes, n, i)
  <2>1. PICK S \in SUBSET Nat : S = { i \in 1..DirectoryCopies : Intact(bytes, n, i) } /\ S # {}
    <3>1. 1..DirectoryCopies \subseteq Nat
      BY DEF DirectoryCopies
    <3> QED
      BY <1>2, <3>1
  <2>2. PICK k \in S : \A j \in S : k <= j
    BY <2>1, LeastElement
  <2>3. Min(S) = k
    BY <2>2, LeastIsMin
  <2>4. k \in 1..DirectoryCopies /\ k \in 1..3
    BY <2>1 DEF DirectoryCopies
  <2>5. RecoveredDirectory(bytes, n) = Copy(bytes, n, k)
    BY <2>1, <2>3 DEF RecoveredDirectory
  <2>6. Copy(bytes, n, k)[b] = bytes[CopyBase(n, k) + b]
    BY <2>4, CopyType
  <2> QED
    BY <1>1, <2>4, <2>5, <2>6
<1>3. CASE ~\E i \in 1..DirectoryCopies : Intact(bytes, n, i)
  <2>1. RecoveredDirectory(bytes, n) = Vote(bytes, n)
    BY <1>3, VotedDirectory
  <2>2. Vote(bytes, n)[b] =
          IF bytes[CopyBase(n, 2) + b] = bytes[CopyBase(n, 3) + b] THEN bytes[CopyBase(n, 2) + b]
          ELSE bytes[CopyBase(n, 1) + b]
    BY VoteIs
  <2>3. 1 \in 1..3 /\ 2 \in 1..3
    OBVIOUS
  <2> QED
    BY <1>1, <2>1, <2>2, <2>3
<1> QED
  BY <1>2, <1>3

\* Nothing but the right count gives a directory that passes for the file's.
LEMMA CountIsRight ==
  ASSUME Inv, Wear, version = 2, damage <= 3, NEW n \in Nat, Usable(data, n),
         NEW j \in 1..DirectoryCopies, n = Read(data[2 + j]), Len(data) >= PrefixLen,
         Accepted(Decoded(data, n), total)
  PROVE  n = Count
<1>1. /\ total \in Nat /\ Count \in Nat \ {0} /\ data \in Seq(CellsOf(total))
      /\ Written = ToBytes(total) /\ damage \in Nat
      /\ Len(data) \in Nat /\ DOMAIN data = 1..Len(data)
      /\ Len(Written) \in Nat /\ Len(data) <= Len(Written)
      /\ HasLayout(ToBytes(total), CellsV2(total), Count, EncodeDirectory(total), Parity(total))
  BY WrittenV2
<1>2. n \in Nat \ {0} /\ ParityStart(n) <= Len(data)
  BY DEF Usable, Fits
<1>3. Decoded(data, n) # Refused
  BY DEF Accepted
<1>4. ~(n > Count)
  BY <1>2, <1>3, TooMany
<1>5. SUFFICES ASSUME n < Count PROVE FALSE
  BY <1>1, <1>2, <1>4
<1>6. Len(data) < Len(Written)
  <2>1. Len(data) # Len(Written)
    BY <1>2, <1>3, <1>5, TooFewWhole
  <2> QED
    BY <1>1, <2>1
<1>7. IsFiniteSet(Damaged) /\ Cardinality(Damaged) \in Nat /\ Cardinality(Damaged) <= 1
  <2>1. IsFiniteSet(Damaged) /\ Cardinality(Damaged) + 2 <= damage
    BY <1>6 DEF Wear, Spent
  <2>2. Cardinality(Damaged) \in Nat
    BY <2>1, FS_CardinalityType
  <2> QED
    BY <1>1, <2>1, <2>2
<1>8. 2 + j \in Damaged
  <2>1. 2 + j \in DOMAIN data
    BY <1>1 DEF PrefixLen, DirectoryCopies
  <2>2. Written[2 + j] = Number(Count)
    BY <1>1 DEF HasLayout
  <2>3. Read(Number(Count)) = Count
    BY DEF Read, Number
  <2>4. data[2 + j] # Written[2 + j]
    BY <1>1, <1>5, <2>2, <2>3
  <2> QED
    BY <2>1, <2>4 DEF Damaged
<1>9. \A p \in DOMAIN data : p > PrefixLen => data[p] = Written[p]
  <2> TAKE p \in DOMAIN data
  <2>1. SUFFICES ASSUME p > PrefixLen, data[p] # Written[p] PROVE FALSE
    OBVIOUS
  <2>2. p \in Damaged
    BY <2>1 DEF Damaged
  <2>3. p # 2 + j
    BY <1>1, <2>1 DEF PrefixLen, DirectoryCopies
  <2>4. Cardinality(Damaged) >= 2
    BY <1>7, <1>8, <2>2, <2>3, TwoInAll
  <2> QED
    BY <1>7, <2>4
<1>10. ~Tiles(Segments(Vote(data, n), n), total)
  BY <1>2, <1>5, <1>9, TooFewCut
<1>11. RecoveredDirectory(data, n) = Vote(data, n)
  BY <1>1, <1>2, <1>5, IntactIsCount, VotedDirectory
<1>12. Decoded(data, n).segments = Segments(Vote(data, n), n)
  BY <1>3, <1>11 DEF Decoded
<1> QED
  BY <1>10, <1>12 DEF Accepted

LEMMA OpensRightV2 ==
  ASSUME Inv, Wear, version = 2, damage <= 3, Len(data) >= PrefixLen,
         NEW dir \in {ParsedV2(data), OpenedV2(data)}, Accepted(dir, total)
  PROVE  Placed(dir)
<1>1. data \in Seq(CellsOf(total)) /\ dir # Refused
  BY DEF Inv, Accepted
<1>2. PICK n \in Nat : /\ Usable(data, n) /\ dir = Decoded(data, n)
                       /\ \E j \in 1..DirectoryCopies : n = Read(data[2 + j])
  BY <1>1, FoundV2
<1>3. n = Count
  BY <1>2, CountIsRight
<1>4. ParityStart(n) <= Len(data)
  BY <1>2 DEF Usable, Fits
<1>5. PICK s : s = Segments(RecoveredDirectory(data, n), n)
  OBVIOUS
<1>6. Accounted(s, Len(data)) /\ dir.segments = s
  BY <1>1, <1>2, <1>5 DEF Decoded
<1>7. Tiles(s, total)
  BY <1>6 DEF Accepted
<1>8. Found(s, total, n, ParityEnds(total))
  BY <1>3, <1>4, <1>5, <1>6, <1>7, AcceptedFound
<1> QED
  BY <1>3, <1>6, <1>8, FoundPlaced

\* Version 1 taken for version 2: no identity is where it would have to be.
LEMMA NotTakenForV2 ==
  ASSUME Inv, version = 1, Len(data) >= PrefixLen,
         NEW dir \in {ParsedV2(data), OpenedV2(data)}
  PROVE  ~Accepted(dir, total)
<1>1. SUFFICES ASSUME Accepted(dir, total) PROVE FALSE
  OBVIOUS
<1>2. data \in Seq(CellsOf(total)) /\ dir # Refused /\ dir.binding = Binding(Sha(total))
  BY <1>1 DEF Inv, Accepted
<1>3. PICK n \in Nat : Usable(data, n) /\ dir = Decoded(data, n)
  BY <1>2, FoundV2
<1>4. ParityStart(n) <= Len(data)
  BY <1>3 DEF Usable, Fits
<1>5. RecoveredDirectory(data, n)[2] = Binding(Sha(total))
  BY <1>2, <1>3 DEF Decoded
<1>6. 2 \in 1..DirLen(n)
  BY BasesAre
<1>7. PICK i \in 1..3 : /\ RecoveredDirectory(data, n)[2] = data[CopyBase(n, i) + 2]
                        /\ CopyBase(n, i) + 2 \in DOMAIN data /\ CopyBase(n, i) >= 5
  BY <1>2, <1>4, <1>6, RecoveredFrom
<1>8. CopyBase(n, i) + 2 >= 7
  <2>1. CopyBase(n, i) \in Nat
    BY CopyBases DEF DirectoryCopies
  <2> QED
    BY <1>7, <2>1
<1> QED
  BY <1>5, <1>7, <1>8, NoBindingV1

\* Version 1 is what it was, or it is refused; and version 2 is never taken for it.
LEMMA OpensRightV1 ==
  ASSUME Inv, VersionOf(data) = 1,
         NEW dir \in {ParsedV1(data), OpenedV1(data)}, dir # Refused
  PROVE  Placed(dir)
<1>1. total \in Nat /\ data \in Seq(CellsOf(total)) /\ version \in {1, 2}
  BY TotalsAreNat DEF Inv
<1>2. /\ data = ToBytesV1(total) /\ Len(data) > 6
      /\ dir.segments = SegmentsV1(ToBytesV1(total))
  BY <1>1, ReadV1
<1>3. version = 1
  <2>1. SUFFICES ASSUME version = 2 PROVE FALSE
    BY <1>1
  <2>2. PICK body : body = BodyV1(total)
    OBVIOUS
  <2>3. PICK m \in Nat : /\ m = Len(body) /\ Len(data) = m + 1 /\ data[m + 1] = Hash(body)
                         /\ m >= 6 /\ body[1] = Magic
    <3>1. PICK e : Sums(e, Lengths(RecordsV1(Windows(total))))
      BY <1>1, SegmentsAtV1
    <3>2. body \in Seq(Plain(total))
      BY <1>1, <2>2, <3>1, LayoutV1
    <3>3. Len(data) = Len(body) + 1 /\ data[Len(body) + 1] = Hash(body)
          /\ \A j \in 1..Len(body) : data[j] = body[j]
      BY <1>1, <1>2, <2>2, WholeV1
    <3>4. Len(body) \in Nat
      BY <3>2
    <3>5. Len(data) > 6 /\ data[1] = Magic
      BY <1>2 DEF VersionOf
    <3>6. 1 \in 1..Len(body)
      BY <3>3, <3>4, <3>5
    <3> QED
      BY <3>3, <3>4, <3>5, <3>6
  <2>4. data[m + 1] = Written[m + 1] \/ data[m + 1] \in Decay
    BY <1>1, <2>3 DEF Inv
  <2>5. m + 1 \in DOMAIN Written /\ Written \in Seq(CellsV2(total))
    BY <2>1, <2>3, WrittenV2
  <2>6. Written[m + 1] \in CellsV2(total)
    BY <2>5
  <2>7. Hash(body)[1] = "hash"
    BY DEF Hash
  <2>8. Hash(body) \notin Decay /\ Hash(body) \notin Plain(total)
    <3>1. \A x \in Decay : x[1] # "hash"
      BY DEF Decay, Number
    <3>2. \A x \in Plain(total) : x[1] # "hash"
      BY PlainKinds
    <3> QED
      BY <2>7, <3>1, <3>2
  <2>9. Hash(body) = Hash(EncodeDirectory(total))
    BY <2>3, <2>4, <2>6, <2>8 DEF CellsV2
  <2>10. body = EncodeDirectory(total)
    BY <2>9 DEF Hash
  <2>11. body[1] = Number(total)
    BY <1>1, <2>10, DirectoryType DEF DirectoryOf
  <2> QED
    BY <2>3, <2>11 DEF Number, Magic
<1>4. Written = ToBytesV1(total)
  BY <1>1, <1>3, WrittenType DEF Inv
<1>5. PlacedV1(SegmentsV1(ToBytesV1(total)), total)
  BY <1>1, RecordsInV1
<1> QED
  BY <1>2, <1>4, <1>5 DEF PlacedV1, Placed, Count

LEMMA OpensRight ==
  ASSUME Inv, Wear, damage <= 3
  PROVE  OpensTheRightWindows
<1>1. SUFFICES ASSUME NEW dir \in {Opened(data), Parsed(data)}, Accepted(dir, total)
               PROVE  Placed(dir)
  BY DEF OpensTheRightWindows
<1>2. dir # Refused /\ version \in {1, 2}
  BY <1>1 DEF Accepted, Inv
<1>3. CASE VersionOf(data) = 2 /\ Len(data) >= PrefixLen
  <2>1. dir \in {ParsedV2(data), OpenedV2(data)}
    BY <1>3 DEF Opened, Parsed
  <2>2. version = 2
    BY <1>1, <1>2, <1>3, <2>1, NotTakenForV2
  <2> QED
    BY <1>1, <1>3, <2>1, <2>2, OpensRightV2
<1>4. CASE ~(VersionOf(data) = 2 /\ Len(data) >= PrefixLen)
  <2>1. VersionOf(data) = 1 /\ dir \in {ParsedV1(data), OpenedV1(data)}
    BY <1>2, <1>4 DEF Opened, Parsed
  <2> QED
    BY <1>2, <2>1, OpensRightV1
<1> QED
  BY <1>3, <1>4

\* Three damages, whatever and wherever they are, cannot make a sidecar pass for
\* the right one that is not: what the count, the votes and the sums are each
\* checked against.  A missing piece is two of the three.
THEOREM OpensRightAlways == Spec => [](damage <= 3 => OpensTheRightWindows)
<1>1. Inv /\ Wear => (damage <= 3 => OpensTheRightWindows)
  BY OpensRight
<1> QED
  BY WearAlways, <1>1, PTL

-----------------------------------------------------------------------------
(* One slot of the count.                                                   *)

\* None of the three slots goes untried.
LEMMA EverySlotTried ==
  ASSUME NEW bytes, NEW j \in 1..DirectoryCopies
  PROVE  \E i \in 1..Len(CandidateCounts(bytes)) : CandidateCounts(bytes)[i] = Slots(bytes)[j]
<1> DEFINE s == Slots(bytes)
           Other(i) == IF s[i] = Likely(bytes) THEN <<>> ELSE << s[i] >>
<1>1. CandidateCounts(bytes) = << Likely(bytes) >> \o Other(1) \o Other(2) \o Other(3)
  BY DEF CandidateCounts, Likely
<1>2. PICK S : S = {s[1], s[2], s[3]}
  OBVIOUS
<1>3. Likely(bytes) \in S /\ s[1] \in S /\ s[2] \in S /\ s[3] \in S
  BY <1>2 DEF Likely
<1> HIDE DEF s
<1>4. \A x \in S : << x >> \in Seq(S)
  OBVIOUS
<1>5. <<>> \in Seq(S)
  OBVIOUS
<1>6. Other(1) \in Seq(S) /\ Other(2) \in Seq(S) /\ Other(3) \in Seq(S)
  BY <1>3, <1>4, <1>5
<1>7. PICK o1 \in Seq(S), o2 \in Seq(S), o3 \in Seq(S) : o1 = Other(1) /\ o2 = Other(2) /\ o3 = Other(3)
  BY <1>6
<1>8. PICK a \in Seq(S) : a = << Likely(bytes) >> /\ Len(a) = 1 /\ a[1] = Likely(bytes)
  BY <1>3, <1>4
<1>9. /\ s[1] = Likely(bytes) \/ (Len(o1) = 1 /\ o1[1] = s[1])
      /\ s[2] = Likely(bytes) \/ (Len(o2) = 1 /\ o2[1] = s[2])
      /\ s[3] = Likely(bytes) \/ (Len(o3) = 1 /\ o3[1] = s[3])
  BY <1>7
<1> HIDE DEF Other
<1>10. PICK b \in Seq(S) : b = a \o o1
  <2>1. a \o o1 \in Seq(S)
    OBVIOUS
  <2> QED
    BY <2>1
<1>11. PICK c \in Seq(S) : c = b \o o2
  <2>1. b \o o2 \in Seq(S)
    OBVIOUS
  <2> QED
    BY <2>1
<1>12. PICK d \in Seq(S) : d = c \o o3
  <2>1. c \o o3 \in Seq(S)
    OBVIOUS
  <2> QED
    BY <2>1
<1>13. CandidateCounts(bytes) = d
  BY <1>1, <1>7, <1>8, <1>10, <1>11, <1>12
<1>14. PICK l1 \in Nat, l2 \in Nat, l3 \in Nat : l1 = Len(o1) /\ l2 = Len(o2) /\ l3 = Len(o3)
  OBVIOUS
<1>15. /\ Len(b) = 1 + l1
       /\ b[1] = a[1] /\ \A i \in 1..l1 : b[1 + i] = o1[i]
  BY <1>8, <1>10, <1>14, ConcatAt
<1>16. /\ Len(c) = 1 + l1 + l2
       /\ \A i \in 1..1 + l1 : c[i] = b[i]
       /\ \A i \in 1..l2 : c[1 + l1 + i] = o2[i]
  <2>1. Len(c) = Len(b) + Len(o2) /\ \A i \in 1..Len(b) : c[i] = b[i]
    BY <1>11, ConcatAt
  <2>2. \A i \in 1..Len(o2) : c[Len(b) + i] = o2[i]
    BY <1>11, ConcatAt
  <2>3. Len(b) = 1 + l1 /\ Len(o2) = l2
    BY <1>14, <1>15
  <2> QED
    BY <1>14, <2>1, <2>2, <2>3
<1>17. /\ Len(d) = 1 + l1 + l2 + l3
       /\ \A i \in 1..1 + l1 + l2 : d[i] = c[i]
       /\ \A i \in 1..l3 : d[1 + l1 + l2 + i] = o3[i]
  <2>1. Len(d) = Len(c) + Len(o3) /\ \A i \in 1..Len(c) : d[i] = c[i]
    BY <1>12, ConcatAt
  <2>2. \A i \in 1..Len(o3) : d[Len(c) + i] = o3[i]
    BY <1>12, ConcatAt
  <2>3. Len(c) = 1 + l1 + l2 /\ Len(o3) = l3
    BY <1>14, <1>16
  <2> QED
    BY <1>14, <2>1, <2>2, <2>3
<1>18. \E i \in 1..Len(d) : d[i] = Likely(bytes)
  <2>1. d[1] = Likely(bytes)
    BY <1>8, <1>14, <1>15, <1>16, <1>17
  <2> QED
    BY <1>14, <1>17, <2>1
<1>19. \E i \in 1..Len(d) : d[i] = s[1]
  <2>1. CASE Len(o1) = 1 /\ o1[1] = s[1]
    <3>1. b[2] = s[1]
      BY <1>14, <1>15, <2>1
    <3>2. c[2] = s[1] /\ d[2] = s[1]
      BY <1>14, <1>16, <1>17, <2>1, <3>1
    <3> QED
      BY <1>14, <1>17, <2>1, <3>2
  <2> QED
    BY <1>9, <1>18, <2>1
<1>20. \E i \in 1..Len(d) : d[i] = s[2]
  <2>1. CASE Len(o2) = 1 /\ o2[1] = s[2]
    <3>1. c[1 + l1 + 1] = s[2]
      BY <1>14, <1>16, <2>1
    <3>2. d[1 + l1 + 1] = s[2]
      BY <1>14, <1>17, <2>1, <3>1
    <3> QED
      BY <1>14, <1>17, <2>1, <3>2
  <2> QED
    BY <1>9, <1>18, <2>1
<1>21. \E i \in 1..Len(d) : d[i] = s[3]
  <2>1. CASE Len(o3) = 1 /\ o3[1] = s[3]
    <3>1. l3 = 1 /\ 1 + l1 + l2 + 1 \in 1..Len(d)
      BY <1>14, <1>17, <2>1
    <3>2. d[1 + l1 + l2 + 1] = s[3]
      BY <1>17, <2>1, <3>1
    <3> QED
      BY <3>1, <3>2
  <2> QED
    BY <1>9, <1>18, <2>1
<1>22. j \in {1, 2, 3}
  BY DEF DirectoryCopies
<1> QED
  BY <1>13, <1>19, <1>20, <1>21, <1>22 DEF s

\* No count but the right one gives a directory as long as nothing is cut off.
LEMMA OnlyCount ==
  ASSUME Inv, Wear, FrameThere, damage <= 3,
         NEW i \in GivesAt(data), Len(data) >= PrefixLen
  PROVE  Read(CandidateCounts(data)[i]) = Count
<1>1. PICK m \in Nat \ {0} :
        /\ Len(CandidateCounts(data)) = m
        /\ \A k \in 1..m : \E j \in 1..DirectoryCopies : CandidateCounts(data)[k] = Slots(data)[j]
  BY CountsType
<1>2. PICK j \in 1..DirectoryCopies : CandidateCounts(data)[i] = Slots(data)[j]
  BY <1>1 DEF GivesAt
<1>3. data \in Seq(CellsOf(total)) /\ version = 2 /\ Len(data) = Len(Written)
  BY DEF Inv, FrameThere
<1>4. CandidateCounts(data)[i] \in CellsOf(total)
  BY <1>2, <1>3, SlotsType
<1>5. PICK n \in Nat : n = Read(CandidateCounts(data)[i])
  BY <1>4, CellKinds
<1>6. Usable(data, n) /\ Decoded(data, n) # Refused
  BY <1>5 DEF GivesAt, Gives
<1>7. n \in Nat \ {0} /\ ParityStart(n) <= Len(data)
  BY <1>6 DEF Usable, Fits
<1>8. Count \in Nat
  BY <1>3, WrittenV2
<1>9. ~(n > Count)
  BY <1>3, <1>6, <1>7, TooMany
<1>10. ~(n < Count)
  BY <1>3, <1>6, <1>7, TooFewWhole
<1> QED
  BY <1>5, <1>7, <1>8, <1>9, <1>10

LEMMA OneSlotOpens ==
  ASSUME Inv, Wear, FrameThere, SlotsRight # {}, damage <= 3, DirectoryFits(total)
  PROVE  Accepted(Opened(data), total) /\ Exact(Opened(data))
<1>1. PICK n, dir : n = Count /\ dir = Decoded(data, n)
  OBVIOUS
<1>2. /\ Usable(data, n) /\ dir # Refused /\ Accepted(dir, total) /\ Exact(dir)
      /\ Len(data) >= PrefixLen /\ VersionOf(data) = 2
  BY <1>1, GoodDirectory
<1>3. PICK j \in 1..DirectoryCopies : data[2 + j] = Number(n)
  BY <1>1 DEF SlotsRight
<1>4. data \in Seq(CellsOf(total))
  BY DEF Inv
<1>5. PICK i \in 1..Len(CandidateCounts(data)) : CandidateCounts(data)[i] = Number(n)
  BY <1>2, <1>3, <1>4, SlotsType, EverySlotTried
<1>6. Read(Number(n)) = n
  BY DEF Read, Number
<1>7. i \in GivesAt(data)
  BY <1>1, <1>2, <1>5, <1>6 DEF GivesAt, Gives
<1>8. GivesAt(data) \in SUBSET Nat
  BY CountsType DEF GivesAt
<1>9. PICK k \in GivesAt(data) : \A m \in GivesAt(data) : k <= m
  BY <1>7, <1>8, LeastElement
<1>10. Min(GivesAt(data)) = k
  BY <1>8, <1>9, LeastIsMin
<1>11. Read(CandidateCounts(data)[k]) = n
  BY <1>1, <1>2, <1>9, OnlyCount
<1>12. OpenedV2(data) = dir
  BY <1>1, <1>2, <1>7, <1>10, <1>11, OpenedFirst DEF Gives
<1>13. Opened(data) = dir
  BY <1>2, <1>12 DEF Opened
<1> QED
  BY <1>2, <1>13

\* The reader from disk finds the directory by one slot alone: as long as the frame
\* stands and one copy of the directory, or two of each field, have what to_bytes
\* wrote, two slots that say anything else, and the same, are seen through, because
\* what they lead to does not come out at the length of the sidecar.
THEOREM OneSlotAlways ==
  Spec => [](damage <= 3 /\ DirectoryFits(total) => OneSlotIsEnough)
<1>1. Inv /\ Wear => (damage <= 3 /\ DirectoryFits(total) => OneSlotIsEnough)
  BY OneSlotOpens DEF OneSlotIsEnough
<1> QED
  BY InvAlways, WearAlways, <1>1, PTL
=============================================================================
