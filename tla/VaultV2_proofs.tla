--------------------------- MODULE VaultV2_proofs ---------------------------
(***************************************************************************)
(* Proofs about the older container.  What a call makes of a container is  *)
(* defined by recursion over files or entries; the first lemmas give the   *)
(* induction that says what such a definition computes.  The invariant is  *)
(* then about every container in play: on the disk, in the memory of a     *)
(* call, or about to be put in place.                                      *)
(***************************************************************************)
EXTENDS VaultV2, VaultPaths_proofs, WellFoundedInduction

-----------------------------------------------------------------------------
(* Induction over the natural numbers, from their well-foundedness.        *)

LEMMA LeastElement ==
  ASSUME NEW S \in SUBSET Nat, S # {}
  PROVE  \E n \in S : \A m \in S : n <= m
<1>1. IsWellFoundedOn({ ss \in Nat \X Nat : ss[1] < ss[2] }, Nat)
  BY NatLessThanWellFounded DEF OpToRel
<1>2. PICK n \in S : \A m \in S : <<m, n>> \notin { ss \in Nat \X Nat : ss[1] < ss[2] }
  BY <1>1, WFMin
<1>3. ASSUME NEW m \in S
      PROVE  n <= m
  <2>1. m \in Nat /\ n \in Nat /\ <<m, n>> \in Nat \X Nat
    OBVIOUS
  <2>2. ~(m < n)
    BY <1>2, <2>1
  <2> QED
    BY <2>1, <2>2
<1> QED
  BY <1>3

LEMMA Induction ==
  ASSUME NEW S, 0 \in S, \A n \in Nat : n \in S => n + 1 \in S
  PROVE  \A n \in Nat : n \in S
<1>1. SUFFICES ASSUME Nat \ S # {} PROVE FALSE
  OBVIOUS
<1>2. PICK n \in Nat \ S : \A m \in Nat \ S : n <= m
  BY <1>1, LeastElement
<1>3. n # 0 /\ n - 1 \in Nat
  BY <1>2
<1>4. n - 1 \in S
  BY <1>2, <1>3
<1> QED
  BY <1>2, <1>3, <1>4

\* f runs n times: from first, each value made of the one before.
Runs(f, X, first, n, next) ==
  /\ f \in [0..n -> X]
  /\ f[0] = first
  /\ \A k \in 1..n : f[k] = next[<<f[k - 1], k>>]

\* What a recursion over the first n numbers defines exists, if each value is made
\* of the one before within a set X; next is a step of it.
LEMMA Recursion ==
  ASSUME NEW X, NEW first \in X, NEW n \in Nat, NEW next \in [X \X (1..n) -> X]
  PROVE  \E f : Runs(f, X, first, n, next)
<1> USE DEF Runs
<1> DEFINE Good(f, m) == Runs(f, X, first, m, next)
           N == { m \in Nat : m <= n => \E f : Good(f, m) }
<1>1. 0 \in N
  <2>1. Good([k \in 0..0 |-> first], 0)
    OBVIOUS
  <2> QED
    BY <2>1
<1>2. ASSUME NEW m \in Nat, m \in N
      PROVE  m + 1 \in N
  <2>1. SUFFICES ASSUME m + 1 <= n
                 PROVE  \E g : Good(g, m + 1)
    OBVIOUS
  <2>2. PICK f : Good(f, m)
    BY <1>2, <2>1
  <2> DEFINE g == [k \in 0..m + 1 |-> IF k <= m THEN f[k] ELSE next[<<f[m], m + 1>>]]
  <2>3. f[m] \in X /\ <<f[m], m + 1>> \in X \X (1..n)
    BY <2>1, <2>2
  <2>4. next[<<f[m], m + 1>>] \in X
    BY <2>3
  <2>5. g \in [0..m + 1 -> X]
    BY <2>2, <2>4
  <2>6. \A k \in 0..m : g[k] = f[k]
    OBVIOUS
  <2>7. g[m + 1] = next[<<f[m], m + 1>>]
    OBVIOUS
  <2> HIDE DEF g
  <2>8. ASSUME NEW k \in 1..m + 1
        PROVE  g[k] = next[<<g[k - 1], k>>]
    <3>1. CASE k = m + 1
      <4>1. k - 1 = m /\ m \in 0..m
        BY <3>1
      <4>2. g[k - 1] = f[m]
        BY <2>6, <4>1
      <4> QED
        BY <2>7, <3>1, <4>1, <4>2
    <3>2. CASE k # m + 1
      <4>1. k \in 1..m /\ k - 1 \in 0..m /\ k \in 0..m
        BY <3>2
      <4> QED
        BY <2>2, <2>6, <4>1
    <3> QED
      BY <3>1, <3>2
  <2>9. g[0] = first
    BY <2>2, <2>6
  <2>10. Good(g, m + 1)
    BY <2>5, <2>8, <2>9
  <2> QED
    BY <2>10
<1>3. n \in N
  <2> HIDE DEF N
  <2> QED
    BY <1>1, <1>2, Induction
<1>4. PICK f : Good(f, n)
  BY <1>3
<1> QED
  BY <1>4

Alike(f, g, n) ==
  f[0] = g[0] /\ \A k \in 1..n : f[k - 1] = g[k - 1] => f[k] = g[k]

Equal(f, g, n) == \A k \in 0..n : f[k] = g[k]

\* It defines one function only.
LEMMA RecursionUnique ==
  ASSUME NEW n \in Nat, NEW f, NEW g, Alike(f, g, n)
  PROVE  Equal(f, g, n)
<1> USE DEF Alike, Equal
<1> DEFINE N == { m \in Nat : m <= n => f[m] = g[m] }
<1>1. 0 \in N
  OBVIOUS
<1>2. ASSUME NEW m \in Nat, m \in N
      PROVE  m + 1 \in N
  <2>1. SUFFICES ASSUME m + 1 <= n PROVE f[m + 1] = g[m + 1]
    OBVIOUS
  <2>2. f[m] = g[m] /\ m + 1 \in 1..n /\ (m + 1) - 1 = m
    BY <1>2, <2>1
  <2> QED
    BY <2>2
<1>3. \A m \in Nat : m \in N
  <2> HIDE DEF N
  <2> QED
    BY <1>1, <1>2, Induction
<1> QED
  BY <1>3

\* Only, element by element.
Keeps(kept, S, s, keep) ==
  /\ kept \in [0..Len(s) -> Seq(S)]
  /\ kept[0] = <<>>
  /\ \A k \in 1..Len(s) : kept[k] = IF s[k] \in keep THEN Append(kept[k - 1], s[k])
                                    ELSE kept[k - 1]
  /\ Only(s, keep) = kept[Len(s)]

LEMMA OnlyEquation ==
  ASSUME NEW S, NEW s \in Seq(S), NEW keep
  PROVE  \E kept : Keeps(kept, S, s, keep)
<1> DEFINE Equation(f) == f = [k \in 0..Len(s) |->
                                  IF k = 0 THEN <<>>
                                  ELSE IF s[k] \in keep THEN Append(f[k - 1], s[k])
                                       ELSE f[k - 1]]
<1>1. PICK n \in Nat : n = Len(s)
  OBVIOUS
<1>2. PICK X : X = Seq(S)
  OBVIOUS
<1>3. PICK next \in [X \X (1..n) -> X] :
        \A t \in X, k \in 1..n :
          next[<<t, k>>] = IF s[k] \in keep THEN Append(t, s[k]) ELSE t
  <2> DEFINE next == [w \in X \X (1..n) |->
                        IF s[w[2]] \in keep THEN Append(w[1], s[w[2]]) ELSE w[1]]
  <2>1. \A t \in X, k \in 1..n : Append(t, s[k]) \in X
    BY <1>1, <1>2
  <2>2. next \in [X \X (1..n) -> X]
    BY <2>1
  <2>3. \A t \in X, k \in 1..n :
          next[<<t, k>>] = IF s[k] \in keep THEN Append(t, s[k]) ELSE t
    OBVIOUS
  <2> QED
    BY <2>2, <2>3
<1>4. PICK f \in [0..n -> X] :
        f[0] = <<>> /\ \A k \in 1..n : f[k] = next[<<f[k - 1], k>>]
  <2>1. <<>> \in Seq(S)
    OBVIOUS
  <2>2. PICK f : Runs(f, X, <<>>, n, next)
    BY <1>2, <2>1, Recursion
  <2> QED
    BY <2>2 DEF Runs
<1>5. \A k \in 1..n : f[k] = IF s[k] \in keep THEN Append(f[k - 1], s[k]) ELSE f[k - 1]
  <2>1. \A k \in 1..n : f[k - 1] \in X
    OBVIOUS
  <2> QED
    BY <1>3, <1>4, <2>1
<1>6. Equation(f)
  <2>1. \A k \in 0..n : k # 0 => k \in 1..n
    OBVIOUS
  <2>2. f = [k \in 0..n |-> f[k]]
    OBVIOUS
  <2> QED
    BY <1>1, <1>4, <1>5, <2>1, <2>2
<1>7. PICK kept : Equation(kept) /\ Only(s, keep) = kept[Len(s)]
  <2> DEFINE kept == CHOOSE g : Equation(g)
  <2>1. Only(s, keep) = kept[Len(s)]
    BY DEF Only
  <2>2. Equation(kept)
    <3> HIDE DEF Equation
    <3> QED
      BY <1>6
  <2> HIDE DEF kept, Equation
  <2> QED
    BY <2>1, <2>2
<1>8. /\ kept[0] = <<>>
      /\ \A k \in 1..n : kept[k] = IF s[k] \in keep THEN Append(kept[k - 1], s[k])
                                   ELSE kept[k - 1]
  <2>1. \A k \in 0..Len(s) : kept[k] = IF k = 0 THEN <<>>
                                      ELSE IF s[k] \in keep THEN Append(kept[k - 1], s[k])
                                           ELSE kept[k - 1]
    BY <1>7
  <2>2. 0 \in 0..n /\ \A k \in 1..n : k \in 0..n /\ k # 0
    OBVIOUS
  <2> HIDE DEF Equation
  <2> QED
    BY <1>1, <2>1, <2>2
<1>9. \A k \in 0..n : kept[k] = f[k]
  <2>1. \A k \in 1..n : kept[k - 1] = f[k - 1] => kept[k] = f[k]
    BY <1>5, <1>8
  <2>2. Alike(kept, f, n)
    BY <1>4, <1>8, <2>1 DEF Alike
  <2>3. Equal(kept, f, n)
    BY <2>2, RecursionUnique
  <2> QED
    BY <2>3 DEF Equal
<1> QED
  <2>1. /\ f \in [0..Len(s) -> Seq(S)]
        /\ f[0] = <<>>
        /\ \A k \in 1..Len(s) : f[k] = IF s[k] \in keep THEN Append(f[k - 1], s[k])
                                      ELSE f[k - 1]
    BY <1>1, <1>2, <1>4, <1>5
  <2>2. Only(s, keep) = f[Len(s)]
    <3>1. n \in 0..n
      OBVIOUS
    <3> QED
      BY <1>1, <1>7, <1>9, <3>1
  <2> QED
    BY <2>1, <2>2 DEF Keeps

\* t has elements of s, out of its first m, that are in keep, each at most once.
Selects(t, s, m, keep) ==
  \E g \in [1..Len(t) -> 1..m] :
    /\ \A i \in 1..Len(t) : t[i] = s[g[i]] /\ s[g[i]] \in keep
    /\ \A i, j \in 1..Len(t) : g[i] = g[j] => i = j

LEMMA SelectsMore ==
  ASSUME NEW S, NEW s \in Seq(S), NEW t \in Seq(S), NEW keep,
         NEW m \in Nat, m + 1 <= Len(s), Selects(t, s, m, keep)
  PROVE  /\ Selects(t, s, m + 1, keep)
         /\ s[m + 1] \in keep => Selects(Append(t, s[m + 1]), s, m + 1, keep)
<1>1. PICK g \in [1..Len(t) -> 1..m] :
        /\ \A i \in 1..Len(t) : t[i] = s[g[i]] /\ s[g[i]] \in keep
        /\ \A i, j \in 1..Len(t) : g[i] = g[j] => i = j
  BY DEF Selects
<1>2. Selects(t, s, m + 1, keep)
  <2>1. g \in [1..Len(t) -> 1..m + 1]
    OBVIOUS
  <2> QED
    BY <1>1, <2>1 DEF Selects
<1>3. ASSUME s[m + 1] \in keep
      PROVE  Selects(Append(t, s[m + 1]), s, m + 1, keep)
  <2>0. s[m + 1] \in S
    OBVIOUS
  <2>1. PICK u \in Seq(S) : u = Append(t, s[m + 1])
    <3>1. Append(t, s[m + 1]) \in Seq(S)
      BY <2>0
    <3> QED
      BY <3>1
  <2>2. PICK n \in Nat : n = Len(t)
    OBVIOUS
  <2>3. /\ Len(u) = n + 1 /\ u[n + 1] = s[m + 1]
        /\ \A i \in 1..n : u[i] = t[i]
    BY <2>1, <2>2
  <2> DEFINE h == [i \in 1..n + 1 |-> IF i <= n THEN g[i] ELSE m + 1]
  <2>4. h \in [1..n + 1 -> 1..m + 1] /\ h[n + 1] = m + 1 /\ \A i \in 1..n : h[i] = g[i]
    BY <2>2
  <2>5. \A i \in 1..n : h[i] \in 1..m
    BY <2>2, <2>4
  <2>6. \A i \in 1..n + 1 : i \in 1..n \/ i = n + 1
    OBVIOUS
  <2> HIDE DEF h
  <2>7. \A i \in 1..n + 1 : u[i] = s[h[i]] /\ s[h[i]] \in keep
    BY <1>1, <1>3, <2>2, <2>3, <2>4, <2>6
  <2>8. \A i, j \in 1..n + 1 : h[i] = h[j] => i = j
    <3>1. \A i, j \in 1..n : h[i] = h[j] => i = j
      BY <1>1, <2>2, <2>4
    <3>2. \A i \in 1..n : h[i] # h[n + 1]
      BY <2>4, <2>5
    <3> QED
      BY <2>6, <3>1, <3>2
  <2>9. h \in [1..Len(u) -> 1..m + 1]
    BY <2>3, <2>4
  <2>10. /\ \A i \in 1..Len(u) : u[i] = s[h[i]] /\ s[h[i]] \in keep
         /\ \A i, j \in 1..Len(u) : h[i] = h[j] => i = j
    BY <2>3, <2>7, <2>8
  <2>11. Selects(u, s, m + 1, keep)
    BY <2>9, <2>10 DEF Selects
  <2> QED
    BY <2>1, <2>11
<1> QED
  BY <1>2, <1>3

\* Only keeps elements of s that are in keep, and no place of s twice.
LEMMA OnlySelects ==
  ASSUME NEW S, NEW s \in Seq(S), NEW keep
  PROVE  Only(s, keep) \in Seq(S) /\ Selects(Only(s, keep), s, Len(s), keep)
<1>0. PICK kept : Keeps(kept, S, s, keep)
  BY OnlyEquation
<1>1. /\ kept \in [0..Len(s) -> Seq(S)]
      /\ kept[0] = <<>>
      /\ \A k \in 1..Len(s) : kept[k] = IF s[k] \in keep THEN Append(kept[k - 1], s[k])
                                        ELSE kept[k - 1]
      /\ Only(s, keep) = kept[Len(s)]
  BY <1>0 DEF Keeps
<1> DEFINE N == { m \in Nat : m <= Len(s) => Selects(kept[m], s, m, keep) }
<1>2. 0 \in N
  <2> DEFINE none == [i \in {} |-> 0]
  <2>1. Len(<<>>) = 0 /\ 1..0 = {}
    OBVIOUS
  <2>2. none \in [{} -> 1..0]
    OBVIOUS
  <2>3. none \in [1..Len(<<>>) -> 1..0]
    BY <2>1, <2>2
  <2> HIDE DEF none
  <2>4. Selects(<<>>, s, 0, keep)
    BY <2>1, <2>3 DEF Selects
  <2> QED
    BY <1>1, <2>4
<1>3. ASSUME NEW m \in Nat, m \in N
      PROVE  m + 1 \in N
  <2>1. SUFFICES ASSUME m + 1 <= Len(s)
                 PROVE  Selects(kept[m + 1], s, m + 1, keep)
    OBVIOUS
  <2>2. /\ m \in 0..Len(s) /\ m + 1 \in 1..Len(s) /\ (m + 1) - 1 = m
        /\ Selects(kept[m], s, m, keep)
    BY <1>3, <2>1
  <2>5. kept[m] \in Seq(S)
    BY <1>1, <2>2
  <2>3. /\ Selects(kept[m], s, m + 1, keep)
        /\ s[m + 1] \in keep => Selects(Append(kept[m], s[m + 1]), s, m + 1, keep)
    BY <2>1, <2>2, <2>5, SelectsMore
  <2> QED
    BY <1>1, <2>2, <2>3
<1>4. Len(s) \in N
  <2> HIDE DEF N
  <2> QED
    BY <1>2, <1>3, Induction
<1> QED
  BY <1>1, <1>4

-----------------------------------------------------------------------------
(* Entries and the data they lead to.                                      *)

\* A function on 1..n is a sequence.
LEMMA FunctionIsSeq ==
  ASSUME NEW S, NEW n \in Nat, NEW f \in [1..n -> S]
  PROVE  f \in Seq(S) /\ Len(f) = n
<1>1. f \in Seq(S)
  BY SeqDef
<1> QED
  BY <1>1, LenProperties

\* u is s and then t, place by place.
Joined(u, s, t) ==
  /\ Len(u) = Len(s) + Len(t)
  /\ \A i \in 1..Len(s) : u[i] = s[i]
  /\ \A i \in 1..Len(t) : u[Len(s) + i] = t[i]
  /\ \A i \in 1..Len(u) : i \in 1..Len(s) \/ \E j \in 1..Len(t) : i = Len(s) + j

LEMMA ConcatPlaces ==
  ASSUME NEW S, NEW s \in Seq(S), NEW t \in Seq(S)
  PROVE  s \o t \in Seq(S) /\ Joined(s \o t, s, t)
<1>1. Len(s) \in Nat /\ Len(t) \in Nat
  OBVIOUS
<1>2. s \o t \in Seq(S) /\ Len(s \o t) = Len(s) + Len(t)
  OBVIOUS
<1>3. \A i \in 1..Len(s) : (s \o t)[i] = s[i]
  OBVIOUS
<1>4. \A i \in 1..Len(t) : (s \o t)[Len(s) + i] = t[i]
  OBVIOUS
<1>5. ASSUME NEW i \in 1..Len(s) + Len(t), i \notin 1..Len(s)
      PROVE  \E j \in 1..Len(t) : i = Len(s) + j
  <2>1. i - Len(s) \in 1..Len(t) /\ i = Len(s) + (i - Len(s))
    BY <1>1, <1>5
  <2> QED
    BY <2>1
<1> QED
  BY <1>2, <1>3, <1>4, <1>5 DEF Joined

\* Data that are added at the end leave what reads as it was.
LEMMA ReadsExtended ==
  ASSUME NEW e \in Entry, NEW data \in Seq(Chunk), NEW more \in Seq(Chunk),
         ReadsRight(e, data)
  PROVE  ReadsRight(e, data \o more)
<1>1. /\ e.offset \in Nat /\ e.count \in Nat /\ e.offset <= Len(data)
      /\ \A k \in 1..e.count : e.offset + k <= Len(data) /\ Opens(data[e.offset + k], e, k)
  BY DEF ReadsRight, Readable, Leads, Entry
<1>2. /\ Len(data) \in Nat /\ Len(more) \in Nat
      /\ Len(data \o more) = Len(data) + Len(more)
      /\ \A i \in 1..Len(data) : (data \o more)[i] = data[i]
  BY ConcatPlaces DEF Joined
<1>3. \A k \in 1..e.count : /\ e.offset + k \in 1..Len(data)
                            /\ e.offset + k <= Len(data \o more)
                            /\ (data \o more)[e.offset + k] = data[e.offset + k]
  BY <1>1, <1>2
<1>4. Readable(e, data \o more)
  BY <1>1, <1>3 DEF Readable, Leads
<1>5. Read(e, data \o more) = Read(e, data)
  BY <1>3 DEF Read, ReadTo
<1>6. e.offset <= Len(data \o more)
  BY <1>1, <1>2
<1> QED
  BY <1>4, <1>5, <1>6 DEF ReadsRight

\* An entry reads what has been sealed for it at the end of the data.
LEMMA ReadsSealed ==
  ASSUME NEW e \in Entry, NEW data \in Seq(Chunk), NEW more \in Seq(Chunk),
         e.offset <= Len(data), e.count # 0 => e.offset = Len(data), Len(more) = e.count,
         \A k \in 1..e.count : more[k] = Seal(e, k, e.holds)
  PROVE  ReadsRight(e, data \o more)
<1>1. Len(data) \in Nat /\ e.count \in Nat /\ e.offset \in Nat
  BY DEF Entry
<1>2. /\ Len(data \o more) = Len(data) + Len(more)
      /\ \A i \in 1..Len(more) : (data \o more)[Len(data) + i] = more[i]
  BY ConcatPlaces DEF Joined
<1>3. \A k \in 1..e.count : /\ e.offset = Len(data)
                            /\ (data \o more)[Len(data) + k] = Seal(e, k, e.holds)
                            /\ e.offset + k <= Len(data \o more)
  BY <1>1, <1>2
<1>4. \A k \in 1..e.count : /\ Opens(Seal(e, k, e.holds), e, k)
                            /\ Seal(e, k, e.holds).holds = e.holds
  BY DEF Opens, Seal
<1>5. Readable(e, data \o more)
  BY <1>3, <1>4 DEF Readable, Leads
<1>6. Read(e, data \o more) = Right(e)
  BY <1>3, <1>4 DEF Read, ReadTo, Right
<1>7. e.offset <= Len(data \o more)
  BY <1>1, <1>2
<1> QED
  BY <1>5, <1>6, <1>7 DEF ReadsRight

\* What is sealed for an entry is data of a container.
LEMMA SealedChunks ==
  ASSUME NEW e \in Entry, NEW read \in [1..e.count -> Content \cup {Gone}]
  PROVE  LET more == [k \in 1..e.count |-> Seal(e, k, read[k])]
         IN  /\ more \in Seq(Chunk) /\ Len(more) = e.count
             /\ \A k \in 1..e.count : /\ more[k] = Seal(e, k, read[k])
                                      /\ more[k].index \in 1..more[k].total
<1> DEFINE more == [k \in 1..e.count |-> Seal(e, k, read[k])]
<1>1. e.count \in Nat /\ e.id \in FileId
  BY DEF Entry
<1>2. \A k \in 1..e.count : Seal(e, k, read[k]) \in Chunk
  BY <1>1 DEF Seal, Chunk
<1>3. more \in [1..e.count -> Chunk]
  BY <1>2
<1>4. more \in Seq(Chunk) /\ Len(more) = e.count
  BY <1>1, <1>3, FunctionIsSeq
<1>5. \A k \in 1..e.count : /\ more[k] = Seal(e, k, read[k])
                            /\ more[k].index \in 1..more[k].total
  BY <1>1 DEF Seal
<1> QED
  BY <1>4, <1>5

-----------------------------------------------------------------------------
(* What makes a container good, and what each call makes of one.           *)

ReadsIn(v, alone) ==
  \A e \in Range(v.entries) : e.id # Unbound \/ alone => ReadsRight(e, v.data)

\* b says of its file_id what something in B says of it.
Echo(b, B) == \E c \in B : c.id = b.id /\ c.holds = b.holds

LEMMA VaultFields ==
  ASSUME NEW v, IsVault(v)
  PROVE  /\ v.entries \in Seq(Entry) /\ v.data \in Seq(Chunk)
         /\ v.version \in {LegacyVersion, Version} /\ v.salt \in 0..MaxSaves
         /\ Len(v.entries) \in Nat /\ DOMAIN v.entries = 1..Len(v.entries)
         /\ Len(v.data) \in Nat /\ DOMAIN v.data = 1..Len(v.data)
         /\ \A i \in 1..Len(v.entries) : v.entries[i] \in Entry /\ IsEntry(v.entries[i])
         /\ \A i \in 1..Len(v.data) : /\ v.data[i] \in Chunk
                                      /\ v.data[i].index \in 1..v.data[i].total
         /\ v = [version |-> v.version, salt |-> v.salt,
                 entries |-> v.entries, data |-> v.data]
<1>1. v \in Vault
  BY DEF IsVault
<1>2. /\ v.entries \in Seq(Entry) /\ v.data \in Seq(Chunk)
      /\ v.version \in {LegacyVersion, Version} /\ v.salt \in 0..MaxSaves
      /\ v = [version |-> v.version, salt |-> v.salt, entries |-> v.entries, data |-> v.data]
  BY <1>1 DEF Vault
<1>3. /\ Len(v.entries) \in Nat /\ DOMAIN v.entries = 1..Len(v.entries)
      /\ Len(v.data) \in Nat /\ DOMAIN v.data = 1..Len(v.data)
      /\ \A i \in 1..Len(v.entries) : v.entries[i] \in Entry
      /\ \A i \in 1..Len(v.data) : v.data[i] \in Chunk
  BY <1>2
<1> QED
  BY <1>2, <1>3 DEF IsVault

\* The file_id of a new file.
LEMMA NewFileId ==
  ASSUME NEW id \in Nat, NEW p \in Path
  PROVE  /\ <<id>> \o p \in FileId
         /\ <<id>> \o p # Unbound
         /\ (<<id>> \o p)[1] = id
         /\ \A q \in Path : <<id>> \o p = <<id>> \o q => p = q
<1>1. p \in Seq(Name) /\ Len(p) \in Nat
  BY PathIsSeq
<1>2. p \in Seq(Nat \cup Name)
  <2>1. p \in [1..Len(p) -> Nat \cup Name]
    BY <1>1
  <2> QED
    BY <1>1, <2>1, FunctionIsSeq
<1>3. <<id>> \in Seq(Nat \cup Name) /\ Len(<<id>>) = 1 /\ <<id>>[1] = id
  OBVIOUS
<1>4. /\ <<id>> \o p \in FileId /\ Len(<<id>> \o p) = 1 + Len(p) /\ (<<id>> \o p)[1] = id
  BY <1>1, <1>2, <1>3, ConcatPlaces DEF FileId, Joined
<1>5. ASSUME NEW q \in Path, <<id>> \o p = <<id>> \o q
      PROVE  p = q
  <2>1. q \in Seq(Name) /\ Len(q) \in Nat
    BY PathIsSeq
  <2>2. q \in Seq(Nat \cup Name)
    <3>1. q \in [1..Len(q) -> Nat \cup Name]
      BY <2>1
    <3> QED
      BY <2>1, <3>1, FunctionIsSeq
  <2>3. /\ Len(<<id>> \o q) = 1 + Len(q)
        /\ \A i \in 1..Len(q) : (<<id>> \o q)[1 + i] = q[i]
    BY <1>3, <2>1, <2>2, ConcatPlaces DEF Joined
  <2>4. \A i \in 1..Len(p) : (<<id>> \o p)[1 + i] = p[i]
    BY <1>1, <1>2, <1>3, ConcatPlaces DEF Joined
  <2>5. Len(p) = Len(q)
    BY <1>1, <1>4, <1>5, <2>1, <2>3
  <2>6. \A i \in 1..Len(p) : p[i] = q[i]
    BY <1>5, <2>3, <2>4, <2>5
  <2> QED
    BY <1>1, <2>1, <2>5, <2>6, SeqEqual
<1>6. <<id>> \o p # Unbound
  BY <1>1, <1>4 DEF Unbound
<1> QED
  BY <1>4, <1>5, <1>6

\* One more file: the container stays what it is, and what is bound to a new
\* file_id is bound to the name of an entry that was not there before.
Added(v, w, p, content, id) ==
  /\ IsVault(w) /\ Distinct(w.entries)
  /\ \A alone \in BOOLEAN : ReadsIn(v, alone) => ReadsIn(w, alone)
  /\ AllParented(v.entries) /\ Parented(v.entries, p) => AllParented(w.entries)
  /\ \A q : Named(v.entries, q) => Named(w.entries, q)
  /\ \A q : IsDirectory(v.entries, q) => IsDirectory(w.entries, q)
  /\ \A b \in BoundIn(w) :
       \/ b \in BoundIn(v)
       \/ /\ ~Named(v.entries, p) /\ Named(w.entries, p)
          /\ b.id = <<id>> \o p /\ b.holds = content

LEMMA AddFileGood ==
  ASSUME NEW v, IsVault(v), Distinct(v.entries),
         NEW p \in Path, NEW content \in Content, NEW bound \in BOOLEAN, NEW id \in Nat
  PROVE  Added(v, AddFile(v, p, content, bound, id), p, content, id)
<1> DEFINE w == AddFile(v, p, content, bound, id)
<1>1. CASE Named(v.entries, p)
  <2>1. w = v
    BY <1>1 DEF AddFile
  <2> QED
    BY <2>1 DEF Added
<1>2. CASE ~Named(v.entries, p)
  <2> DEFINE e == [name |-> p, dir |-> FALSE, offset |-> Len(v.data),
                   count |-> ChunkTotal[content],
                   id |-> IF bound THEN <<id>> \o p ELSE Unbound, holds |-> content]
             more == [k \in 1..e.count |-> Seal(e, k, content)]
  <2>1. /\ v.entries \in Seq(Entry) /\ v.data \in Seq(Chunk)
        /\ Len(v.entries) \in Nat /\ Len(v.data) \in Nat
        /\ \A i \in 1..Len(v.entries) : v.entries[i] \in Entry /\ IsEntry(v.entries[i])
        /\ \A i \in 1..Len(v.data) : v.data[i].index \in 1..v.data[i].total
        /\ v \in Vault /\ DOMAIN v.data = 1..Len(v.data)
    BY VaultFields DEF IsVault
  <2>2. e \in Entry /\ IsEntry(e) /\ e.count \in Nat
    <3>1. <<id>> \o p \in FileId
      BY NewFileId
    <3>3. Unbound \in FileId
      BY DEF Unbound, FileId
    <3>2. ChunkTotal[content] \in Nat
      BY ContentAssumption
    <3> QED
      BY <2>1, <3>1, <3>2, <3>3 DEF Entry, IsEntry
  <2>3. /\ more \in Seq(Chunk) /\ Len(more) = e.count
        /\ \A k \in 1..e.count : /\ more[k] = Seal(e, k, content)
                                 /\ more[k].index \in 1..more[k].total
    <3> DEFINE read == [k \in 1..e.count |-> content]
    <3>1. read \in [1..e.count -> Content \cup {Gone}]
      OBVIOUS
    <3>2. more = [k \in 1..e.count |-> Seal(e, k, read[k])]
      OBVIOUS
    <3> HIDE DEF e, read, more
    <3>3. \A k \in 1..e.count : read[k] = content
      BY DEF read
    <3> QED
      BY <2>2, <3>1, <3>2, <3>3, SealedChunks
  <2>4. w = [v EXCEPT !.entries = Append(@, e), !.data = @ \o more]
    BY <1>2 DEF AddFile
  <2>5. /\ e.name = p /\ e.dir = FALSE /\ e.offset = Len(v.data) /\ e.holds = content
        /\ e.id = IF bound THEN <<id>> \o p ELSE Unbound
    OBVIOUS
  <2> HIDE DEF e, more, w
  <2>6. PICK n \in Nat : n = Len(v.entries)
    BY <2>1
  <2>7. /\ w \in Vault /\ w.entries = Append(v.entries, e) /\ w.data = v.data \o more
        /\ w.entries \in Seq(Entry)
    <3>1. Append(v.entries, e) \in Seq(Entry)
      BY <2>1, <2>2
    <3>2. v.data \o more \in Seq(Chunk)
      BY <2>1, <2>3, ConcatPlaces
    <3>3. w.entries = Append(v.entries, e) /\ w.data = v.data \o more
      BY <2>1, <2>4 DEF Vault
    <3>4. w \in Vault
      BY <2>1, <2>4, <3>1, <3>2 DEF Vault
    <3> QED
      BY <3>1, <3>3, <3>4
  <2>8. /\ Len(w.entries) = n + 1 /\ DOMAIN w.entries = 1..n + 1
        /\ w.entries[n + 1] = e
        /\ \A i \in 1..n : w.entries[i] = v.entries[i]
        /\ \A i \in 1..n + 1 : i \in 1..n \/ i = n + 1
        /\ DOMAIN v.entries = 1..n
    BY <2>1, <2>2, <2>6, <2>7
  <2>9. /\ Len(w.data) = Len(v.data) + Len(more)
        /\ DOMAIN w.data = 1..Len(w.data)
        /\ \A i \in 1..Len(v.data) : w.data[i] = v.data[i]
        /\ \A i \in 1..Len(more) : w.data[Len(v.data) + i] = more[i]
        /\ \A i \in 1..Len(w.data) :
             i \in 1..Len(v.data) \/ \E k \in 1..Len(more) : i = Len(v.data) + k
    <3>1. Joined(w.data, v.data, more) /\ w.data \in Seq(Chunk)
      BY <2>1, <2>3, <2>7, ConcatPlaces
    <3> QED
      BY <3>1 DEF Joined
  <2>10. IsVault(w)
    <3>1. \A i \in DOMAIN w.entries : IsEntry(w.entries[i])
      BY <2>1, <2>2, <2>6, <2>8
    <3>2. ASSUME NEW i \in DOMAIN w.data
          PROVE  w.data[i].index \in 1..w.data[i].total
      <4>1. CASE i \in 1..Len(v.data)
        BY <2>1, <2>9, <4>1
      <4>2. CASE i \notin 1..Len(v.data)
        <5>1. PICK k \in 1..Len(more) : i = Len(v.data) + k
          BY <2>9, <4>2
        <5> QED
          BY <2>3, <2>9, <5>1
      <4> QED
        BY <4>1, <4>2
    <3> QED
      BY <2>7, <3>1, <3>2 DEF IsVault
  <2>11. \A i \in 1..n : v.entries[i].name # p
    BY <1>2, <2>8 DEF Named
  <2>12. Distinct(w.entries)
    BY <2>5, <2>8, <2>11, SMTT(30) DEF Distinct
  <2>13. /\ \A q : Named(v.entries, q) => Named(w.entries, q)
         /\ \A q : IsDirectory(v.entries, q) => IsDirectory(w.entries, q)
         /\ Named(w.entries, p)
    <3>1. \A q : Named(v.entries, q) => Named(w.entries, q)
      BY <2>8 DEF Named
    <3>2. \A q : IsDirectory(v.entries, q) => IsDirectory(w.entries, q)
      BY <2>8 DEF IsDirectory
    <3>3. Named(w.entries, p)
      BY <2>5, <2>8 DEF Named
    <3> QED
      BY <3>1, <3>2, <3>3
  <2>14. ASSUME NEW alone \in BOOLEAN, ReadsIn(v, alone)
         PROVE  ReadsIn(w, alone)
    <3>1. ASSUME NEW i \in 1..n, v.entries[i].id # Unbound \/ alone
          PROVE  ReadsRight(v.entries[i], w.data)
      <4>1. ReadsRight(v.entries[i], v.data)
        BY <2>8, <2>14, <3>1 DEF ReadsIn, Range
      <4> QED
        BY <2>1, <2>3, <2>6, <2>7, <4>1, ReadsExtended
    <3>2. ReadsRight(e, w.data)
      <4>1. e.offset <= Len(v.data)
        BY <2>1, <2>5
      <4> QED
        BY <2>1, <2>2, <2>3, <2>5, <2>7, <4>1, ReadsSealed
    <3>3. \A i \in 1..n + 1 : w.entries[i].id # Unbound \/ alone
                                => ReadsRight(w.entries[i], w.data)
      BY <2>8, <3>1, <3>2
    <3> QED
      BY <2>8, <3>3 DEF ReadsIn, Range
  <2>15. ASSUME AllParented(v.entries), Parented(v.entries, p)
         PROVE  AllParented(w.entries)
    <3>1. \A i \in 1..n : Parented(w.entries, v.entries[i].name)
      BY <2>8, <2>13, <2>15 DEF AllParented, Parented
    <3>2. Parented(w.entries, p)
      BY <2>13, <2>15 DEF Parented
    <3> QED
      BY <2>5, <2>8, <3>1, <3>2 DEF AllParented
  <2>16. ASSUME NEW b \in BoundIn(w), b \notin BoundIn(v)
         PROVE  b.id = <<id>> \o p /\ b.holds = content
    <3>1. b.id # Unbound /\ b \in Range(w.entries) \cup Range(w.data)
      BY DEF BoundIn
    <3>2. b \notin Range(v.entries) /\ b \notin Range(v.data)
      BY <2>16, <3>1 DEF BoundIn
    <3>3. CASE b \in Range(w.entries)
      <4>1. PICK i \in 1..n + 1 : b = w.entries[i]
        BY <2>8, <3>3 DEF Range
      <4>2. b = e
        BY <2>8, <3>2, <4>1 DEF Range
      <4> QED
        BY <2>5, <3>1, <4>2
    <3>4. CASE b \in Range(w.data)
      <4>1. PICK i \in 1..Len(w.data) : b = w.data[i]
        BY <2>9, <3>4 DEF Range
      <4>2. i \notin 1..Len(v.data)
        BY <2>1, <2>9, <3>2, <4>1 DEF Range
      <4>3. PICK k \in 1..e.count : b = Seal(e, k, content)
        BY <2>3, <2>9, <4>1, <4>2, ZenonT(30)
      <4> QED
        BY <2>5, <3>1, <4>3 DEF Seal
    <3> QED
      BY <3>1, <3>3, <3>4
  <2>17. Added(v, w, p, content, id)
    BY <1>2, <2>10, <2>12, <2>13, <2>14, <2>15, <2>16 DEF Added
  <2> QED
    BY <2>17 DEF w
<1> QED
  BY <1>1, <1>2

\* What add_files_to_dir is given.
IsBatch(dir, files) ==
  /\ files \in Seq([name : Name, content : Content])
  /\ dir \in Seq(Name)
  /\ \A n \in Name : Append(dir, n) \in Path

AddEach(w, dir, f, bound, id) ==
  AddFile(w, Append(dir, f.name), f.content, bound, id)

Unique == { u \in Vault : IsVault(u) /\ Distinct(u.entries) }

Adds(f, v, dir, files, bound, id) ==
  /\ f \in [0..Len(files) -> Unique]
  /\ f[0] = v
  /\ \A k \in 1..Len(files) : f[k] = AddEach(f[k - 1], dir, files[k], bound, id)
  /\ AddFiles(v, dir, files, bound, id) = f[Len(files)]

LEMMA AddFilesEquation ==
  ASSUME NEW v \in Unique, NEW dir, NEW files, IsBatch(dir, files),
         NEW bound \in BOOLEAN, NEW id \in Nat
  PROVE  \E f : Adds(f, v, dir, files, bound, id)
<1> DEFINE Equation(f) == f = [k \in 0..Len(files) |->
                                  IF k = 0 THEN v
                                  ELSE AddEach(f[k - 1], dir, files[k], bound, id)]
<1>1. PICK n \in Nat : n = Len(files)
  BY DEF IsBatch
<1>2. \A u \in Unique, k \in 1..n : AddEach(u, dir, files[k], bound, id) \in Unique
  <2> SUFFICES ASSUME NEW u \in Unique, NEW k \in 1..n
               PROVE  AddEach(u, dir, files[k], bound, id) \in Unique
    OBVIOUS
  <2>1. files[k].name \in Name /\ files[k].content \in Content
    <3>1. PICK R : R = [name : Name, content : Content]
      OBVIOUS
    <3>2. files \in Seq(R) /\ k \in 1..Len(files)
      BY <1>1, <3>1 DEF IsBatch
    <3>3. files[k] \in R
      BY <3>2
    <3> QED
      BY <3>1, <3>3
  <2>2. PICK p \in Path, c \in Content :
          p = Append(dir, files[k].name) /\ c = files[k].content
    BY <2>1 DEF IsBatch
  <2>3. IsVault(u) /\ Distinct(u.entries)
    BY DEF Unique
  <2>4. Added(u, AddFile(u, p, c, bound, id), p, c, id)
    BY <2>3, AddFileGood
  <2>5. AddFile(u, p, c, bound, id) = AddEach(u, dir, files[k], bound, id)
    BY <2>2 DEF AddEach
  <2> QED
    BY <2>4, <2>5 DEF Added, Unique, IsVault
<1>3. PICK next \in [Unique \X (1..n) -> Unique] :
        \A u \in Unique, k \in 1..n : next[<<u, k>>] = AddEach(u, dir, files[k], bound, id)
  <2> DEFINE next == [w \in Unique \X (1..n) |-> AddEach(w[1], dir, files[w[2]], bound, id)]
  <2>1. next \in [Unique \X (1..n) -> Unique]
    BY <1>2
  <2>2. \A u \in Unique, k \in 1..n : next[<<u, k>>] = AddEach(u, dir, files[k], bound, id)
    OBVIOUS
  <2> QED
    BY <2>1, <2>2
<1>4. PICK f : Runs(f, Unique, v, n, next)
  BY Recursion
<1>5. /\ f \in [0..n -> Unique] /\ f[0] = v
      /\ \A k \in 1..n : f[k] = AddEach(f[k - 1], dir, files[k], bound, id)
  <2>1. /\ f \in [0..n -> Unique] /\ f[0] = v
        /\ \A k \in 1..n : f[k] = next[<<f[k - 1], k>>]
    BY <1>4 DEF Runs
  <2>2. \A k \in 1..n : f[k - 1] \in Unique
    BY <2>1
  <2> QED
    BY <1>3, <2>1, <2>2
<1>6. Equation(f)
  <2>1. \A k \in 0..n : k # 0 => k \in 1..n
    OBVIOUS
  <2>2. f = [k \in 0..n |-> f[k]]
    BY <1>5
  <2> QED
    BY <1>1, <1>5, <2>1, <2>2
<1>7. PICK added : Equation(added) /\ AddFiles(v, dir, files, bound, id) = added[Len(files)]
  <2> DEFINE added == CHOOSE g : Equation(g)
  <2>1. AddFiles(v, dir, files, bound, id) = added[Len(files)]
    BY DEF AddFiles, AddEach
  <2>2. Equation(added)
    <3> HIDE DEF Equation
    <3> QED
      BY <1>6
  <2> HIDE DEF added, Equation
  <2> QED
    BY <2>1, <2>2
<1>8. /\ added[0] = v
      /\ \A k \in 1..n : added[k] = AddEach(added[k - 1], dir, files[k], bound, id)
  <2>1. \A k \in 0..Len(files) : added[k] = IF k = 0 THEN v
                                            ELSE AddEach(added[k - 1], dir, files[k], bound, id)
    BY <1>7
  <2>2. 0 \in 0..n /\ \A k \in 1..n : k \in 0..n /\ k # 0
    OBVIOUS
  <2> HIDE DEF Equation
  <2> QED
    BY <1>1, <2>1, <2>2
<1>9. added[n] = f[n]
  <2>1. Alike(added, f, n)
    BY <1>5, <1>8 DEF Alike
  <2>2. Equal(added, f, n)
    BY <2>1, RecursionUnique
  <2> QED
    BY <2>2 DEF Equal
<1> QED
  <2> HIDE DEF Equation
  <2> QED
    BY <1>1, <1>5, <1>7, <1>9 DEF Adds

\* What the ids of w say: those that are not in v begin with id, and whatever is
\* under one of them holds the same.
Fresh(v, w, id) ==
  /\ \A b \in BoundIn(w) :
       b \in BoundIn(v) \/ \E p \in Path : b.id = <<id>> \o p /\ Named(w.entries, p)
  /\ \A b, c \in BoundIn(w) : b.id[1] = id /\ b.id = c.id => b.holds = c.holds

Grown(v, w, id) ==
  /\ \A alone \in BOOLEAN : ReadsIn(v, alone) => ReadsIn(w, alone)
  /\ AllParented(v.entries) => AllParented(w.entries)
  /\ \A q : IsDirectory(v.entries, q) => IsDirectory(w.entries, q)
  /\ Fresh(v, w, id)

LEMMA GrownByOne ==
  ASSUME NEW v, NEW w, NEW x, NEW p \in Path, NEW content, NEW id \in Nat,
         \A b \in BoundIn(v) : b.id[1] # id, Grown(v, w, id),
         AllParented(v.entries) => Parented(w.entries, p),
         Added(w, x, p, content, id)
  PROVE  Grown(v, x, id)
<1>1. \A alone \in BOOLEAN : ReadsIn(v, alone) => ReadsIn(x, alone)
  BY DEF Grown, Added
<1>2. AllParented(v.entries) => AllParented(x.entries)
  BY DEF Grown, Added
<1>3. \A q : IsDirectory(v.entries, q) => IsDirectory(x.entries, q)
  BY DEF Grown, Added
<1>4. /\ \A b \in BoundIn(w) :
           b \in BoundIn(v) \/ \E q \in Path : b.id = <<id>> \o q /\ Named(w.entries, q)
      /\ \A b, c \in BoundIn(w) : b.id[1] = id /\ b.id = c.id => b.holds = c.holds
  BY DEF Grown, Fresh
<1>5. /\ \A q : Named(w.entries, q) => Named(x.entries, q)
      /\ \A b \in BoundIn(x) : \/ b \in BoundIn(w)
                               \/ /\ ~Named(w.entries, p) /\ Named(x.entries, p)
                                  /\ b.id = <<id>> \o p /\ b.holds = content
  BY DEF Added
<1>6. ASSUME NEW b \in BoundIn(x)
      PROVE  b \in BoundIn(v) \/ \E q \in Path : b.id = <<id>> \o q /\ Named(x.entries, q)
  BY <1>4, <1>5
<1>7. ASSUME NEW b \in BoundIn(x), NEW c \in BoundIn(w), b.id = c.id, b \notin BoundIn(w)
      PROVE  FALSE
  <2>1. ~Named(w.entries, p) /\ c.id = <<id>> \o p
    BY <1>5, <1>7
  <2>2. c \notin BoundIn(v)
    BY <2>1, NewFileId
  <2>3. PICK q \in Path : c.id = <<id>> \o q /\ Named(w.entries, q)
    BY <1>4, <2>2
  <2>4. q = p
    BY <2>1, <2>3, NewFileId
  <2> QED
    BY <2>1, <2>3, <2>4
<1>8. ASSUME NEW b \in BoundIn(x), NEW c \in BoundIn(x), b.id[1] = id, b.id = c.id
      PROVE  b.holds = c.holds
  <2>1. CASE b \in BoundIn(w) /\ c \in BoundIn(w)
    BY <1>4, <1>8, <2>1
  <2>2. CASE b \notin BoundIn(w) /\ c \notin BoundIn(w)
    BY <1>5, <2>2
  <2>3. b \in BoundIn(w) <=> c \in BoundIn(w)
    BY <1>7, <1>8
  <2> QED
    BY <2>1, <2>2, <2>3
<1> QED
  BY <1>1, <1>2, <1>3, <1>6, <1>8 DEF Grown, Fresh

\* The directory that contains a file that is added to dir.
LEMMA ParentOfAdded ==
  ASSUME NEW dir \in Seq(Name), NEW n \in Name, NEW entries,
         dir = <<>> \/ IsDirectory(entries, dir)
  PROVE  Parented(entries, Append(dir, n))
<1>1. /\ Append(dir, n) \in Seq(Name) /\ Len(Append(dir, n)) = Len(dir) + 1
      /\ Len(dir) \in Nat
      /\ \A i \in 1..Len(dir) : Append(dir, n)[i] = dir[i]
  OBVIOUS
<1>2. Front(Append(dir, n)) = SubSeq(Append(dir, n), 1, Len(dir))
  BY <1>1 DEF Front
<1>3. SubSeq(Append(dir, n), 1, Len(dir)) = dir
  OBVIOUS
<1>4. Len(Append(dir, n)) > 1 => dir # <<>>
  BY <1>1
<1> QED
  BY <1>2, <1>3, <1>4 DEF Parented

LEMMA AddFilesGood ==
  ASSUME NEW v \in Unique, NEW dir, NEW files, IsBatch(dir, files),
         NEW bound \in BOOLEAN, NEW id \in Nat,
         dir = <<>> \/ IsDirectory(v.entries, dir),
         \A b \in BoundIn(v) : b.id[1] # id
  PROVE  /\ AddFiles(v, dir, files, bound, id) \in Unique
         /\ Grown(v, AddFiles(v, dir, files, bound, id), id)
<1>1. PICK f : Adds(f, v, dir, files, bound, id)
  BY AddFilesEquation
<1>2. /\ f \in [0..Len(files) -> Unique] /\ f[0] = v
      /\ \A k \in 1..Len(files) : f[k] = AddEach(f[k - 1], dir, files[k], bound, id)
      /\ AddFiles(v, dir, files, bound, id) = f[Len(files)]
  BY <1>1 DEF Adds
<1>3. Len(files) \in Nat /\ dir \in Seq(Name)
  BY DEF IsBatch
<1> DEFINE N == { k \in Nat : k <= Len(files) => Grown(v, f[k], id) }
<1>4. 0 \in N
  <2>1. Grown(v, v, id)
    BY DEF Grown, Fresh
  <2> QED
    BY <1>2, <2>1
<1>5. ASSUME NEW m \in Nat, m \in N
      PROVE  m + 1 \in N
  <2>1. SUFFICES ASSUME m + 1 <= Len(files)
                 PROVE  Grown(v, f[m + 1], id)
    OBVIOUS
  <2>2. m \in 0..Len(files) /\ m + 1 \in 1..Len(files) /\ (m + 1) - 1 = m
    BY <1>3, <2>1
  <2>3. Grown(v, f[m], id)
    BY <1>3, <1>5, <2>1
  <2>4. files[m + 1].name \in Name /\ files[m + 1].content \in Content
    <3>1. PICK R : R = [name : Name, content : Content]
      OBVIOUS
    <3>2. files \in Seq(R)
      BY <3>1 DEF IsBatch
    <3>3. files[m + 1] \in R
      BY <2>2, <3>2
    <3> QED
      BY <3>1, <3>3
  <2>5. PICK n \in Name, c \in Content : n = files[m + 1].name /\ c = files[m + 1].content
    BY <2>4
  <2>6. PICK p \in Path : p = Append(dir, n)
    BY DEF IsBatch
  <2>7. f[m] \in Unique /\ f[m + 1] = AddFile(f[m], p, c, bound, id)
    BY <1>2, <2>2, <2>5, <2>6 DEF AddEach
  <2>8. Added(f[m], f[m + 1], p, c, id)
    <3>1. IsVault(f[m]) /\ Distinct(f[m].entries)
      BY <2>7 DEF Unique
    <3> QED
      BY <2>7, <3>1, AddFileGood
  <2>9. Parented(f[m].entries, p)
    <3>1. dir = <<>> \/ IsDirectory(f[m].entries, dir)
      BY <2>3 DEF Grown
    <3> QED
      BY <1>3, <2>6, <3>1, ParentOfAdded
  <2> QED
    BY <2>3, <2>8, <2>9, GrownByOne
<1>6. Len(files) \in N
  <2> HIDE DEF N
  <2> QED
    BY <1>3, <1>4, <1>5, Induction
<1> QED
  BY <1>2, <1>3, <1>6

-----------------------------------------------------------------------------
(* The calls that leave the data as they are.                              *)

\* e is f, under any name.
Same(e, f) ==
  /\ e.dir = f.dir /\ e.offset = f.offset /\ e.count = f.count
  /\ e.id = f.id /\ e.holds = f.holds

\* An entry of a call's result is one it found, renamed, or a new directory.
Comes(e, v) ==
  \/ \E j \in 1..Len(v.entries) : Same(e, v.entries[j])
  \/ e.dir /\ e.offset = 0 /\ e.count = 0 /\ e.id = Unbound

\* w reads as v does, and w says of a file_id nothing that v does not.
Keeping(v, w) ==
  /\ \A alone \in BOOLEAN : ReadsIn(v, alone) => ReadsIn(w, alone)
  /\ \A b \in BoundIn(w) : Echo(b, BoundIn(v))

LEMMA ReadsDirectory ==
  ASSUME NEW e, e.offset = 0, e.count = 0, NEW data \in Seq(Chunk)
  PROVE  ReadsRight(e, data)
<1>1. Readable(e, data)
  BY DEF Readable, Leads
<1>2. Read(e, data) = Right(e)
  BY DEF Read, ReadTo, Right
<1>3. e.offset <= Len(data)
  OBVIOUS
<1> QED
  BY <1>1, <1>2, <1>3 DEF ReadsRight

LEMMA ReadsSame ==
  ASSUME NEW e, NEW f, Same(e, f), NEW data, ReadsRight(f, data)
  PROVE  ReadsRight(e, data)
<1>1. Readable(e, data)
  BY DEF ReadsRight, Readable, Leads, Same, Opens
<1>2. Read(e, data) = Read(f, data) /\ Right(e) = Right(f)
  BY DEF Read, ReadTo, Right, Same
<1> QED
  BY <1>1, <1>2 DEF ReadsRight, Same

LEMMA SameData ==
  ASSUME NEW v, IsVault(v), NEW w, NEW entries \in Seq(Entry),
         w = [v EXCEPT !.entries = entries],
         \A i \in 1..Len(entries) : Comes(entries[i], v)
  PROVE  IsVault(w) /\ w.entries = entries /\ Keeping(v, w)
<1>1. /\ v.entries \in Seq(Entry) /\ v.data \in Seq(Chunk)
      /\ \A i \in 1..Len(v.entries) : v.entries[i] \in Entry /\ IsEntry(v.entries[i])
      /\ \A i \in DOMAIN v.data : v.data[i].index \in 1..v.data[i].total
      /\ v \in Vault
  BY VaultFields DEF IsVault
<1>2. w \in Vault /\ w.entries = entries /\ w.data = v.data
  BY <1>1 DEF Vault
<1>3. DOMAIN entries = 1..Len(entries) /\ DOMAIN v.entries = 1..Len(v.entries)
  BY <1>1
<1>4. IsVault(w)
  <2>1. \A i \in 1..Len(entries) : IsEntry(entries[i])
    BY <1>1 DEF Comes, Same, IsEntry
  <2> QED
    BY <1>1, <1>2, <1>3, <2>1 DEF IsVault
<1>5. ASSUME NEW alone \in BOOLEAN, ReadsIn(v, alone)
      PROVE  ReadsIn(w, alone)
  <2>1. SUFFICES ASSUME NEW i \in 1..Len(entries), entries[i].id # Unbound \/ alone
                 PROVE  ReadsRight(entries[i], v.data)
    BY <1>2, <1>3 DEF ReadsIn, Range
  <2>2. CASE entries[i].offset = 0 /\ entries[i].count = 0
    BY <1>1, <2>2, ReadsDirectory
  <2>3. CASE ~(entries[i].offset = 0 /\ entries[i].count = 0)
    <3>1. PICK j \in 1..Len(v.entries) : Same(entries[i], v.entries[j])
      BY <2>3 DEF Comes
    <3>2. ReadsRight(v.entries[j], v.data)
      BY <1>3, <1>5, <2>1, <3>1 DEF ReadsIn, Range, Same
    <3> QED
      BY <3>1, <3>2, ReadsSame
  <2> QED
    BY <2>2, <2>3
<1>6. ASSUME NEW b \in BoundIn(w)
      PROVE  Echo(b, BoundIn(v))
  <2>1. b.id # Unbound /\ (b \in Range(entries) \/ b \in Range(v.data))
    BY <1>2 DEF BoundIn
  <2>2. CASE b \in Range(v.data)
    BY <2>1, <2>2 DEF Echo, BoundIn
  <2>3. CASE b \in Range(entries)
    <3>1. PICK i \in 1..Len(entries) : b = entries[i]
      BY <1>3, <2>3 DEF Range
    <3>2. PICK j \in 1..Len(v.entries) : Same(b, v.entries[j])
      BY <2>1, <3>1 DEF Comes
    <3>3. v.entries[j] \in BoundIn(v)
      BY <1>3, <2>1, <3>2 DEF BoundIn, Range, Same
    <3> QED
      BY <3>2, <3>3 DEF Echo, Same
  <2> QED
    BY <2>1, <2>2, <2>3
<1> QED
  BY <1>2, <1>4, <1>5, <1>6 DEF Keeping

\* Entries that Only keeps are entries that there were, each name as often as there.
Kept(entries, v, keep) ==
  /\ entries \in Seq(Entry)
  /\ Distinct(entries)
  /\ \A i \in 1..Len(entries) :
       \E j \in 1..Len(v.entries) : entries[i] = v.entries[j] /\ v.entries[j] \in keep

LEMMA OnlyEntries ==
  ASSUME NEW v, IsVault(v), Distinct(v.entries), NEW keep
  PROVE  Kept(Only(v.entries, keep), v, keep)
<1>1. PICK t : t = Only(v.entries, keep)
  OBVIOUS
<1>2. v.entries \in Seq(Entry) /\ DOMAIN v.entries = 1..Len(v.entries)
  BY VaultFields
<1>3. t \in Seq(Entry) /\ Selects(t, v.entries, Len(v.entries), keep)
  BY <1>1, <1>2, OnlySelects
<1>4. PICK g \in [1..Len(t) -> 1..Len(v.entries)] :
        /\ \A i \in 1..Len(t) : t[i] = v.entries[g[i]] /\ v.entries[g[i]] \in keep
        /\ \A i, j \in 1..Len(t) : g[i] = g[j] => i = j
  BY <1>3 DEF Selects
<1>5. Distinct(t)
  <2>1. DOMAIN t = 1..Len(t)
    BY <1>3
  <2>2. \A i \in 1..Len(t) : g[i] \in 1..Len(v.entries)
    BY <1>4
  <2> QED
    BY <1>2, <1>4, <2>1, <2>2 DEF Distinct
<1>6. \A i \in 1..Len(t) :
        \E j \in 1..Len(v.entries) : t[i] = v.entries[j] /\ v.entries[j] \in keep
  BY <1>4
<1> QED
  BY <1>1, <1>3, <1>5, <1>6 DEF Kept

LEMMA DeleteGood ==
  ASSUME NEW v \in Unique, NEW targets, NEW recursive \in BOOLEAN
  PROVE  /\ DeleteEntries(v, targets, recursive) \in Unique
         /\ Keeping(v, DeleteEntries(v, targets, recursive))
<1>1. IsVault(v) /\ Distinct(v.entries) /\ v \in Vault
  BY DEF Unique
<1>2. PICK keep : DeleteEntries(v, targets, recursive)
                    = [v EXCEPT !.entries = Only(v.entries, keep)]
  BY <1>1 DEF DeleteEntries, Vault
<1>3. PICK entries \in Seq(Entry) :
        /\ entries = Only(v.entries, keep) /\ Distinct(entries)
        /\ \A i \in 1..Len(entries) : \E j \in 1..Len(v.entries) : entries[i] = v.entries[j]
  <2>1. Kept(Only(v.entries, keep), v, keep)
    BY <1>1, OnlyEntries
  <2> QED
    BY <2>1 DEF Kept
<1>4. \A i \in 1..Len(entries) : Comes(entries[i], v)
  BY <1>3 DEF Comes, Same
<1>5. PICK w : w = DeleteEntries(v, targets, recursive)
  OBVIOUS
<1>6. IsVault(w) /\ w.entries = entries /\ Keeping(v, w)
  BY <1>1, <1>2, <1>3, <1>4, <1>5, SameData
<1> QED
  BY <1>3, <1>5, <1>6 DEF Unique, IsVault

\* What CanGo says of the lengths.
Fits(v, from, to) ==
  \A p \in Moved(v, from) : Len(RemapEntryPath(p, from, to)) <= MaxDepth

LEMMA MovedPath ==
  ASSUME NEW v, IsVault(v), NEW from \in Path, NEW to \in Path, Fits(v, from, to),
         NEW p \in Moved(v, from)
  PROVE  RemapEntryPath(p, from, to) \in Path
<1>1. PICK e \in Range(v.entries) : e.name = p /\ InSubtree(p, from)
  BY DEF Moved, InSubtree
<1>2. p \in Path
  <2>1. PICK i \in 1..Len(v.entries) : e = v.entries[i]
    BY <1>1, VaultFields DEF Range
  <2>2. e \in Entry
    BY <2>1, VaultFields
  <2> QED
    BY <1>1, <2>2 DEF Entry
<1>3. PICK r : r = RemapEntryPath(p, from, to)
  OBVIOUS
<1>4. r \in Seq(Name) /\ Len(r) = Len(to) + (Len(p) - Len(from))
  BY <1>1, <1>2, <1>3, RemapByComponent
<1>5. Len(from) <= Len(p)
  BY <1>1, <1>2, PathIsSeq, DescendantByComponent DEF InSubtree
<1>6. Len(r) <= MaxDepth
  BY <1>3 DEF Fits
<1>7. Len(r) \in 1..MaxDepth
  BY <1>2, <1>4, <1>5, <1>6, PathIsSeq, DepthAssumption
<1> QED
  BY <1>3, <1>4, <1>7, SeqIsPath

\* An entry under another name.
LEMMA RenamedEntry ==
  ASSUME NEW e \in Entry, NEW p \in Path
  PROVE  [e EXCEPT !.name = p] \in Entry /\ Same([e EXCEPT !.name = p], e)
BY DEF Entry, Same

LEMMA MoveGood ==
  ASSUME NEW v \in Unique, NEW from \in Path, NEW to \in Path, Fits(v, from, to)
  PROVE  IsVault(MoveEntry(v, from, to)) /\ Keeping(v, MoveEntry(v, from, to))
<1>1. IsVault(v) /\ v \in Vault
  BY DEF Unique
<1>2. PICK n \in Nat :
        /\ n = Len(v.entries) /\ DOMAIN v.entries = 1..n
        /\ \A i \in 1..n : v.entries[i] \in Entry
  BY <1>1, VaultFields
<1> DEFINE At(i) == IF v.entries[i].name \in Moved(v, from)
                    THEN Renamed(v.entries[i], from, to)
                    ELSE v.entries[i]
<1>3. \A i \in 1..n : At(i) \in Entry /\ Same(At(i), v.entries[i])
  <2> SUFFICES ASSUME NEW i \in 1..n
               PROVE  At(i) \in Entry /\ Same(At(i), v.entries[i])
    OBVIOUS
  <2>1. CASE v.entries[i].name \in Moved(v, from)
    <3>1. PICK p \in Path : p = RemapEntryPath(v.entries[i].name, from, to)
      BY <1>1, <2>1, MovedPath
    <3>2. At(i) = [v.entries[i] EXCEPT !.name = p]
      BY <2>1, <3>1 DEF Renamed
    <3> HIDE DEF At
    <3> QED
      BY <1>2, <3>2, RenamedEntry
  <2>2. CASE v.entries[i].name \notin Moved(v, from)
    BY <1>2, <2>2 DEF Same
  <2> QED
    BY <2>1, <2>2
<1>4. PICK entries : entries = [i \in 1..n |-> At(i)]
  OBVIOUS
<1>5. MoveEntry(v, from, to) = [v EXCEPT !.entries = entries]
  <2>1. MoveEntry(v, from, to) = [v EXCEPT !.entries = [i \in DOMAIN v.entries |-> At(i)]]
    BY Zenon DEF MoveEntry
  <2>2. entries = [i \in DOMAIN v.entries |-> At(i)]
    BY <1>2, <1>4, Zenon
  <2> QED
    BY <2>1, <2>2, Zenon
<1> HIDE DEF At
<1>6. entries \in [1..n -> Entry] /\ \A i \in 1..n : Same(entries[i], v.entries[i])
  BY <1>3, <1>4
<1>7. entries \in Seq(Entry) /\ Len(entries) = n
  BY <1>6, FunctionIsSeq
<1>8. \A i \in 1..Len(entries) : Comes(entries[i], v)
  BY <1>2, <1>6, <1>7 DEF Comes
<1>9. PICK w : w = MoveEntry(v, from, to)
  OBVIOUS
<1>10. IsVault(w) /\ Keeping(v, w)
  BY <1>1, <1>5, <1>7, <1>8, <1>9, SameData
<1> QED
  BY <1>9, <1>10

\* Entries that a call adds behind those there are.
LEMMA MoreEntries ==
  ASSUME NEW v, IsVault(v), NEW w, NEW more \in Seq(Entry),
         w = [v EXCEPT !.entries = v.entries \o more],
         \A i \in 1..Len(more) : Comes(more[i], v)
  PROVE  IsVault(w) /\ w.entries = v.entries \o more /\ Keeping(v, w)
<1>1. v.entries \in Seq(Entry)
  BY VaultFields
<1>2. PICK entries \in Seq(Entry) :
        entries = v.entries \o more /\ Joined(entries, v.entries, more)
  BY <1>1, ConcatPlaces
<1>3. ASSUME NEW i \in 1..Len(entries)
      PROVE  Comes(entries[i], v)
  <2>1. CASE i \in 1..Len(v.entries)
    BY <1>2, <2>1 DEF Joined, Comes, Same
  <2>2. CASE i \notin 1..Len(v.entries)
    <3>1. PICK j \in 1..Len(more) : i = Len(v.entries) + j
      BY <1>2, <2>2 DEF Joined
    <3>2. entries[i] = more[j]
      BY <1>2, <3>1 DEF Joined
    <3> QED
      BY <3>2
  <2> QED
    BY <2>1, <2>2
<1> QED
  BY <1>2, <1>3, SameData

LEMMA CopyGood ==
  ASSUME NEW v \in Unique, NEW from \in Path, NEW to \in Path, Fits(v, from, to)
  PROVE  IsVault(CopyEntry(v, from, to)) /\ Keeping(v, CopyEntry(v, from, to))
<1>1. IsVault(v) /\ Distinct(v.entries) /\ v \in Vault
  BY DEF Unique
<1>11. PICK keep : keep = { e \in Range(v.entries) : e.name \in Moved(v, from) }
  OBVIOUS
<1>2. PICK copied \in Seq(Entry) :
        /\ copied = Only(v.entries, keep)
        /\ \A i \in 1..Len(copied) : \E j \in 1..Len(v.entries) :
             copied[i] = v.entries[j] /\ v.entries[j].name \in Moved(v, from)
  <2>1. Kept(Only(v.entries, keep), v, keep)
    BY <1>1, OnlyEntries
  <2>2. \A e \in keep : e.name \in Moved(v, from)
    BY <1>11
  <2> QED
    BY <2>1, <2>2, SMTT(30) DEF Kept
<1>3. PICK n \in Nat :
        n = Len(copied) /\ DOMAIN copied = 1..n /\ \A i \in 1..n : copied[i] \in Entry
  OBVIOUS
<1> DEFINE At(i) == Renamed(copied[i], from, to)
<1>4. \A i \in 1..n : At(i) \in Entry /\ Comes(At(i), v)
  <2> SUFFICES ASSUME NEW i \in 1..n
               PROVE  At(i) \in Entry /\ Comes(At(i), v)
    OBVIOUS
  <2>1. PICK j \in 1..Len(v.entries) :
          copied[i] = v.entries[j] /\ copied[i].name \in Moved(v, from)
    BY <1>2, <1>3
  <2>2. PICK p \in Path : p = RemapEntryPath(copied[i].name, from, to)
    BY <1>1, <2>1, MovedPath
  <2>3. At(i) = [copied[i] EXCEPT !.name = p]
    BY <2>2 DEF Renamed
  <2> HIDE DEF At
  <2>4. At(i) \in Entry /\ Same(At(i), copied[i])
    BY <1>3, <2>3, RenamedEntry
  <2> QED
    BY <2>1, <2>4 DEF Comes
<1>5. PICK more : more = [i \in 1..n |-> At(i)]
  OBVIOUS
<1>6. CopyEntry(v, from, to) = [v EXCEPT !.entries = v.entries \o more]
  BY <1>1, <1>2, <1>3, <1>5, <1>11 DEF CopyEntry, Vault
<1> HIDE DEF At
<1>7. more \in [1..n -> Entry] /\ \A i \in 1..n : Comes(more[i], v)
  BY <1>4, <1>5
<1>8. more \in Seq(Entry) /\ Len(more) = n
  BY <1>7, FunctionIsSeq
<1>9. PICK w : w = CopyEntry(v, from, to)
  OBVIOUS
<1>10. IsVault(w) /\ Keeping(v, w)
  BY <1>1, <1>6, <1>7, <1>8, <1>9, MoreEntries
<1> QED
  BY <1>9, <1>10

LEMMA PrefixIsPath ==
  ASSUME NEW p \in Path, NEW n \in 1..Len(p)
  PROVE  /\ SubSeq(p, 1, n) \in Path /\ Len(SubSeq(p, 1, n)) = n
         /\ \A i \in 1..n : SubSeq(p, 1, n)[i] = p[i]
<1>1. p \in Seq(Name) /\ Len(p) \in 1..MaxDepth /\ Len(p) \in Nat
  BY PathIsSeq
<1>2. SubSeq(p, 1, n) \in Seq(Name) /\ Len(SubSeq(p, 1, n)) = n
  BY <1>1
<1>3. \A i \in 1..n : SubSeq(p, 1, n)[i] = p[i]
  BY <1>1
<1>4. PICK q \in Seq(Name) : q = SubSeq(p, 1, n) /\ Len(q) = n
  BY <1>2
<1>5. Len(q) \in 1..MaxDepth
  BY <1>1, <1>4, DepthAssumption
<1>6. q \in Path
  BY <1>5, SeqIsPath
<1> QED
  BY <1>3, <1>4, <1>6

LEMMA DirectoryIsEntry ==
  ASSUME NEW p \in Path
  PROVE  /\ Directory(p) \in Entry /\ Directory(p).name = p
         /\ Directory(p).dir /\ Directory(p).id = Unbound
         /\ Directory(p).offset = 0 /\ Directory(p).count = 0
<1>1. Unbound \in FileId
  BY DEF Unbound, FileId
<1> QED
  BY <1>1 DEF Directory, Entry

\* The directories that create_directory makes are not there, and each is made once.
Missing(missing, v) ==
  /\ missing \in Seq(Path)
  /\ \A i \in 1..Len(missing) : ~Named(v.entries, missing[i])
  /\ \A i, j \in 1..Len(missing) : missing[i] = missing[j] => i = j

LEMMA MissingDirectories ==
  ASSUME NEW v, NEW p \in Path
  PROVE  Missing(Only([n \in 1..Len(p) |-> SubSeq(p, 1, n)],
                      { q \in Path : ~Named(v.entries, q) }), v)
<1>1. PICK s : s = [n \in 1..Len(p) |-> SubSeq(p, 1, n)]
  OBVIOUS
<1>2. PICK keep : keep = { q \in Path : ~Named(v.entries, q) }
  OBVIOUS
<1>3. PICK m \in Nat : m = Len(p)
  BY PathIsSeq
<1>4. \A n \in 1..m : s[n] \in Path /\ Len(s[n]) = n
  BY <1>1, <1>3, PrefixIsPath
<1>5. s \in Seq(Path) /\ Len(s) = m
  <2>1. s \in [1..m -> Path]
    BY <1>1, <1>3, <1>4
  <2> QED
    BY <2>1, FunctionIsSeq
<1>6. PICK t \in Seq(Path) : t = Only(s, keep) /\ Selects(t, s, m, keep)
  BY <1>5, OnlySelects
<1>7. PICK g \in [1..Len(t) -> 1..m] :
        /\ \A i \in 1..Len(t) : t[i] = s[g[i]] /\ s[g[i]] \in keep
        /\ \A i, j \in 1..Len(t) : g[i] = g[j] => i = j
  BY <1>6 DEF Selects
<1>8. \A i \in 1..Len(t) : ~Named(v.entries, t[i])
  BY <1>2, <1>7
<1>9. \A i, j \in 1..Len(t) : t[i] = t[j] => i = j
  <2>1. \A i \in 1..Len(t) : g[i] \in 1..m /\ Len(t[i]) = g[i]
    BY <1>4, <1>7
  <2> QED
    BY <1>7, <2>1
<1> QED
  BY <1>1, <1>2, <1>6, <1>8, <1>9 DEF Missing

LEMMA CreateGood ==
  ASSUME NEW v \in Unique, NEW p \in Path
  PROVE  CreateDirectory(v, p) \in Unique /\ Keeping(v, CreateDirectory(v, p))
<1>1. IsVault(v) /\ Distinct(v.entries) /\ v \in Vault
  BY DEF Unique
<1>2. PICK missing :
        /\ missing = Only([n \in 1..Len(p) |-> SubSeq(p, 1, n)],
                          { q \in Path : ~Named(v.entries, q) })
        /\ Missing(missing, v)
  BY MissingDirectories
<1>3. PICK m \in Nat : /\ m = Len(missing) /\ DOMAIN missing = 1..m
                       /\ \A i \in 1..m : missing[i] \in Path
  <2>1. missing \in Seq(Path)
    BY <1>2 DEF Missing
  <2> QED
    BY <2>1
<1>4. PICK more : more = [i \in 1..m |-> Directory(missing[i])]
  OBVIOUS
<1>5. CreateDirectory(v, p) = [v EXCEPT !.entries = v.entries \o more]
  BY <1>2, <1>3, <1>4, Zenon DEF CreateDirectory
<1>6. \A i \in 1..m : /\ more[i] \in Entry /\ more[i].name = missing[i]
                      /\ Comes(more[i], v)
  BY <1>3, <1>4, DirectoryIsEntry DEF Comes
<1>7. more \in Seq(Entry) /\ Len(more) = m
  <2>1. more \in [1..m -> Entry]
    BY <1>4, <1>6
  <2> QED
    BY <2>1, FunctionIsSeq
<1>8. PICK w : w = CreateDirectory(v, p)
  OBVIOUS
<1>9. IsVault(w) /\ w.entries = v.entries \o more /\ Keeping(v, w)
  BY <1>1, <1>5, <1>6, <1>7, <1>8, MoreEntries
<1>10. Distinct(w.entries)
  <2>1. PICK n \in Nat : n = Len(v.entries) /\ DOMAIN v.entries = 1..n
    BY <1>1, VaultFields
  <2>2. Joined(w.entries, v.entries, more) /\ DOMAIN w.entries = 1..Len(w.entries)
    BY <1>1, <1>7, <1>9, ConcatPlaces, VaultFields
  <2>3. /\ \A i \in 1..n : w.entries[i] = v.entries[i]
        /\ \A i \in 1..m : w.entries[n + i] = more[i]
        /\ \A i \in DOMAIN w.entries : i \in 1..n \/ \E j \in 1..m : i = n + j
    BY <1>7, <2>1, <2>2 DEF Joined
  <2>4. \A i \in 1..n, j \in 1..m : w.entries[i].name # w.entries[n + j].name
    <3> SUFFICES ASSUME NEW i \in 1..n, NEW j \in 1..m
                 PROVE  w.entries[i].name # w.entries[n + j].name
      OBVIOUS
    <3>1. w.entries[n + j].name = missing[j] /\ w.entries[i] = v.entries[i]
      BY <1>6, <2>3
    <3>2. ~Named(v.entries, missing[j])
      BY <1>2, <1>3 DEF Missing
    <3>3. v.entries[i].name # missing[j]
      BY <2>1, <3>2 DEF Named
    <3> QED
      BY <3>1, <3>3
  <2>5. ASSUME NEW i \in 1..m, NEW j \in 1..m, w.entries[n + i].name = w.entries[n + j].name
        PROVE  i = j
    <3>1. w.entries[n + i].name = missing[i] /\ w.entries[n + j].name = missing[j]
      BY <1>6, <2>3
    <3> QED
      BY <1>2, <1>3, <2>5, <3>1 DEF Missing
  <2>6. \A i, j \in 1..n : w.entries[i].name = w.entries[j].name => i = j
    BY <1>1, <2>1, <2>3 DEF Distinct
  <2>7. ASSUME NEW i \in DOMAIN w.entries, NEW j \in DOMAIN w.entries,
               w.entries[i].name = w.entries[j].name
        PROVE  i = j
    <3>1. CASE i \in 1..n /\ j \in 1..n
      BY <2>6, <2>7, <3>1
    <3>2. CASE i \in 1..n /\ j \notin 1..n
      BY <2>3, <2>4, <2>7, <3>2
    <3>3. CASE i \notin 1..n /\ j \in 1..n
      BY <2>3, <2>4, <2>7, <3>3
    <3>4. CASE i \notin 1..n /\ j \notin 1..n
      <4>1. PICK a \in 1..m : i = n + a
        BY <2>3, <3>4
      <4>2. PICK b \in 1..m : j = n + b
        BY <2>3, <3>4
      <4> QED
        BY <2>5, <2>7, <4>1, <4>2
    <3> QED
      BY <3>1, <3>2, <3>3, <3>4
  <2> QED
    BY <2>7 DEF Distinct
<1> QED
  BY <1>8, <1>9, <1>10 DEF Unique, IsVault

\* A new header leaves everything else.
LEMMA PasswordGood ==
  ASSUME NEW v \in Unique, NEW salt \in 0..MaxSaves,
         NEW w, w = [v EXCEPT !.version = Version, !.salt = salt]
  PROVE  w \in Unique /\ Keeping(v, w) /\ w.entries = v.entries
<1>1. IsVault(v) /\ Distinct(v.entries) /\ v \in Vault
  BY DEF Unique
<1>2. w \in Vault /\ w.entries = v.entries /\ w.data = v.data
  BY <1>1 DEF Vault
<1>3. IsVault(w)
  BY <1>1, <1>2 DEF IsVault
<1>4. Keeping(v, w)
  BY <1>2 DEF Keeping, ReadsIn, BoundIn, Echo
<1> QED
  BY <1>1, <1>2, <1>3, <1>4 DEF Unique

-----------------------------------------------------------------------------
(* Compaction.                                                             *)

\* What a container can hold as chunks when those of u are sealed again.
Sound(c, u) ==
  c.index \in 1..c.total /\ (c.id # Unbound => Echo(c, BoundIn(u)))

\* e with its chunks elsewhere.
Resealed(f, e) ==
  /\ f.name = e.name /\ f.dir = e.dir /\ f.count = e.count
  /\ f.id = e.id /\ f.holds = e.holds

SealsOne(w, x, e, u) ==
  /\ x \in Vault
  /\ Len(x.entries) = Len(w.entries) + 1
  /\ \A i \in 1..Len(w.entries) :
       /\ x.entries[i] = w.entries[i]
       /\ ReadsRight(w.entries[i], w.data) => ReadsRight(w.entries[i], x.data)
  /\ Resealed(x.entries[Len(w.entries) + 1], e)
  /\ Read(e, u.data) = Right(e) => ReadsRight(x.entries[Len(w.entries) + 1], x.data)
  /\ \A c \in Range(x.data) : c \in Range(w.data) \/ Sound(c, u)

LEMMA ReadChunks ==
  ASSUME NEW e \in Entry, NEW u, IsVault(u), Readable(e, u.data)
  PROVE  /\ Read(e, u.data) \in [1..e.count -> Content \cup {Gone}]
         /\ \A k \in 1..e.count :
              /\ e.id # Unbound => u.data[e.offset + k] \in BoundIn(u)
              /\ u.data[e.offset + k].id = e.id
              /\ Read(e, u.data)[k] = u.data[e.offset + k].holds
<1>1. /\ DOMAIN u.data = 1..Len(u.data) /\ Len(u.data) \in Nat
      /\ \A i \in 1..Len(u.data) : u.data[i] \in Chunk
  BY VaultFields
<1>2. e.count \in Nat /\ e.offset \in Nat
  BY DEF Entry
<1>3. \A k \in 1..e.count : /\ e.offset + k \in 1..Len(u.data)
                            /\ u.data[e.offset + k].id = e.id
  BY <1>1, <1>2 DEF Readable, Leads, Opens
<1>4. \A k \in 1..e.count : u.data[e.offset + k].holds \in Content \cup {Gone}
  BY <1>1, <1>3 DEF Chunk
<1>5. Read(e, u.data) \in [1..e.count -> Content \cup {Gone}]
  BY <1>4 DEF Read, ReadTo
<1>6. \A k \in 1..e.count : e.id # Unbound => u.data[e.offset + k] \in BoundIn(u)
  BY <1>1, <1>3 DEF BoundIn, Range
<1>7. \A k \in 1..e.count : Read(e, u.data)[k] = u.data[e.offset + k].holds
  BY DEF Read, ReadTo
<1> QED
  BY <1>3, <1>5, <1>6, <1>7

LEMMA SealAgainGood ==
  ASSUME NEW w \in Vault, NEW e \in Entry, NEW u, IsVault(u), Readable(e, u.data)
  PROVE  SealsOne(w, SealAgain(w, e, u.data), e, u)
<1>1. /\ w.entries \in Seq(Entry) /\ w.data \in Seq(Chunk)
      /\ Len(w.entries) \in Nat /\ Len(w.data) \in Nat
      /\ DOMAIN w.data = 1..Len(w.data)
      /\ \A i \in 1..Len(w.entries) : w.entries[i] \in Entry
  <2>1. w.entries \in Seq(Entry) /\ w.data \in Seq(Chunk)
    BY DEF Vault
  <2> QED
    BY <2>1
<1>2. PICK read \in [1..e.count -> Content \cup {Gone}] : read = Read(e, u.data)
  BY ReadChunks
<1>3. PICK more : more = [k \in 1..e.count |-> Seal(e, k, read[k])]
  OBVIOUS
<1>4. PICK f : f = [e EXCEPT !.offset = IF e.count = 0 THEN 0 ELSE Len(w.data)]
  OBVIOUS
<1>5. PICK x : x = SealAgain(w, e, u.data)
  OBVIOUS
<1>6. /\ more \in Seq(Chunk) /\ Len(more) = e.count
      /\ \A k \in 1..e.count : /\ more[k] = Seal(e, k, read[k])
                               /\ more[k].index \in 1..more[k].total
  BY <1>3, SealedChunks
<1>7. /\ f \in Entry /\ Resealed(f, e) /\ f.count \in Nat
      /\ f.offset <= Len(w.data) /\ (f.count # 0 => f.offset = Len(w.data))
  <2>1. PICK offset \in Nat : offset = IF e.count = 0 THEN 0 ELSE Len(w.data)
    BY <1>1
  <2>2. f = [e EXCEPT !.offset = offset]
    BY <1>4, <2>1
  <2>3. f \in Entry /\ Resealed(f, e) /\ f.count \in Nat /\ f.offset = offset
    BY <2>2 DEF Entry, Resealed
  <2>4. offset <= Len(w.data)
    BY <1>1, <2>1
  <2>5. f.count # 0 => f.offset = Len(w.data)
    BY <2>1, <2>3 DEF Resealed
  <2> QED
    BY <2>3, <2>4, <2>5
<1>8. x = [w EXCEPT !.entries = Append(w.entries, f), !.data = w.data \o more]
  BY <1>2, <1>3, <1>4, <1>5, Zenon DEF SealAgain
<1>9. PICK n \in Nat : n = Len(w.entries)
  BY <1>1
<1>10. PICK entries \in Seq(Entry) :
         /\ entries = Append(w.entries, f)
         /\ Len(entries) = n + 1 /\ entries[n + 1] = f
         /\ \A i \in 1..n : entries[i] = w.entries[i]
  <2>1. Append(w.entries, f) \in Seq(Entry)
    BY <1>1, <1>7
  <2>2. PICK entries : entries = Append(w.entries, f)
    OBVIOUS
  <2>3. Len(entries) = n + 1 /\ entries[n + 1] = f
    BY <1>1, <1>7, <1>9, <2>2
  <2>4. \A i \in 1..n : entries[i] = w.entries[i]
    BY <1>1, <1>7, <1>9, <2>2
  <2> QED
    BY <2>1, <2>2, <2>3, <2>4
<1>11. PICK data \in Seq(Chunk) :
         data = w.data \o more /\ Joined(data, w.data, more)
  BY <1>1, <1>6, ConcatPlaces
<1>12. x \in Vault /\ x.entries = entries /\ x.data = data
  BY <1>8, <1>10, <1>11 DEF Vault
<1>13. \A i \in 1..n : ReadsRight(w.entries[i], w.data) => ReadsRight(w.entries[i], data)
  BY <1>1, <1>6, <1>9, <1>11, ReadsExtended
<1>14. ASSUME Read(e, u.data) = Right(e)
       PROVE  ReadsRight(f, data)
  <2>1. \A k \in 1..e.count : read[k] = e.holds
    BY <1>2, <1>14 DEF Right
  <2>2. \A k \in 1..f.count : more[k] = Seal(f, k, f.holds)
    BY <1>6, <1>7, <2>1 DEF Resealed, Seal
  <2>3. Len(more) = f.count
    BY <1>6, <1>7 DEF Resealed
  <2> QED
    BY <1>1, <1>6, <1>7, <1>11, <2>2, <2>3, ReadsSealed
<1>15. ASSUME NEW c \in Range(data), c \notin Range(w.data)
       PROVE  Sound(c, u)
  <2>1. PICK i \in 1..Len(data) : c = data[i]
    <3>1. DOMAIN data = 1..Len(data)
      OBVIOUS
    <3> QED
      BY <1>15, <3>1 DEF Range
  <2>2. i \notin 1..Len(w.data)
    BY <1>1, <1>11, <1>15, <2>1 DEF Joined, Range
  <2>3. PICK k \in 1..e.count : c = more[k]
    BY <1>6, <1>11, <2>1, <2>2 DEF Joined
  <2>4. c = Seal(e, k, read[k]) /\ c.index \in 1..c.total
    BY <1>6, <2>3
  <2>5. c.id = e.id /\ c.holds = read[k]
    BY <2>4 DEF Seal
  <2>6. /\ e.id # Unbound => u.data[e.offset + k] \in BoundIn(u)
        /\ u.data[e.offset + k].id = e.id
        /\ Read(e, u.data)[k] = u.data[e.offset + k].holds
    BY ReadChunks
  <2> QED
    BY <1>2, <2>4, <2>5, <2>6 DEF Sound, Echo
<1>16. SealsOne(w, x, e, u)
  BY <1>7, <1>9, <1>10, <1>12, <1>13, <1>14, <1>15 DEF SealsOne
<1> QED
  BY <1>5, <1>16

\* Every entry of the manifest that is compacted can be read in u.
AllReadable(v, u) == \A i \in DOMAIN v.entries : Readable(v.entries[i], u.data)

Seals(f, v, u) ==
  /\ f \in [0..Len(v.entries) -> Vault]
  /\ f[0] = [v EXCEPT !.entries = <<>>, !.data = <<>>]
  /\ \A k \in 1..Len(v.entries) : f[k] = SealAgain(f[k - 1], v.entries[k], u.data)
  /\ Compacted(v, u.data) = f[Len(v.entries)]

LEMMA CompactedEquation ==
  ASSUME NEW v, IsVault(v), NEW u, IsVault(u), AllReadable(v, u)
  PROVE  \E f : Seals(f, v, u)
<1> DEFINE Equation(f) == f = [k \in 0..Len(v.entries) |->
                                  IF k = 0 THEN [v EXCEPT !.entries = <<>>, !.data = <<>>]
                                  ELSE SealAgain(f[k - 1], v.entries[k], u.data)]
<1>1. PICK n \in Nat :
        /\ n = Len(v.entries) /\ DOMAIN v.entries = 1..n /\ v \in Vault
        /\ \A i \in 1..n : v.entries[i] \in Entry
  BY VaultFields DEF IsVault
<1>2. PICK first \in Vault : first = [v EXCEPT !.entries = <<>>, !.data = <<>>]
  <2>1. <<>> \in Seq(Entry)
    OBVIOUS
  <2>2. <<>> \in Seq(Chunk)
    OBVIOUS
  <2> QED
    BY <1>1, <2>1, <2>2 DEF Vault
<1>3. \A w \in Vault, k \in 1..n : SealAgain(w, v.entries[k], u.data) \in Vault
  BY <1>1, SealAgainGood DEF AllReadable, SealsOne
<1>4. PICK next \in [Vault \X (1..n) -> Vault] :
        \A w \in Vault, k \in 1..n : next[<<w, k>>] = SealAgain(w, v.entries[k], u.data)
  <2> DEFINE next == [w \in Vault \X (1..n) |-> SealAgain(w[1], v.entries[w[2]], u.data)]
  <2>1. next \in [Vault \X (1..n) -> Vault]
    BY <1>3
  <2>2. \A w \in Vault, k \in 1..n : next[<<w, k>>] = SealAgain(w, v.entries[k], u.data)
    OBVIOUS
  <2> QED
    BY <2>1, <2>2
<1>5. PICK f : Runs(f, Vault, first, n, next)
  BY Recursion
<1>6. /\ f \in [0..n -> Vault] /\ f[0] = first
      /\ \A k \in 1..n : f[k] = SealAgain(f[k - 1], v.entries[k], u.data)
  <2>1. /\ f \in [0..n -> Vault] /\ f[0] = first
        /\ \A k \in 1..n : f[k] = next[<<f[k - 1], k>>]
    BY <1>5 DEF Runs
  <2>2. \A k \in 1..n : f[k - 1] \in Vault
    BY <2>1
  <2> QED
    BY <1>4, <2>1, <2>2
<1>7. Equation(f)
  <2>1. \A k \in 0..n : k # 0 => k \in 1..n
    OBVIOUS
  <2>2. f = [k \in 0..n |-> f[k]]
    BY <1>6
  <2> QED
    BY <1>1, <1>2, <1>6, <2>1, <2>2
<1>8. PICK sealed : Equation(sealed) /\ Compacted(v, u.data) = sealed[Len(v.entries)]
  <2> DEFINE sealed == CHOOSE g : Equation(g)
  <2>1. Compacted(v, u.data) = sealed[Len(v.entries)]
    BY DEF Compacted
  <2>2. Equation(sealed)
    <3> HIDE DEF Equation
    <3> QED
      BY <1>7
  <2> HIDE DEF sealed, Equation
  <2> QED
    BY <2>1, <2>2
<1>9. /\ sealed[0] = first
      /\ \A k \in 1..n : sealed[k] = SealAgain(sealed[k - 1], v.entries[k], u.data)
  <2>1. \A k \in 0..Len(v.entries) :
          sealed[k] = IF k = 0 THEN [v EXCEPT !.entries = <<>>, !.data = <<>>]
                      ELSE SealAgain(sealed[k - 1], v.entries[k], u.data)
    BY <1>8
  <2>2. 0 \in 0..n /\ \A k \in 1..n : k \in 0..n /\ k # 0
    OBVIOUS
  <2> HIDE DEF Equation
  <2> QED
    BY <1>1, <1>2, <2>1, <2>2
<1>10. sealed[n] = f[n]
  <2>1. Alike(sealed, f, n)
    BY <1>6, <1>9 DEF Alike
  <2>2. Equal(sealed, f, n)
    BY <2>1, RecursionUnique
  <2> QED
    BY <2>2 DEF Equal
<1> QED
  <2> HIDE DEF Equation
  <2> QED
    BY <1>1, <1>2, <1>6, <1>8, <1>10 DEF Seals

\* The first m entries are sealed again.
Resealing(w, v, u, m) ==
  /\ w \in Vault
  /\ Len(w.entries) = m
  /\ \A i \in 1..m :
       /\ Resealed(w.entries[i], v.entries[i])
       /\ Read(v.entries[i], u.data) = Right(v.entries[i]) => ReadsRight(w.entries[i], w.data)
  /\ \A c \in Range(w.data) : Sound(c, u)

LEMMA ResealOne ==
  ASSUME NEW w, NEW v, NEW u, NEW m \in Nat, Resealing(w, v, u, m),
         NEW x, SealsOne(w, x, v.entries[m + 1], u)
  PROVE  Resealing(x, v, u, m + 1)
<1>1. x \in Vault /\ Len(x.entries) = m + 1 /\ Len(w.entries) = m
  BY DEF Resealing, SealsOne
<1>2. ASSUME NEW i \in 1..m + 1
      PROVE  /\ Resealed(x.entries[i], v.entries[i])
             /\ Read(v.entries[i], u.data) = Right(v.entries[i])
                  => ReadsRight(x.entries[i], x.data)
  <2>1. CASE i = m + 1
    BY <1>1, <2>1 DEF SealsOne
  <2>2. CASE i # m + 1
    <3>1. i \in 1..m
      BY <2>2
    <3>2. /\ x.entries[i] = w.entries[i]
          /\ ReadsRight(w.entries[i], w.data) => ReadsRight(w.entries[i], x.data)
      BY <1>1, <3>1 DEF SealsOne
    <3> QED
      BY <3>1, <3>2 DEF Resealing
  <2> QED
    BY <2>1, <2>2
<1>3. \A c \in Range(x.data) : Sound(c, u)
  BY DEF Resealing, SealsOne
<1> QED
  BY <1>1, <1>2, <1>3 DEF Resealing

LEMMA CompactedReseals ==
  ASSUME NEW v, IsVault(v), NEW u, IsVault(u), AllReadable(v, u)
  PROVE  Resealing(Compacted(v, u.data), v, u, Len(v.entries))
<1>1. PICK f : Seals(f, v, u)
  BY CompactedEquation
<1>2. PICK n \in Nat :
        /\ n = Len(v.entries) /\ DOMAIN v.entries = 1..n /\ v \in Vault
        /\ \A i \in 1..n : v.entries[i] \in Entry
  BY VaultFields DEF IsVault
<1>3. /\ f \in [0..n -> Vault]
      /\ f[0] = [v EXCEPT !.entries = <<>>, !.data = <<>>]
      /\ \A k \in 1..n : f[k] = SealAgain(f[k - 1], v.entries[k], u.data)
      /\ Compacted(v, u.data) = f[n]
  BY <1>1, <1>2 DEF Seals
<1> DEFINE N == { m \in Nat : m <= n => Resealing(f[m], v, u, m) }
<1>4. 0 \in N
  <2>1. f[0] \in Vault /\ f[0].entries = <<>> /\ f[0].data = <<>>
    BY <1>2, <1>3 DEF Vault
  <2>2. Len(<<>>) = 0 /\ DOMAIN <<>> = {} /\ 1..0 = {}
    OBVIOUS
  <2>3. Len(f[0].entries) = 0 /\ Range(f[0].data) = {}
    BY <2>1, <2>2 DEF Range
  <2>4. Resealing(f[0], v, u, 0)
    BY <2>1, <2>2, <2>3 DEF Resealing
  <2> QED
    BY <2>4
<1>5. ASSUME NEW m \in Nat, m \in N
      PROVE  m + 1 \in N
  <2>1. SUFFICES ASSUME m + 1 <= n
                 PROVE  Resealing(f[m + 1], v, u, m + 1)
    OBVIOUS
  <2>2. m \in 0..n /\ m + 1 \in 1..n /\ (m + 1) - 1 = m /\ m <= n
    BY <1>2, <2>1
  <2>3. Resealing(f[m], v, u, m) /\ f[m] \in Vault
    BY <1>3, <1>5, <2>2
  <2>4. f[m + 1] = SealAgain(f[m], v.entries[m + 1], u.data)
    BY <1>3, <2>2
  <2>5. v.entries[m + 1] \in Entry /\ Readable(v.entries[m + 1], u.data)
    BY <1>2, <2>2 DEF AllReadable
  <2>6. SealsOne(f[m], f[m + 1], v.entries[m + 1], u)
    BY <2>3, <2>4, <2>5, SealAgainGood
  <2> QED
    BY <2>3, <2>6, ResealOne
<1>6. n \in N
  <2> HIDE DEF N
  <2> QED
    BY <1>4, <1>5, Induction
<1> QED
  BY <1>2, <1>3, <1>6

\* No file_id says one thing in B and another in C.
Agree(B, C) == \A b \in B, c \in C : b.id = c.id => b.holds = c.holds

\* What is bound to a file_id is what was added under it, wherever a chunk of it opens.
LEMMA BoundHolds ==
  ASSUME NEW v, IsVault(v), NEW u, IsVault(u), Agree(BoundIn(v), BoundIn(u)),
         NEW e \in Range(v.entries), e.id # Unbound,
         NEW n \in Int, Leads(n, e, u.data), NEW k \in 1..n
  PROVE  u.data[e.offset + k].holds = e.holds
<1>1. e \in BoundIn(v)
  BY DEF BoundIn
<1>2. e.offset \in Nat
  <2>1. e \in Entry
    BY VaultFields DEF Range
  <2> QED
    BY <2>1 DEF Entry
<1>3. DOMAIN u.data = 1..Len(u.data) /\ Len(u.data) \in Nat
  BY VaultFields
<1>4. e.offset + k \in 1..Len(u.data) /\ u.data[e.offset + k].id = e.id
  BY <1>2, <1>3 DEF Leads, Opens
<1>5. u.data[e.offset + k] \in BoundIn(u)
  BY <1>3, <1>4 DEF BoundIn, Range
<1> QED
  BY <1>1, <1>4, <1>5 DEF Agree

LEMMA BoundReadsRight ==
  ASSUME NEW v, IsVault(v), NEW u, IsVault(u), Agree(BoundIn(v), BoundIn(u)),
         NEW e \in Range(v.entries), e.id # Unbound, Readable(e, u.data)
  PROVE  Read(e, u.data) = Right(e)
<1>1. e \in BoundIn(v)
  BY DEF BoundIn
<1>2. e \in Entry
  BY VaultFields DEF Range
<1>3. \A k \in 1..e.count : Read(e, u.data)[k] = e.holds
  <2> SUFFICES ASSUME NEW k \in 1..e.count
               PROVE  Read(e, u.data)[k] = e.holds
    OBVIOUS
  <2>1. PICK c \in BoundIn(u) : c.id = e.id /\ Read(e, u.data)[k] = c.holds
    BY <1>2, ReadChunks
  <2> QED
    BY <1>1, <2>1 DEF Agree
<1>4. Read(e, u.data) \in [1..e.count -> Content \cup {Gone}]
  BY <1>2, ReadChunks
<1> QED
  BY <1>3, <1>4 DEF Right

LEMMA CompactedGood ==
  ASSUME NEW v \in Unique, NEW u, IsVault(u), AllReadable(v, u),
         NEW alone \in BOOLEAN, alone => v = u /\ ReadsIn(v, alone),
         Agree(BoundIn(v), BoundIn(u)),
         NEW w, w = Compacted(v, u.data)
  PROVE  /\ w \in Unique
         /\ ReadsIn(w, alone)
         /\ AllParented(v.entries) => AllParented(w.entries)
         /\ \A b \in BoundIn(w) : Echo(b, BoundIn(v) \cup BoundIn(u))
<1>1. Resealing(w, v, u, Len(v.entries)) /\ IsVault(v) /\ Distinct(v.entries)
  BY CompactedReseals DEF Unique
<1>2. PICK n \in Nat :
        /\ n = Len(v.entries) /\ DOMAIN v.entries = 1..n
        /\ \A i \in 1..n : v.entries[i] \in Entry /\ IsEntry(v.entries[i])
  BY <1>1, VaultFields
<1>3. /\ w \in Vault /\ Len(w.entries) = n
      /\ \A i \in 1..n : Resealed(w.entries[i], v.entries[i])
      /\ \A i \in 1..n : Read(v.entries[i], u.data) = Right(v.entries[i])
                           => ReadsRight(w.entries[i], w.data)
      /\ \A c \in Range(w.data) : Sound(c, u)
  BY <1>1, <1>2 DEF Resealing
<1>4. DOMAIN w.entries = 1..n
  <2>1. w.entries \in Seq(Entry)
    BY <1>3 DEF Vault
  <2> QED
    BY <1>3, <2>1
<1>5. IsVault(w)
  <2>1. \A i \in 1..n : IsEntry(w.entries[i])
    BY <1>2, <1>3 DEF IsEntry, Resealed
  <2>2. \A i \in DOMAIN w.data : w.data[i].index \in 1..w.data[i].total
    BY <1>3 DEF Range, Sound
  <2> QED
    BY <1>3, <1>4, <2>1, <2>2 DEF IsVault
<1>6. Distinct(w.entries)
  BY <1>1, <1>2, <1>3, <1>4 DEF Distinct, Resealed
<1>7. ASSUME AllParented(v.entries)
      PROVE  AllParented(w.entries)
  <2>1. \A q : IsDirectory(v.entries, q) => IsDirectory(w.entries, q)
    BY <1>2, <1>3, <1>4 DEF IsDirectory, Resealed
  <2>2. \A i \in 1..n : Parented(w.entries, v.entries[i].name)
    BY <1>2, <1>7, <2>1 DEF AllParented, Parented
  <2> QED
    BY <1>3, <1>4, <2>2 DEF AllParented, Resealed
<1>8. ReadsIn(w, alone)
  <2>1. SUFFICES ASSUME NEW i \in 1..n, w.entries[i].id # Unbound \/ alone
                 PROVE  Read(v.entries[i], u.data) = Right(v.entries[i])
    BY <1>3, <1>4 DEF ReadsIn, Range
  <2>2. v.entries[i] \in Range(v.entries) /\ v.entries[i].id = w.entries[i].id
    BY <1>2, <1>3 DEF Range, Resealed
  <2>3. CASE alone
    BY <2>2, <2>3 DEF ReadsIn, ReadsRight
  <2>4. CASE v.entries[i].id # Unbound
    <3>1. Readable(v.entries[i], u.data)
      BY <1>2 DEF AllReadable
    <3> QED
      BY <1>1, <2>2, <2>4, <3>1, BoundReadsRight
  <2> QED
    BY <2>1, <2>2, <2>3, <2>4
<1>9. ASSUME NEW b \in BoundIn(w)
      PROVE  Echo(b, BoundIn(v) \cup BoundIn(u))
  <2>1. b.id # Unbound /\ (b \in Range(w.entries) \/ b \in Range(w.data))
    BY DEF BoundIn
  <2>2. CASE b \in Range(w.data)
    <3>1. Echo(b, BoundIn(u))
      BY <1>3, <2>1, <2>2 DEF Sound
    <3> QED
      BY <3>1 DEF Echo
  <2>3. CASE b \in Range(w.entries)
    <3>1. PICK i \in 1..n : b = w.entries[i]
      BY <1>4, <2>3 DEF Range
    <3>2. v.entries[i].id = b.id /\ v.entries[i].holds = b.holds
      BY <1>3, <3>1 DEF Resealed
    <3>3. v.entries[i] \in BoundIn(v)
      BY <1>2, <2>1, <3>2 DEF BoundIn, Range
    <3> QED
      BY <3>2, <3>3 DEF Echo
  <2> QED
    BY <2>1, <2>2, <2>3
<1> QED
  BY <1>3, <1>5, <1>6, <1>7, <1>8, <1>9 DEF Unique

-----------------------------------------------------------------------------
(* The inductive invariant.                                                *)

\* The containers in play.
Vaults ==
  { v \in {disk, stable} \cup { source[h] : h \in Handle } \cup { result[h] : h \in Handle } :
      v # Gone }

GoodVault(v) ==
  /\ v \in Unique
  /\ ReadsIn(v, setting.alone)
  /\ ~orphaned => AllParented(v.entries)

\* Each container in play is good, and what is bound to a file_id was drawn by a
\* call that has been counted and means the same in all of them.
VaultsGood ==
  /\ \A v \in Vaults : GoodVault(v)
  /\ \A v \in Vaults : \A b \in BoundIn(v) : b.id[1] \in 0..saves
  /\ \A u, v \in Vaults : Agree(BoundIn(u), BoundIn(v))

Shape ==
  /\ setting \in [alone : BOOLEAN, windows : BOOLEAN]
  /\ step \in [Handle -> Steps]
  /\ bind \in [Handle -> BOOLEAN]
  /\ source = [h \in Handle |-> source[h]]
  /\ result = [h \in Handle |-> result[h]]
  /\ goal \in [Handle -> Seq(Path)]
  /\ output = [h \in Handle |-> output[h]]
  /\ \A h \in Handle : DOMAIN output[h] \subseteq Path
  /\ saves \in 0..MaxSaves

\* What a call has in hand at the second opening of the path.
HandAt(h) ==
  /\ step[h] = "compacting" => source[h] # Gone
  /\ step[h] = "reading" =>
       /\ source[h] # Gone /\ goal[h] # <<>>
       /\ Named(source[h].entries, Wanted(h))
       /\ ~IsDirectory(source[h].entries, Wanted(h))
  /\ step[h] = "idle" => output[h] = EmptyDirectory

InHand == \A h \in Handle : HandAt(h)

\* While calls are taken one at a time, nothing happens between the two openings.
OneAtATime ==
  setting.alone =>
    /\ \A g, h \in Handle : step[g] # "idle" /\ step[h] # "idle" => g = h
    /\ \A h \in Handle : step[h] \in {"compacting", "reading"} => source[h] = disk

LEMMA InVaults ==
  /\ disk # Gone => disk \in Vaults
  /\ stable # Gone => stable \in Vaults
  /\ \A h \in Handle : source[h] # Gone => source[h] \in Vaults
  /\ \A h \in Handle : result[h] # Gone => result[h] \in Vaults
BY DEF Vaults

\* Nothing new is in play.
LEMMA OldVaults ==
  ASSUME VaultsGood, Vaults' \subseteq Vaults, setting' = setting,
         saves' = saves \/ saves' = saves + 1, saves \in Nat, orphaned => orphaned'
  PROVE  VaultsGood'
<1>1. \A v \in Vaults' : GoodVault(v)'
  BY DEF VaultsGood, GoodVault
<1>2. 0..saves \subseteq 0..saves'
  OBVIOUS
<1>3. \A v \in Vaults' : \A b \in BoundIn(v) : b.id[1] \in 0..saves'
  BY <1>2 DEF VaultsGood
<1>4. \A u, v \in Vaults' : Agree(BoundIn(u), BoundIn(v))
  BY DEF VaultsGood
<1> QED
  BY <1>1, <1>3, <1>4 DEF VaultsGood

\* What w says of a file_id is said already, or is the first to be said of it.
Says(w) ==
  /\ \A b \in BoundIn(w) : (\E v \in Vaults : Echo(b, BoundIn(v))) \/ b.id[1] = saves + 1
  /\ \A b, c \in BoundIn(w) : b.id[1] = saves + 1 /\ b.id = c.id => b.holds = c.holds

\* One container is new.
LEMMA NewVault ==
  ASSUME VaultsGood, NEW w, Vaults' \subseteq Vaults \cup {w}, setting' = setting,
         saves' = saves + 1, saves \in Nat, orphaned => orphaned',
         GoodVault(w)', Says(w)
  PROVE  VaultsGood'
<1>1. \A v \in Vaults' : GoodVault(v)'
  <2>1. \A v \in Vaults : GoodVault(v)'
    BY DEF VaultsGood, GoodVault
  <2> QED
    BY <2>1
<1> DEFINE Said(b) == \E v \in Vaults : Echo(b, BoundIn(v))
<1>2. ASSUME NEW v \in Vaults', NEW b \in BoundIn(v)
      PROVE  Said(b) \/ (b \in BoundIn(w) /\ b.id[1] = saves + 1)
  <2>1. CASE v \in Vaults
    BY <2>1 DEF Echo
  <2>2. CASE v = w
    BY <2>2 DEF Says
  <2> QED
    BY <2>1, <2>2
<1>3. ASSUME NEW b, Said(b)
      PROVE  b.id[1] \in 0..saves
  BY <1>3 DEF Echo, VaultsGood
<1>4. ASSUME NEW b, NEW c, Said(b), Said(c), b.id = c.id
      PROVE  b.holds = c.holds
  <2>1. PICK u \in Vaults : Echo(b, BoundIn(u))
    BY <1>4
  <2>2. PICK v \in Vaults : Echo(c, BoundIn(v))
    BY <1>4
  <2>3. Agree(BoundIn(u), BoundIn(v))
    BY DEF VaultsGood
  <2> QED
    BY <1>4, <2>1, <2>2, <2>3 DEF Echo, Agree
<1> HIDE DEF Said
<1>5. \A v \in Vaults' : \A b \in BoundIn(v) : b.id[1] \in 0..saves'
  BY <1>2, <1>3
<1>6. ASSUME NEW u \in Vaults', NEW v \in Vaults',
             NEW b \in BoundIn(u), NEW c \in BoundIn(v), b.id = c.id
      PROVE  b.holds = c.holds
  <2>1. CASE Said(b) /\ Said(c)
    BY <1>4, <1>6, <2>1
  <2>2. CASE ~Said(b) /\ ~Said(c)
    BY <1>2, <1>6, <2>2 DEF Says
  <2>3. saves + 1 \notin 0..saves
    OBVIOUS
  <2>4. CASE Said(b) /\ ~Said(c)
    BY <1>2, <1>3, <1>6, <2>3, <2>4
  <2>5. CASE ~Said(b) /\ Said(c)
    BY <1>2, <1>3, <1>6, <2>3, <2>5
  <2> QED
    BY <2>1, <2>2, <2>4, <2>5
<1>7. \A u, v \in Vaults' : Agree(BoundIn(u), BoundIn(v))
  BY <1>6 DEF Agree
<1> QED
  BY <1>1, <1>5, <1>7 DEF VaultsGood

LEMMA DiskGood ==
  ASSUME VaultsGood, disk # Gone
  PROVE  disk \in Vaults /\ GoodVault(disk) /\ IsVault(disk)
BY InVaults DEF VaultsGood, GoodVault, Unique

\* A call that keeps to what it has read adds nothing under a new file_id.
LEMMA KeepingSays ==
  ASSUME VaultsGood, saves \in Nat, NEW v \in Vaults, NEW w, Keeping(v, w)
  PROVE  Says(w)
<1>1. ASSUME NEW b \in BoundIn(w)
      PROVE  Echo(b, BoundIn(v)) /\ b.id[1] # saves + 1
  <2>1. Echo(b, BoundIn(v))
    BY DEF Keeping
  <2>2. b.id[1] \in 0..saves
    BY <2>1 DEF Echo, VaultsGood
  <2> QED
    BY <2>1, <2>2
<1> QED
  BY <1>1 DEF Says

LEMMA GrownSays ==
  ASSUME saves \in Nat, NEW v \in Vaults, NEW w, Grown(v, w, saves + 1)
  PROVE  Says(w)
<1>1. Fresh(v, w, saves + 1)
  BY DEF Grown
<1>2. ASSUME NEW b \in BoundIn(w), b \notin BoundIn(v)
      PROVE  b.id[1] = saves + 1
  <2>1. PICK p \in Path : b.id = <<saves + 1>> \o p
    BY <1>1, <1>2 DEF Fresh
  <2>2. saves + 1 \in Nat
    OBVIOUS
  <2> QED
    BY <2>1, <2>2, NewFileId
<1>3. \A b \in BoundIn(v) : Echo(b, BoundIn(v))
  BY DEF Echo
<1> QED
  BY <1>1, <1>2, <1>3 DEF Says, Fresh

\* Every call that writes in one step writes a good container.
GoodNext(w) ==
  /\ w \in Unique
  /\ ReadsIn(w, setting.alone)
  /\ ~orphaned' => AllParented(w.entries)

Writes(h, w) ==
  /\ Write(h, w)
  /\ disk # Gone
  /\ source' = source \/ source' = [source EXCEPT ![h] = disk]
  /\ orphaned => orphaned'
  /\ GoodNext(w)
  /\ Says(w)

LEMMA KeepingWrites ==
  ASSUME Shape, VaultsGood, disk # Gone, NEW h \in Handle, NEW w \in Unique,
         Keeping(disk, w), Write(h, w),
         source' = source \/ source' = [source EXCEPT ![h] = disk],
         orphaned => orphaned', ~orphaned' => AllParented(w.entries)
  PROVE  Writes(h, w)
<1>1. saves \in Nat /\ setting.alone \in BOOLEAN
  BY SavesAssumption DEF Shape
<1>2. Says(w)
  BY <1>1, DiskGood, KeepingSays
<1>3. ReadsIn(w, setting.alone)
  BY <1>1, DiskGood DEF Keeping, GoodVault
<1> QED
  BY <1>2, <1>3 DEF Writes, GoodNext

LEMMA AddWrites ==
  ASSUME Shape, VaultsGood, NEW h \in Handle, NEW dir \in Path \cup {Root},
         Len(dir) < MaxDepth, NEW batch \in Batch, Add(h, dir, batch)
  PROVE  \E w : Writes(h, w)
<1>1. /\ saves \in Nat /\ saves + 1 \in Nat /\ setting.alone \in BOOLEAN
      /\ bind[h] \in BOOLEAN
  BY SavesAssumption DEF Shape
<1>2. disk # Gone /\ (dir = <<>> \/ IsDirectory(disk.entries, dir))
  BY DEF Add
<1>3. disk \in Vaults /\ disk \in Unique /\ GoodVault(disk)
  BY <1>2, DiskGood DEF GoodVault
<1>4. IsBatch(dir, batch)
  <2>1. dir \in Seq(Name) /\ Len(dir) \in Nat
    <3>1. CASE dir \in Path
      BY <3>1, PathIsSeq
    <3>2. CASE dir = <<>>
      BY <3>2
    <3> QED
      BY <3>1, <3>2 DEF Root
  <2>2. ASSUME NEW n \in Name
        PROVE  Append(dir, n) \in Path
    <3>1. Append(dir, n) \in Seq(Name) /\ Len(Append(dir, n)) = Len(dir) + 1
      BY <2>1
    <3>2. Len(Append(dir, n)) \in 1..MaxDepth
      BY <2>1, <3>1, DepthAssumption
    <3> QED
      BY <3>1, <3>2, SeqIsPath
  <2>3. batch \in Seq([name : Name, content : Content])
    BY BatchAssumption
  <2> QED
    BY <2>1, <2>2, <2>3 DEF IsBatch
<1>5. PICK w : w = AddFiles(disk, dir, batch, bind[h], saves + 1)
  OBVIOUS
<1>6. \A b \in BoundIn(disk) : b.id[1] # saves + 1
  <2>1. \A b \in BoundIn(disk) : b.id[1] \in 0..saves
    BY <1>3 DEF VaultsGood
  <2>2. saves + 1 \notin 0..saves
    BY <1>1
  <2> QED
    BY <2>1, <2>2
<1>7. w \in Unique /\ Grown(disk, w, saves + 1)
  BY <1>1, <1>2, <1>3, <1>4, <1>5, <1>6, AddFilesGood
<1>8. Write(h, w) /\ source' = source /\ orphaned' = orphaned
  BY <1>5 DEF Add
<1>9. GoodNext(w)
  BY <1>1, <1>3, <1>7, <1>8 DEF GoodNext, GoodVault, Grown
<1>10. Says(w)
  BY <1>1, <1>3, <1>7, GrownSays
<1> QED
  BY <1>2, <1>8, <1>9, <1>10 DEF Writes

LEMMA CallWrites ==
  ASSUME Shape, VaultsGood, NEW h \in Handle, NEW p \in Path, NEW q \in Path,
         NEW recursive \in BOOLEAN,
         \/ MakeDirectory(h, p) \/ Delete(h, {p, q}, recursive)
         \/ Move(h, p, q) \/ Copy(h, p, q)
  PROVE  \E w : Writes(h, w)
<1>1. disk # Gone
  BY DEF MakeDirectory, Delete, Move, Copy
<1>2. disk \in Unique /\ GoodVault(disk)
  BY <1>1, DiskGood DEF GoodVault
<1>3. CASE MakeDirectory(h, p)
  <2>1. PICK w : w = CreateDirectory(disk, p)
    OBVIOUS
  <2>2. w \in Unique /\ Keeping(disk, w)
    BY <1>2, <2>1, CreateGood
  <2>3. Write(h, w) /\ source' = source /\ orphaned' = (orphaned \/ ~AllParented(w.entries))
    BY <1>3, <2>1 DEF MakeDirectory
  <2> QED
    BY <1>1, <2>2, <2>3, KeepingWrites
<1>4. CASE Delete(h, {p, q}, recursive)
  <2>1. PICK w : w = DeleteEntries(disk, {p, q}, recursive)
    OBVIOUS
  <2>2. w \in Unique /\ Keeping(disk, w)
    BY <1>2, <2>1, DeleteGood
  <2>3. Write(h, w) /\ source' = source /\ orphaned' = (orphaned \/ ~AllParented(w.entries))
    BY <1>4, <2>1 DEF Delete
  <2> QED
    BY <1>1, <2>2, <2>3, KeepingWrites
<1>5. ASSUME Move(h, p, q) \/ Copy(h, p, q)
      PROVE  Fits(disk, p, q)
  BY <1>5 DEF Move, Copy, CanGo, Fits
<1>6. CASE Move(h, p, q)
  <2>1. PICK w : w = MoveEntry(disk, p, q)
    OBVIOUS
  <2>2. IsVault(w) /\ Keeping(disk, w)
    BY <1>2, <1>5, <1>6, <2>1, MoveGood
  <2>3. /\ Write(h, w) /\ source' = source /\ orphaned' = orphaned
        /\ Distinct(w.entries) /\ AllParented(w.entries)
    BY <1>6, <2>1 DEF Move, Rearranged
  <2>4. w \in Unique
    BY <2>2, <2>3 DEF Unique, IsVault
  <2> QED
    BY <1>1, <2>2, <2>3, <2>4, KeepingWrites
<1>7. CASE Copy(h, p, q)
  <2>1. PICK w : w = CopyEntry(disk, p, q)
    OBVIOUS
  <2>2. IsVault(w) /\ Keeping(disk, w)
    BY <1>2, <1>5, <1>7, <2>1, CopyGood
  <2>3. /\ Write(h, w) /\ source' = source /\ orphaned' = orphaned
        /\ Distinct(w.entries) /\ AllParented(w.entries)
    BY <1>7, <2>1 DEF Copy, Rearranged
  <2>4. w \in Unique
    BY <2>2, <2>3 DEF Unique, IsVault
  <2> QED
    BY <1>1, <2>2, <2>3, <2>4, KeepingWrites
<1> QED
  BY <1>3, <1>4, <1>6, <1>7

LEMMA PasswordWrites ==
  ASSUME Shape, VaultsGood, NEW h \in Handle, ChangePassword(h)
  PROVE  \E w : Writes(h, w)
<1>0. disk # Gone /\ disk \in Unique /\ GoodVault(disk)
  BY DiskGood DEF GoodVault, ChangePassword
<1>1. PICK w : w = [disk EXCEPT !.version = Version, !.salt = saves + 1]
  OBVIOUS
<1>2. /\ Write(h, w) /\ source' = [source EXCEPT ![h] = disk] /\ orphaned' = orphaned
      /\ saves < MaxSaves
  BY <1>1 DEF ChangePassword, Write
<1>3. saves + 1 \in 0..MaxSaves
  BY <1>2, SavesAssumption DEF Shape
<1>4. w \in Unique /\ Keeping(disk, w) /\ w.entries = disk.entries
  BY <1>0, <1>1, <1>3, PasswordGood
<1>5. ~orphaned' => AllParented(w.entries)
  BY <1>0, <1>2, <1>4 DEF GoodVault
<1> QED
  BY <1>0, <1>2, <1>4, <1>5, KeepingWrites

\* An extraction that starts: the names there are.
Starts(h) ==
  \E names \in Seq(Path) :
    /\ StartExtract(h, names)
    /\ disk # Gone
    /\ \A i \in 1..Len(names) : Named(disk.entries, names[i])
    /\ \A i, j \in 1..Len(names) : names[i] = names[j] => i = j

LEMMA ExtractStarts ==
  ASSUME Shape, VaultsGood, NEW h \in Handle,
         ExtractAll(h) \/ \E p \in Asked : Extract(h, p)
  PROVE  Starts(h)
<1>1. CASE ExtractAll(h)
  <2>1. disk # Gone
    BY <1>1 DEF ExtractAll
  <2>2. IsVault(disk) /\ Distinct(disk.entries)
    BY <2>1, DiskGood DEF GoodVault, Unique
  <2>3. PICK n \in Nat :
          /\ n = Len(disk.entries) /\ DOMAIN disk.entries = 1..n
          /\ \A i \in 1..n : disk.entries[i] \in Entry
    BY <2>2, VaultFields
  <2>4. PICK names : names = [i \in 1..n |-> disk.entries[i].name]
    OBVIOUS
  <2>5. names \in [1..n -> Path]
    BY <2>3, <2>4 DEF Entry
  <2>6. names \in Seq(Path) /\ Len(names) = n
    BY <2>5, FunctionIsSeq
  <2>7. StartExtract(h, names)
    BY <1>1, <2>3, <2>4 DEF ExtractAll
  <2>8. \A i \in 1..n : Named(disk.entries, names[i])
    BY <2>3, <2>4 DEF Named
  <2>9. \A i, j \in 1..n : names[i] = names[j] => i = j
    BY <2>2, <2>3, <2>4 DEF Distinct
  <2> QED
    BY <2>1, <2>6, <2>7, <2>8, <2>9 DEF Starts
<1>2. ASSUME NEW p \in Asked, Extract(h, p)
      PROVE  Starts(h)
  <2>1. p \in Path
    BY AskedAssumption
  <2>2. PICK names : names = <<p>>
    OBVIOUS
  <2>3. names \in Seq(Path) /\ Len(names) = 1 /\ names[1] = p
    BY <2>1, <2>2
  <2>4. disk # Gone /\ Named(disk.entries, p) /\ StartExtract(h, names)
    BY <1>2, <2>2 DEF Extract
  <2>5. \A i \in 1..Len(names) : i = 1
    BY <2>3
  <2>6. \A i \in 1..Len(names) : Named(disk.entries, names[i])
    BY <2>3, <2>4, <2>5
  <2> QED
    BY <2>3, <2>4, <2>5, <2>6 DEF Starts
<1> QED
  BY <1>1, <1>2

\* What a step of the system can be.
Happens(h) ==
  \/ (\E w : Writes(h, w)) \/ CompactManifest(h) \/ Starts(h) \/ Open(h)
  \/ CompactData(h) \/ RemoveOld(h) \/ Rename(h) \/ SyncDirectory(h)
  \/ ExtractDirectory(h) \/ ExtractManifest(h) \/ ExtractData(h)
  \/ ExtractBreaks(h) \/ ExtractFails(h) \/ ExtractReturns(h) \/ Fail(h)

LEMMA StepKinds ==
  ASSUME Shape, VaultsGood, Next
  PROVE  PowerLoss \/ \E h \in Handle : Happens(h)
<1>1. CASE PowerLoss
  BY <1>1
<1>2. ASSUME NEW h \in Handle, Call(h)
      PROVE  Happens(h)
  <2>1. ASSUME NEW p \in Asked \cup {Root}, NEW batch \in Batch,
               Len(p) < MaxDepth, Add(h, p, batch)
        PROVE  Happens(h)
    BY <2>1, AskedAssumption, AddWrites DEF Happens
  <2>2. ASSUME NEW p \in Asked, NEW q \in Asked, NEW recursive \in BOOLEAN,
               \/ MakeDirectory(h, p) \/ Delete(h, {p, q}, recursive)
               \/ Move(h, p, q) \/ Copy(h, p, q)
        PROVE  Happens(h)
    <3>1. p \in Path /\ q \in Path
      BY AskedAssumption
    <3> QED
      BY <2>2, <3>1, CallWrites DEF Happens
  <2>3. CASE ChangePassword(h)
    BY <2>3, PasswordWrites DEF Happens
  <2>4. CASE ExtractAll(h) \/ \E p \in Asked : Extract(h, p)
    BY <2>4, ExtractStarts DEF Happens
  <2>5. CASE CompactManifest(h) \/ Open(h)
    BY <2>5 DEF Happens
  <2>6. ASSUME NEW p \in Asked, MakeDirectory(h, p)
        PROVE  Happens(h)
    <3>1. TRUE \in BOOLEAN
      OBVIOUS
    <3> QED
      BY <2>2, <2>6, <3>1
  <2> QED
    BY <1>2, <2>1, <2>2, <2>3, <2>4, <2>5, <2>6 DEF Call
<1>3. ASSUME NEW h \in Handle, Step(h)
      PROVE  Happens(h)
  BY <1>3 DEF Step, Happens
<1> QED
  BY <1>1, <1>2, <1>3 DEF Next

-----------------------------------------------------------------------------
(* Every step keeps the invariant.                                         *)

LEMMA VaultsWithin ==
  ASSUME NEW X, \A v \in {disk', stable'} : v = Gone \/ v \in X,
         \A h \in Handle : source'[h] = Gone \/ source'[h] \in X,
         \A h \in Handle : result'[h] = Gone \/ result'[h] \in X
  PROVE  Vaults' \subseteq X
BY DEF Vaults

\* Nothing is read anew or made.
LEMMA NothingNew ==
  ASSUME Shape, VaultsGood, UNCHANGED <<setting, saves, orphaned>>,
         disk' \in {disk, stable, Gone} \/ \E h \in Handle : disk' = result[h],
         \/ stable' \in {disk, stable, Gone}
         \/ \E h \in Handle : stable' = result[h],
         \A h \in Handle : source'[h] \in {source[h], disk, Gone},
         \A h \in Handle : result'[h] \in {result[h], Gone}
  PROVE  VaultsGood'
<1>1. Vaults' \subseteq Vaults
  <2>1. \A v \in {disk', stable'} : v = Gone \/ v \in Vaults
    BY InVaults
  <2>2. \A h \in Handle : source'[h] = Gone \/ source'[h] \in Vaults
    BY InVaults
  <2>3. \A h \in Handle : result'[h] = Gone \/ result'[h] \in Vaults
    BY InVaults
  <2> QED
    BY <2>1, <2>2, <2>3, VaultsWithin
<1>2. saves \in Nat
  BY SavesAssumption DEF Shape
<1> QED
  BY <1>1, <1>2, OldVaults

\* What an update of a function on the handles gives.
LEMMA Updated ==
  ASSUME NEW f, f = [g \in Handle |-> f[g]], NEW h \in Handle, NEW v,
         NEW e, e = [f EXCEPT ![h] = v]
  PROVE  /\ e = [g \in Handle |-> e[g]]
         /\ e[h] = v
         /\ \A g \in Handle : g # h => e[g] = f[g]
<1>1. DOMAIN f = Handle
  OBVIOUS
<1> QED
  BY <1>1

LEMMA WriteKeeps ==
  ASSUME Shape, VaultsGood, NEW h \in Handle, NEW w, Writes(h, w)
  PROVE  VaultsGood'
<1>1. /\ disk' = disk /\ stable' = stable /\ setting' = setting /\ saves' = saves + 1
      /\ result' = [result EXCEPT ![h] = w] /\ disk # Gone
      /\ source' = source \/ source' = [source EXCEPT ![h] = disk]
      /\ orphaned => orphaned'
      /\ saves \in Nat
  BY SavesAssumption DEF Writes, Write, file, Shape
<1>2. \A g \in Handle : source'[g] \in {source[g], disk}
  BY <1>1, Updated DEF Shape
<1>3. \A g \in Handle : result'[g] \in {result[g], w}
  BY <1>1, Updated DEF Shape
<1>4. Vaults' \subseteq Vaults \cup {w}
  <2>1. PICK X : X = Vaults \cup {w}
    OBVIOUS
  <2>2. \A v \in {disk', stable'} : v = Gone \/ v \in X
    BY <1>1, <2>1, InVaults
  <2>3. \A g \in Handle : source'[g] = Gone \/ source'[g] \in X
    BY <1>2, <2>1, InVaults
  <2>4. \A g \in Handle : result'[g] = Gone \/ result'[g] \in X
    BY <1>3, <2>1, InVaults
  <2> QED
    BY <2>1, <2>2, <2>3, <2>4, VaultsWithin
<1>5. GoodVault(w)'
  BY <1>1 DEF Writes, GoodNext, GoodVault
<1>6. Says(w)
  BY DEF Writes
<1> QED
  BY <1>1, <1>4, <1>5, <1>6, NewVault

LEMMA CompactKeeps ==
  ASSUME Shape, VaultsGood, InHand, OneAtATime, NEW h \in Handle, CompactData(h)
  PROVE  VaultsGood'
<1>1. PICK v, w : v = source[h] /\ w = Compacted(v, disk.data)
  OBVIOUS
<1>2. /\ step[h] = "compacting" /\ disk # Gone
      /\ AllReadable(v, disk)
      /\ result' = [result EXCEPT ![h] = w]
      /\ source' = [source EXCEPT ![h] = Gone]
      /\ UNCHANGED <<setting, disk, stable, saves, orphaned>>
  BY <1>1 DEF CompactData, AllReadable, file, history
<1>3. v # Gone /\ v \in Vaults /\ disk \in Vaults
  BY <1>1, <1>2, InVaults DEF InHand, HandAt
<1>4. v \in Unique /\ GoodVault(v) /\ IsVault(disk)
  BY <1>2, <1>3, DiskGood DEF VaultsGood, GoodVault
<1>5. setting.alone \in BOOLEAN /\ saves \in Nat
  BY SavesAssumption DEF Shape
<1>6. setting.alone => v = disk /\ ReadsIn(v, setting.alone)
  BY <1>1, <1>2, <1>4 DEF OneAtATime, GoodVault
<1>7. Agree(BoundIn(v), BoundIn(disk))
  BY <1>3 DEF VaultsGood
<1>8. /\ w \in Unique
      /\ ReadsIn(w, setting.alone)
      /\ AllParented(v.entries) => AllParented(w.entries)
      /\ \A b \in BoundIn(w) : Echo(b, BoundIn(v) \cup BoundIn(disk))
  BY <1>1, <1>2, <1>4, <1>5, <1>6, <1>7, CompactedGood
<1>9. \A u \in Vaults' : u \in Vaults \/ u = w
  <2>1. PICK X : X = Vaults \cup {w}
    OBVIOUS
  <2>2. \A u \in {disk', stable'} : u = Gone \/ u \in X
    BY <1>2, <2>1, InVaults
  <2>3. \A g \in Handle : source'[g] = Gone \/ source'[g] \in X
    BY <1>2, <2>1, InVaults, Updated DEF Shape
  <2>4. \A g \in Handle : result'[g] = Gone \/ result'[g] \in X
    BY <1>2, <2>1, InVaults, Updated DEF Shape
  <2> QED
    BY <2>1, <2>2, <2>3, <2>4, VaultsWithin
<1>10. \A u \in Vaults' : GoodVault(u)'
  <2>1. GoodVault(w)'
    BY <1>2, <1>4, <1>8 DEF GoodVault
  <2>2. \A u \in Vaults : GoodVault(u)'
    BY <1>2 DEF VaultsGood, GoodVault
  <2> QED
    BY <1>9, <2>1, <2>2
<1>11. ASSUME NEW u \in Vaults', NEW b \in BoundIn(u)
       PROVE  \E x \in Vaults : Echo(b, BoundIn(x))
  <2>1. CASE u \in Vaults
    BY <2>1 DEF Echo
  <2>2. CASE u = w
    BY <1>3, <1>8, <2>2 DEF Echo
  <2> QED
    BY <1>9, <2>1, <2>2
<1>12. \A u \in Vaults' : \A b \in BoundIn(u) : b.id[1] \in 0..saves'
  BY <1>2, <1>11 DEF VaultsGood, Echo
<1>13. ASSUME NEW u \in Vaults', NEW x \in Vaults', NEW b \in BoundIn(u), NEW c \in BoundIn(x),
              b.id = c.id
       PROVE  b.holds = c.holds
  <2>1. PICK y \in Vaults : Echo(b, BoundIn(y))
    BY <1>11
  <2>2. PICK z \in Vaults : Echo(c, BoundIn(z))
    BY <1>11
  <2>3. Agree(BoundIn(y), BoundIn(z))
    BY DEF VaultsGood
  <2> QED
    BY <1>13, <2>1, <2>2, <2>3 DEF Echo, Agree
<1>14. \A u, x \in Vaults' : Agree(BoundIn(u), BoundIn(x))
  BY <1>13 DEF Agree
<1> QED
  BY <1>10, <1>12, <1>14 DEF VaultsGood

LEMMA VaultsStayGood ==
  ASSUME Shape, VaultsGood, InHand, OneAtATime, [Next]_vars
  PROVE  VaultsGood'
<1>1. CASE UNCHANGED vars
  BY <1>1, NothingNew DEF vars, file, reading, history
<1>2. CASE PowerLoss
  BY <1>2, NothingNew DEF PowerLoss
<1>3. ASSUME NEW h \in Handle, Happens(h)
      PROVE  VaultsGood'
  <2>1. CASE \E w : Writes(h, w)
    BY <2>1, WriteKeeps
  <2>2. CASE CompactData(h)
    BY <2>2, CompactKeeps
  <2>3. ASSUME setting' = setting, orphaned' = orphaned, saves' = saves,
               \/ disk' \in {disk, Gone} /\ stable' \in {disk, stable, Gone}
               \/ disk' = result[h] /\ stable' \in {stable, result[h]},
               source' = source \/ \E v \in {disk, Gone} : source' = [source EXCEPT ![h] = v],
               result' = result \/ result' = [result EXCEPT ![h] = Gone]
        PROVE  VaultsGood'
    <3>1. \A g \in Handle : source'[g] \in {source[g], disk, Gone}
      BY <2>3, Updated DEF Shape
    <3>2. \A g \in Handle : result'[g] \in {result[g], Gone}
      BY <2>3, Updated DEF Shape
    <3>3. disk' \in {disk, stable, Gone} \/ \E g \in Handle : disk' = result[g]
      BY <2>3
    <3>4. stable' \in {disk, stable, Gone} \/ \E g \in Handle : stable' = result[g]
      BY <2>3
    <3> QED
      BY <2>3, <3>1, <3>2, <3>3, <3>4, NothingNew
  <2>4. CASE Starts(h) \/ Open(h)
    BY <2>3, <2>4 DEF Starts, StartExtract, Open, file, reading, history
  <2>5. CASE RemoveOld(h)
    BY <2>3, <2>5 DEF RemoveOld, reading, history
  <2>6. CASE Rename(h)
    BY <2>3, <2>6 DEF Rename, reading
  <2>7. CASE SyncDirectory(h)
    BY <2>3, <2>7 DEF SyncDirectory, Return
  <2>8. CASE \/ ExtractDirectory(h) \/ ExtractManifest(h) \/ ExtractData(h)
             \/ ExtractBreaks(h) \/ ExtractFails(h)
    BY <2>3, <2>8
    DEF ExtractDirectory, ExtractManifest, ExtractData, ExtractBreaks, ExtractFails, file,
        reading, history
  <2>9. CASE ExtractReturns(h) \/ Fail(h)
    BY <2>3, <2>9 DEF ExtractReturns, Fail, Return, file, history
  <2>10. CASE CompactManifest(h)
    <3>1. Vaults' \subseteq Vaults
      <4>1. /\ UNCHANGED <<disk, stable, result>>
            /\ source' = [source EXCEPT ![h] = disk]
        BY <2>10 DEF CompactManifest, file
      <4>2. \A g \in Handle : source'[g] = Gone \/ source'[g] \in Vaults
        BY <4>1, Updated, InVaults DEF Shape
      <4> QED
        BY <4>1, <4>2, InVaults, VaultsWithin
    <3>2. setting' = setting /\ orphaned' = orphaned /\ saves' = saves + 1 /\ saves \in Nat
      BY <2>10, SavesAssumption DEF CompactManifest, history, Shape
    <3> QED
      BY <3>1, <3>2, OldVaults
  <2> QED
    BY <1>3, <2>1, <2>2, <2>4, <2>5, <2>6, <2>7, <2>8, <2>9, <2>10 DEF Happens
<1> QED
  BY <1>1, <1>2, <1>3, StepKinds

\* The place of a file in the directory extracted into.
LEMMA PlaceIsPath ==
  ASSUME NEW p \in Path
  PROVE  /\ Place(p) \in Path /\ Len(Place(p)) = 1
         /\ Place(p)[1] = Last(p) /\ Last(p) \in Name
<1>1. p \in Seq(Name) /\ Len(p) \in 1..MaxDepth /\ Len(p) \in Nat
  BY PathIsSeq
<1>2. Last(p) = p[Len(p)] /\ Last(p) \in Name
  BY <1>1 DEF Last
<1>3. Place(p) \in Seq(Name) /\ Len(Place(p)) = 1 /\ Place(p)[1] = Last(p)
  BY <1>2 DEF Place
<1>4. Len(Place(p)) \in 1..MaxDepth
  BY <1>3, DepthAssumption
<1> QED
  BY <1>2, <1>3, <1>4, SeqIsPath

\* One more file, or one more folder, in the directory extracted into.
HasFile(new, out, p, entry, whole, got) ==
  /\ \A q \in DOMAIN new : q \in DOMAIN out \/ q = Place(p)
  /\ \A q \in DOMAIN out : q \in DOMAIN new /\ new[q] = out[q]
  /\ new[Place(p)] = [dir |-> FALSE, whole |-> whole, bound |-> entry.id # Unbound,
                      held |-> Right(entry), got |-> got]

LEMMA FileWritten ==
  ASSUME NEW out, NEW p, Place(p) \notin DOMAIN out, NEW entry, NEW whole, NEW got
  PROVE  HasFile(WithFile(out, p, entry, whole, got), out, p, entry, whole, got)
BY DEF WithFile, HasFile

HasFolder(new, out, p) ==
  /\ \A q \in DOMAIN new :
       q \in DOMAIN out \/ (new[q] = Folder /\ \E n \in 1..Len(p) : q = SubSeq(p, 1, n))
  /\ \A q \in DOMAIN out : q \in DOMAIN new /\ new[q] = out[q]

LEMMA FolderMade ==
  ASSUME NEW out, NEW p
  PROVE  HasFolder(WithFolder(out, p), out, p)
BY DEF WithFolder, HasFolder

LEMMA WantedIsPath ==
  ASSUME Shape, NEW h \in Handle, goal[h] # <<>>
  PROVE  /\ Wanted(h) \in Path /\ Wanted(h) = goal[h][1] /\ 1 \in 1..Len(goal[h])
         /\ Tail(goal[h]) \in Seq(Path) /\ Len(Tail(goal[h])) = Len(goal[h]) - 1
         /\ \A i \in 1..Len(goal[h]) - 1 : Tail(goal[h])[i] = goal[h][i + 1]
<1>1. PICK s \in Seq(Path) : s = goal[h] /\ s # <<>>
  BY DEF Shape
<1>2. Len(s) \in Nat /\ Len(s) >= 1 /\ s[1] \in Path
  BY <1>1
<1>3. Head(s) = s[1]
  BY <1>1
<1>4. Tail(s) \in Seq(Path) /\ Len(Tail(s)) = Len(s) - 1
  BY <1>1, <1>2
<1>5. \A i \in 1..Len(s) - 1 : Tail(s)[i] = s[i + 1]
  BY <1>1, <1>2
<1> QED
  BY <1>1, <1>2, <1>3, <1>4, <1>5 DEF Wanted

\* A step of h changes what is kept for h, and keeps its form.
ShapeAt(h) ==
  /\ setting' = setting
  /\ step' = step \/ \E s \in Steps : step' = [step EXCEPT ![h] = s]
  /\ bind' = bind \/ \E b \in BOOLEAN : bind' = [bind EXCEPT ![h] = b]
  /\ source' = source \/ \E v : source' = [source EXCEPT ![h] = v]
  /\ result' = result \/ \E v : result' = [result EXCEPT ![h] = v]
  /\ goal' = goal \/ \E s \in Seq(Path) : goal' = [goal EXCEPT ![h] = s]
  /\ \/ output' = output
     \/ \E out : DOMAIN out \subseteq Path /\ output' = [output EXCEPT ![h] = out]
  /\ saves' = saves \/ (saves < MaxSaves /\ saves' = saves + 1)

LEMMA ShapeKept ==
  ASSUME Shape, NEW h \in Handle, ShapeAt(h)
  PROVE  Shape'
<1>1. step' \in [Handle -> Steps]
  BY DEF Shape, ShapeAt
<1>2. bind' \in [Handle -> BOOLEAN]
  BY DEF Shape, ShapeAt
<1>3. source' = [g \in Handle |-> source'[g]]
  BY Updated DEF Shape, ShapeAt
<1>4. result' = [g \in Handle |-> result'[g]]
  BY Updated DEF Shape, ShapeAt
<1>5. goal' \in [Handle -> Seq(Path)]
  BY DEF Shape, ShapeAt
<1>6. output' = [g \in Handle |-> output'[g]]
  BY Updated DEF Shape, ShapeAt
<1>7. \A g \in Handle : DOMAIN output'[g] \subseteq Path
  BY Updated, ZenonT(30) DEF Shape, ShapeAt
<1>8. saves' \in 0..MaxSaves
  BY SavesAssumption DEF Shape, ShapeAt
<1>9. setting' \in [alone : BOOLEAN, windows : BOOLEAN]
  BY DEF Shape, ShapeAt
<1> QED
  BY <1>1, <1>2, <1>3, <1>4, <1>5, <1>6, <1>7, <1>8, <1>9 DEF Shape

LEMMA EmptyForms == DOMAIN EmptyDirectory \subseteq Path /\ <<>> \in Seq(Path)
<1>1. <<>> \in Seq(Path)
  OBVIOUS
<1> QED
  BY <1>1 DEF EmptyDirectory

\* What a step of h leaves alone.
LEMMA HappensAt ==
  ASSUME Shape, VaultsGood, InHand, NEW h \in Handle, Happens(h)
  PROVE  ShapeAt(h)
<1> USE DEF Goto
<1>13. \A s \in {"idle", "compacting", "written", "removed", "renamed",
                 "extracting", "reading", "failed"} : s \in Steps
  BY DEF Steps
<1>0. /\ bind[h] \in BOOLEAN /\ goal[h] \in Seq(Path)
      /\ DOMAIN output[h] \subseteq Path
  BY DEF Shape
<1>1. ASSUME NEW w, Writes(h, w)
      PROVE  ShapeAt(h)
  BY <1>13, <1>1 DEF Writes, Write, ShapeAt
<1>2. CASE CompactManifest(h)
  BY <1>13, <1>2 DEF CompactManifest, ShapeAt
<1>11. CASE CompactData(h)
  <2>1. PICK w : w = Compacted(source[h], disk.data)
    OBVIOUS
  <2>2. /\ step' = [step EXCEPT ![h] = "written"]
        /\ result' = [result EXCEPT ![h] = w] /\ source' = [source EXCEPT ![h] = Gone]
        /\ UNCHANGED <<setting, bind, goal, output, saves>>
    BY <1>11, <2>1 DEF CompactData
  <2> QED
    BY <1>13, <2>2 DEF ShapeAt
<1>3. CASE Starts(h)
  <2>1. PICK names \in Seq(Path) : StartExtract(h, names)
    BY <1>3 DEF Starts
  <2> QED
    BY <1>13, <2>1 DEF StartExtract, ShapeAt
<1>4. CASE Open(h)
  <2>1. PICK b \in BOOLEAN : b = (disk.version >= Version)
    <3>1. disk.version \in {LegacyVersion, Version}
      BY <1>4, DiskGood, VaultFields DEF Open
    <3>2. (disk.version >= Version) \in BOOLEAN
      BY <3>1 DEF LegacyVersion, Version
    <3> QED
      BY <3>2
  <2>2. bind' = [bind EXCEPT ![h] = b]
    BY <1>4, <2>1 DEF Open
  <2> QED
    BY <1>4, <2>2 DEF Open, ShapeAt, reading
<1>5. CASE RemoveOld(h) \/ Rename(h)
  BY <1>13, <1>5 DEF RemoveOld, Rename, reading, ShapeAt
<1>6. ASSUME Return(h), setting' = setting, saves' = saves,
             bind' = bind \/ \E b \in BOOLEAN : bind' = [bind EXCEPT ![h] = b]
      PROVE  ShapeAt(h)
  BY <1>13, <1>6, EmptyForms DEF Return, ShapeAt
<1>7. CASE SyncDirectory(h)
  <2>1. PICK b : b = (bind[h] \/ source[h] # Gone)
    OBVIOUS
  <2>2. b \in BOOLEAN
    BY <1>0, <2>1
  <2>3. bind' = [bind EXCEPT ![h] = b]
    BY <1>7, <2>1 DEF SyncDirectory
  <2>4. Return(h) /\ setting' = setting /\ saves' = saves
    BY <1>7 DEF SyncDirectory
  <2> QED
    BY <1>6, <2>2, <2>3, <2>4
<1>8. CASE ExtractReturns(h) \/ Fail(h)
  <2>1. Return(h) /\ setting' = setting /\ saves' = saves /\ bind' = bind
    BY <1>8 DEF ExtractReturns, Fail
  <2> QED
    BY <1>6, <2>1
<1>9. CASE ExtractManifest(h) \/ ExtractFails(h)
  BY <1>13, <1>9 DEF ExtractManifest, ExtractFails, reading, ShapeAt
<1>10. CASE ExtractDirectory(h)
  <2>1. PICK out : out = WithFolder(output[h], Wanted(h))
    OBVIOUS
  <2>2. /\ goal[h] # <<>>
        /\ output' = [output EXCEPT ![h] = out]
        /\ goal' = [goal EXCEPT ![h] = Tail(goal[h])]
        /\ UNCHANGED <<setting, step, bind, source, result, saves>>
    BY <1>10, <2>1 DEF ExtractDirectory
  <2>3. Tail(goal[h]) \in Seq(Path) /\ Wanted(h) \in Path
    BY <2>2, WantedIsPath
  <2>4. DOMAIN out \subseteq Path
    <3>1. PICK p \in Path : p = Wanted(h)
      BY <2>3
    <3>2. HasFolder(out, output[h], p)
      BY <2>1, <3>1, FolderMade
    <3>3. \A n \in 1..Len(p) : SubSeq(p, 1, n) \in Path
      BY PrefixIsPath
    <3> QED
      BY <1>0, <3>2, <3>3 DEF HasFolder
  <2> QED
    BY <2>2, <2>3, <2>4 DEF ShapeAt
<1>12. CASE ExtractData(h)
  <2>1. PICK out :
          out = WithFile(output[h], Wanted(h), Found(h), TRUE, Read(Found(h), disk.data))
    OBVIOUS
  <2>2. /\ goal[h] # <<>> /\ Place(Wanted(h)) \notin DOMAIN output[h]
        /\ output' = [output EXCEPT ![h] = out]
        /\ goal' = [goal EXCEPT ![h] = Tail(goal[h])]
        /\ step' = [step EXCEPT ![h] = "extracting"]
        /\ UNCHANGED <<setting, bind, source, result, saves>>
    BY <1>12, <2>1 DEF ExtractData, CreatesFile, InHand, HandAt
  <2>3. Tail(goal[h]) \in Seq(Path) /\ Place(Wanted(h)) \in Path
    BY <2>2, WantedIsPath, PlaceIsPath
  <2>4. DOMAIN out \subseteq Path
    <3>1. HasFile(out, output[h], Wanted(h), Found(h), TRUE, Read(Found(h), disk.data))
      BY <2>1, <2>2, FileWritten
    <3> QED
      BY <1>0, <2>3, <3>1 DEF HasFile
  <2> QED
    BY <1>13, <2>2, <2>3, <2>4 DEF ShapeAt
<1>14. CASE ExtractBreaks(h)
  <2>1. PICK n, out :
          /\ out = WithFile(output[h], Wanted(h), Found(h), FALSE, ReadTo(n, Found(h), disk.data))
          /\ output' = [output EXCEPT ![h] = out]
    BY <1>14 DEF ExtractBreaks
  <2>2. /\ goal[h] # <<>> /\ Place(Wanted(h)) \notin DOMAIN output[h]
        /\ step' = [step EXCEPT ![h] = "failed"]
        /\ UNCHANGED <<setting, bind, source, goal, result, saves>>
    BY <1>14 DEF ExtractBreaks, CreatesFile, InHand, HandAt
  <2>3. Place(Wanted(h)) \in Path
    BY <2>2, WantedIsPath, PlaceIsPath
  <2>4. DOMAIN out \subseteq Path
    <3>1. HasFile(out, output[h], Wanted(h), Found(h), FALSE, ReadTo(n, Found(h), disk.data))
      BY <2>1, <2>2, FileWritten
    <3> QED
      BY <1>0, <2>3, <3>1 DEF HasFile
  <2> QED
    BY <1>13, <2>1, <2>2, <2>4 DEF ShapeAt
<1> QED
  BY <1>1, <1>2, <1>3, <1>4, <1>5, <1>7, <1>8, <1>9, <1>10,
     <1>11, <1>12, <1>14 DEF Happens

LEMMA ShapeStays ==
  ASSUME Shape, VaultsGood, InHand, [Next]_vars
  PROVE  Shape'
<1> USE DEF Goto
<1>0. \A s \in {"idle", "compacting", "written", "removed", "renamed",
                "extracting", "reading", "failed"} : s \in Steps
  BY DEF Steps
<1>1. CASE UNCHANGED vars
  BY <1>1 DEF vars, file, reading, history, Shape
<1>2. CASE PowerLoss
  <2>1. step' \in [Handle -> Steps]
    BY <1>0, <1>2 DEF PowerLoss
  <2>2. goal' \in [Handle -> Seq(Path)]
    BY <1>2, EmptyForms DEF PowerLoss
  <2>3. \A h \in Handle : DOMAIN output'[h] \subseteq Path
    BY <1>2, EmptyForms DEF PowerLoss
  <2>4. /\ source' = [h \in Handle |-> source'[h]]
        /\ result' = [h \in Handle |-> result'[h]]
        /\ output' = [h \in Handle |-> output'[h]]
    BY <1>2 DEF PowerLoss
  <2> QED
    BY <1>2, <2>1, <2>2, <2>3, <2>4 DEF PowerLoss, Shape
<1>3. ASSUME NEW h \in Handle, Happens(h)
      PROVE  Shape'
  BY <1>3, HappensAt, ShapeKept
<1> QED
  BY <1>1, <1>2, <1>3, StepKinds

LEMMA OthersKept ==
  ASSUME Shape, NEW h \in Handle, ShapeAt(h), NEW g \in Handle, g # h
  PROVE  /\ step'[g] = step[g] /\ source'[g] = source[g] /\ result'[g] = result[g]
         /\ goal'[g] = goal[g] /\ output'[g] = output[g]
<1>1. step'[g] = step[g] /\ goal'[g] = goal[g]
  BY DEF ShapeAt, Shape
<1>2. source'[g] = source[g] /\ result'[g] = result[g] /\ output'[g] = output[g]
  BY Updated DEF ShapeAt, Shape
<1> QED
  BY <1>1, <1>2

\* Where a step leaves the handle that takes it.
LEMMA GoesTo ==
  ASSUME Shape, NEW h \in Handle, NEW s, Goto(h, s)
  PROVE  step'[h] = s
BY DEF Shape, Goto

LEMMA HandStays ==
  ASSUME Shape, VaultsGood, InHand, [Next]_vars
  PROVE  InHand'
<1>1. CASE UNCHANGED vars
  BY <1>1 DEF vars, reading, InHand, HandAt, Wanted
<1>2. CASE PowerLoss
  BY <1>2 DEF PowerLoss, InHand, HandAt
<1>3. ASSUME NEW h \in Handle, Happens(h)
      PROVE  InHand'
  <2>1. ASSUME NEW g \in Handle, g # h
        PROVE  HandAt(g)'
    <3>1. /\ step'[g] = step[g] /\ source'[g] = source[g]
          /\ goal'[g] = goal[g] /\ output'[g] = output[g]
      BY <1>3, <2>1, HappensAt, OthersKept
    <3> QED
      BY <3>1 DEF InHand, HandAt, Wanted
  <2>2. HandAt(h)'
    <3>1. CASE step'[h] \notin {"idle", "compacting", "reading"}
      BY <3>1 DEF HandAt
    <3>2. CASE \E w : Writes(h, w)
      BY <3>1, <3>2, GoesTo DEF Writes, Write
    <3>3. CASE CompactManifest(h)
      <4>1. step'[h] = "compacting" /\ source'[h] = disk /\ disk # Gone
        BY <3>3, GoesTo, Updated DEF CompactManifest, CanStart, Shape
      <4> QED
        BY <4>1 DEF HandAt
    <3>4. CASE Starts(h)
      BY <3>1, <3>4, GoesTo DEF Starts, StartExtract
    <3>5. CASE Open(h)
      BY <3>5 DEF Open, reading, InHand, HandAt, Wanted
    <3>6. CASE \/ CompactData(h) \/ RemoveOld(h) \/ Rename(h) \/ ExtractData(h)
               \/ ExtractBreaks(h) \/ ExtractFails(h)
      BY <3>1, <3>6, GoesTo
      DEF CompactData, RemoveOld, Rename, ExtractData, ExtractBreaks, ExtractFails
    <3>7. CASE SyncDirectory(h) \/ ExtractReturns(h) \/ Fail(h)
      <4>1. Return(h)
        BY <3>7 DEF SyncDirectory, ExtractReturns, Fail
      <4>2. step'[h] = "idle" /\ output'[h] = EmptyDirectory
        BY <4>1, GoesTo, Updated DEF Return, Shape
      <4> QED
        BY <4>2 DEF HandAt
    <3>8. CASE ExtractDirectory(h)
      BY <3>1, <3>8 DEF ExtractDirectory
    <3>9. CASE ExtractManifest(h)
      <4>1. /\ step'[h] = "reading" /\ source'[h] = disk /\ disk # Gone
            /\ goal' = goal /\ goal[h] # <<>>
            /\ Named(disk.entries, Wanted(h)) /\ ~IsDirectory(disk.entries, Wanted(h))
        BY <3>9, GoesTo, Updated DEF ExtractManifest, Shape
      <4> QED
        BY <4>1 DEF HandAt, Wanted
    <3> QED
      BY <1>3, <3>2, <3>3, <3>4, <3>5, <3>6, <3>7, <3>8, <3>9 DEF Happens
  <2> QED
    BY <2>1, <2>2 DEF InHand
<1> QED
  BY <1>1, <1>2, <1>3, StepKinds

LEMMA OthersIdle ==
  ASSUME OneAtATime, setting.alone, NEW h \in Handle, Happens(h), ~Open(h),
         NEW g \in Handle, g # h
  PROVE  step[g] = "idle"
<1>1. CASE step[h] # "idle"
  BY <1>1 DEF OneAtATime
<1>2. CASE step[h] = "idle"
  <2>1. CanStart(h)
    BY <1>2
    DEF Happens, Writes, Write, CompactManifest, Starts, StartExtract, CompactData,
        RemoveOld, Rename, SyncDirectory, ExtractDirectory, ExtractManifest,
        ExtractData, ExtractBreaks, CreatesFile, ExtractFails, ExtractReturns, Fail
  <2> QED
    BY <2>1 DEF CanStart
<1> QED
  BY <1>1, <1>2

LEMMA OneStays ==
  ASSUME Shape, VaultsGood, InHand, OneAtATime, [Next]_vars
  PROVE  OneAtATime'
<1>1. CASE UNCHANGED vars
  BY <1>1 DEF vars, file, reading, OneAtATime
<1>2. CASE PowerLoss
  BY <1>2 DEF PowerLoss, OneAtATime
<1>3. ASSUME NEW h \in Handle, Happens(h)
      PROVE  OneAtATime'
  <2>0. SUFFICES ASSUME setting.alone PROVE OneAtATime'
    <3>1. setting' = setting
      BY <1>3, HappensAt DEF ShapeAt
    <3> QED
      BY <3>1 DEF OneAtATime
  <2>1. \A g \in Handle : g # h => step'[g] = step[g] /\ source'[g] = source[g]
    BY <1>3, HappensAt, OthersKept
  <2>2. ASSUME NEW g \in Handle, g # h, ~Open(h)
        PROVE  step[g] = "idle"
    BY <1>3, <2>0, <2>2, OthersIdle
  <2>3. CASE Open(h)
    BY <2>3 DEF Open, file, reading, OneAtATime
  <2>4. CASE ~Open(h)
    <3>1. \A g \in Handle : g # h => step'[g] = "idle"
      BY <2>1, <2>2, <2>4
    <3>2. step'[h] \in {"compacting", "reading"} => source'[h] = disk'
      <4>1. CASE CompactManifest(h) \/ ExtractManifest(h)
        BY <4>1, Updated DEF CompactManifest, ExtractManifest, file, Shape
      <4>2. CASE \E w : Writes(h, w)
        BY <4>2, GoesTo DEF Writes, Write
      <4>3. CASE Starts(h)
        BY <4>3, GoesTo DEF Starts, StartExtract
      <4>4. CASE \/ CompactData(h) \/ RemoveOld(h) \/ Rename(h) \/ ExtractData(h)
                 \/ ExtractBreaks(h) \/ ExtractFails(h)
        BY <4>4, GoesTo
        DEF CompactData, RemoveOld, Rename, ExtractData, ExtractBreaks, ExtractFails
      <4>5. CASE SyncDirectory(h) \/ ExtractReturns(h) \/ Fail(h)
        BY <4>5, GoesTo DEF SyncDirectory, ExtractReturns, Fail, Return
      <4>6. CASE ExtractDirectory(h)
        BY <4>6 DEF ExtractDirectory
      <4> QED
        BY <1>3, <2>4, <4>1, <4>2, <4>3, <4>4, <4>5, <4>6 DEF Happens
    <3>3. \A g \in Handle : step'[g] \in {"compacting", "reading"} => g = h
      BY <3>1
    <3> QED
      BY <3>1, <3>2, <3>3 DEF OneAtATime
  <2> QED
    BY <2>3, <2>4
<1> QED
  BY <1>1, <1>2, <1>3, StepKinds

-----------------------------------------------------------------------------
(* What holds of every container, and of every call.                       *)

Safe == Shape /\ VaultsGood /\ InHand /\ OneAtATime

LEMMA SafeInit ==
  ASSUME Init
  PROVE  Safe
<1>1. Shape
  <2>1. "idle" \in Steps
    BY DEF Steps
  <2>2. setting \in [alone : BOOLEAN, windows : BOOLEAN]
    BY SettingAssumption DEF Init
  <2>3. bind \in [Handle -> BOOLEAN]
    <3>1. CASE disk.version \in Int
      BY <3>1 DEF Init, Version
    <3>2. disk.version \in {LegacyVersion, Version}
      BY StartAssumption, VaultFields DEF Init
    <3> QED
      BY <3>1, <3>2 DEF LegacyVersion, Version
  <2>4. /\ step \in [Handle -> Steps] /\ goal \in [Handle -> Seq(Path)]
        /\ \A h \in Handle : DOMAIN output[h] \subseteq Path
    BY <2>1, EmptyForms DEF Init
  <2>5. /\ source = [h \in Handle |-> source[h]]
        /\ result = [h \in Handle |-> result[h]]
        /\ output = [h \in Handle |-> output[h]]
    BY DEF Init
  <2>6. saves \in 0..MaxSaves
    BY SavesAssumption DEF Init
  <2> QED
    BY <2>2, <2>3, <2>4, <2>5, <2>6 DEF Shape
<1>2. VaultsGood
  <2>1. Vaults \subseteq {disk} /\ disk \in Start
    BY DEF Vaults, Init
  <2>2. /\ IsVault(disk) /\ Distinct(disk.entries) /\ AllParented(disk.entries)
        /\ \A e \in Range(disk.entries) : ReadsRight(e, disk.data)
        /\ \A b \in BoundIn(disk) : b.id[1] = 0
        /\ \A b, c \in BoundIn(disk) : b.id = c.id => b.holds = c.holds
    BY <2>1, StartAssumption
  <2>3. GoodVault(disk)
    BY <2>2 DEF GoodVault, Unique, IsVault, ReadsIn
  <2>4. \A b \in BoundIn(disk) : b.id[1] \in 0..saves
    BY <2>2 DEF Init
  <2>5. Agree(BoundIn(disk), BoundIn(disk))
    BY <2>2 DEF Agree
  <2> QED
    BY <2>1, <2>3, <2>4, <2>5 DEF VaultsGood
<1>3. InHand /\ OneAtATime
  BY DEF Init, InHand, HandAt, OneAtATime
<1> QED
  BY <1>1, <1>2, <1>3 DEF Safe

\* The invariant holds in every reachable state.
THEOREM AlwaysSafe == Spec => []Safe
<1>1. Init => Safe
  BY SafeInit
<1>2. Safe /\ [Next]_vars => Safe'
  BY ShapeStays, VaultsStayGood, HandStays, OneStays DEF Safe
<1> QED
  BY <1>1, <1>2, PTL DEF Spec

\* Every container, on the disk or in the memory of a call, is one that the format
\* admits, and so are the names an extraction writes under.
THEOREM TypeCorrect == Spec => []TypeOK
<1>1. ASSUME Safe
      PROVE  TypeOK
  <2>1. \A v \in Vaults : IsVault(v)
    BY <1>1 DEF Safe, VaultsGood, GoodVault, Unique
  <2>2. (disk = Gone \/ IsVault(disk)) /\ (stable = Gone \/ IsVault(stable))
    BY <2>1, InVaults
  <2>3. \A h \in Handle : \A v \in {source[h], result[h]} : v = Gone \/ IsVault(v)
    BY <2>1, InVaults
  <2>4. ASSUME NEW h \in Handle
        PROVE  Range(goal[h]) \subseteq Path
    <3>1. goal[h] \in Seq(Path)
      BY <1>1 DEF Safe, Shape
    <3> QED
      BY <3>1 DEF Range
  <2> QED
    BY <1>1, <2>2, <2>3, <2>4 DEF TypeOK, Safe, Shape
<1> QED
  BY <1>1, AlwaysSafe, PTL

\* What is added can be read back, whatever calls interleave.
THEOREM EntriesAlwaysRead == Spec => []EntriesRead
<1>1. ASSUME Safe
      PROVE  EntriesRead
  <2>1. SUFFICES ASSUME disk # Gone, NEW e \in Range(disk.entries),
                        e.id # Unbound \/ setting.alone
                 PROVE  ReadsRight(e, disk.data)
    BY DEF EntriesRead
  <2>2. ReadsIn(disk, setting.alone)
    BY <1>1, <2>1, DiskGood DEF Safe, GoodVault
  <2> QED
    BY <2>1, <2>2 DEF ReadsIn
<1> QED
  BY <1>1, AlwaysSafe, PTL

\* Names stay unique, and no entry loses its directory but by the two calls known
\* to leave one behind.
THEOREM ManifestAlwaysSound == Spec => []ManifestSound
<1>1. ASSUME Safe
      PROVE  ManifestSound
  BY <1>1, DiskGood DEF Safe, ManifestSound, GoodVault, Unique
<1> QED
  BY <1>1, AlwaysSafe, PTL

\* A loss of power takes nothing back once the last call has returned Ok.
THEOREM ReturnedAlwaysStable == Spec => []ReturnedIsStable
<1>1. Init => ReturnedIsStable
  BY DEF Init, ReturnedIsStable
<1>2. ASSUME ReturnedIsStable, [Next]_vars
      PROVE  ReturnedIsStable'
  <2> USE DEF ReturnedIsStable, file, reading, history, Return
  <2>1. CASE UNCHANGED vars
    BY <1>2, <2>1 DEF vars
  <2>2. CASE PowerLoss
    BY <1>2, <2>2 DEF PowerLoss
  <2>3. ASSUME NEW h \in Handle, NEW w, Write(h, w)
        PROVE  ReturnedIsStable'
    BY <1>2, <2>3 DEF Write
  <2>4. ASSUME NEW h \in Handle, Call(h)
        PROVE  ReturnedIsStable'
    <3>1. CASE \E w : Write(h, w)
      BY <2>3, <3>1
    <3>2. CASE CompactManifest(h) \/ Open(h)
      BY <1>2, <3>2 DEF CompactManifest, Open
    <3>3. CASE ExtractAll(h) \/ \E p \in Asked : Extract(h, p)
      BY <1>2, <3>3 DEF ExtractAll, Extract, StartExtract
    <3> QED
      BY <2>4, <3>1, <3>2, <3>3
      DEF Call, Add, MakeDirectory, Delete, Move, Copy, ChangePassword
  <2>5. ASSUME NEW h \in Handle, Step(h)
        PROVE  ReturnedIsStable'
    <3>1. CASE RemoveOld(h)
      BY <1>2, <3>1 DEF RemoveOld
    <3>2. CASE Rename(h) \/ SyncDirectory(h)
      BY <1>2, <3>2 DEF Rename, SyncDirectory
    <3>3. CASE \/ CompactData(h) \/ ExtractDirectory(h) \/ ExtractManifest(h)
               \/ ExtractData(h) \/ ExtractBreaks(h) \/ ExtractFails(h)
               \/ ExtractReturns(h) \/ Fail(h)
      BY <1>2, <3>3
      DEF CompactData, ExtractDirectory, ExtractManifest, ExtractData, ExtractBreaks,
          ExtractFails, ExtractReturns, Fail
    <3> QED
      BY <2>5, <3>1, <3>2, <3>3 DEF Step
  <2> QED
    BY <1>2, <2>1, <2>2, <2>4, <2>5 DEF Next
<1> QED
  BY <1>1, <1>2, PTL DEF Spec

-----------------------------------------------------------------------------
(* What extraction writes.                                                 *)

LEMMA FoundIsEntry ==
  ASSUME InHand, NEW h \in Handle, step[h] = "reading"
  PROVE  Found(h) \in Range(source[h].entries) /\ Found(h).name = Wanted(h)
<1>1. Named(source[h].entries, Wanted(h))
  BY DEF InHand, HandAt
<1>2. \E e \in Range(source[h].entries) : e.name = Wanted(h)
  BY <1>1 DEF Named, Range
<1> QED
  BY <1>2 DEF Found

\* f is what it is to be, as far as it goes.
RightFile(f) ==
  f.bound \/ setting.alone =>
    IF f.whole THEN f.got = f.held
    ELSE \A k \in DOMAIN f.got : k \in DOMAIN f.held /\ f.got[k] = f.held[k]

RightIn(out) == \A p \in DOMAIN out : RightFile(out[p])

\* The file that is made, if what is read of it is what was added.
LEMMA RightFileMade ==
  ASSUME NEW e, NEW whole \in BOOLEAN, NEW n, NEW data,
         whole => n = e.count, \A k \in 1..n : k \in 1..e.count,
         e.id # Unbound \/ setting.alone =>
           \A k \in 1..n : data[e.offset + k].holds = e.holds
  PROVE  RightFile([dir |-> FALSE, whole |-> whole, bound |-> e.id # Unbound,
                    held |-> Right(e), got |-> ReadTo(n, e, data)])
<1>1. /\ DOMAIN ReadTo(n, e, data) = 1..n /\ DOMAIN Right(e) = 1..e.count
      /\ \A k \in 1..n : ReadTo(n, e, data)[k] = data[e.offset + k].holds
      /\ \A k \in 1..e.count : Right(e)[k] = e.holds
  BY DEF ReadTo, Right
<1>2. CASE ~(e.id # Unbound \/ setting.alone)
  BY <1>2 DEF RightFile
<1>3. CASE e.id # Unbound \/ setting.alone
  <2>1. \A k \in 1..n : data[e.offset + k].holds = e.holds
    BY <1>3
  <2>2. whole => ReadTo(n, e, data) = Right(e)
    BY <2>1 DEF ReadTo, Right
  <2>3. \A k \in DOMAIN ReadTo(n, e, data) :
          k \in DOMAIN Right(e) /\ ReadTo(n, e, data)[k] = Right(e)[k]
    BY <1>1, <2>1
  <2>4. PICK held, got : held = Right(e) /\ got = ReadTo(n, e, data)
    OBVIOUS
  <2> QED
    BY <2>2, <2>3, <2>4 DEF RightFile
<1> QED
  BY <1>2, <1>3

\* What is read of the entry that is wanted, to its end or to where it breaks off.
Part(h, whole, n) ==
  /\ output'[h] = WithFile(output[h], Wanted(h), Found(h), whole,
                           ReadTo(n, Found(h), disk.data))
  /\ whole => n = Found(h).count
  /\ n <= Found(h).count
  /\ Leads(n, Found(h), disk.data)

LEMMA ReadPart ==
  ASSUME Shape, InHand, VaultsGood, NEW h \in Handle, ExtractData(h) \/ ExtractBreaks(h)
  PROVE  \E whole \in BOOLEAN, n \in Int : Part(h, whole, n)
<1>1. Found(h).count \in Nat
  <2>1. step[h] = "reading"
    BY DEF ExtractData, ExtractBreaks, CreatesFile
  <2>2. PICK v : v = source[h]
    OBVIOUS
  <2>3. Found(h) \in Range(v.entries) /\ v \in Vaults
    BY <2>1, <2>2, FoundIsEntry, InVaults DEF InHand, HandAt
  <2>4. Found(h) \in Entry
    BY <2>3, VaultFields DEF Range, VaultsGood, GoodVault, Unique
  <2> QED
    BY <2>4 DEF Entry
<1>2. CASE ExtractData(h)
  <2>1. output'[h] = WithFile(output[h], Wanted(h), Found(h), TRUE,
                              ReadTo(Found(h).count, Found(h), disk.data))
    BY <1>2, Updated DEF ExtractData, Shape, Read
  <2>2. Leads(Found(h).count, Found(h), disk.data)
    BY <1>2 DEF ExtractData, Readable
  <2>3. PICK n \in Int : n = Found(h).count
    BY <1>1
  <2>4. Part(h, TRUE, n)
    BY <2>1, <2>2, <2>3 DEF Part
  <2> QED
    BY <2>4
<1>3. CASE ExtractBreaks(h)
  <2>1. PICK n \in 0..Found(h).count - 1 :
          /\ Leads(n, Found(h), disk.data)
          /\ output' = [output EXCEPT ![h] =
                          WithFile(output[h], Wanted(h), Found(h), FALSE,
                                   ReadTo(n, Found(h), disk.data))]
    BY <1>3 DEF ExtractBreaks
  <2>2. output'[h] = WithFile(output[h], Wanted(h), Found(h), FALSE,
                              ReadTo(n, Found(h), disk.data))
    BY <2>1, Updated DEF Shape
  <2>3. n \in Int /\ n <= Found(h).count
    BY <1>1
  <2>4. Part(h, FALSE, n)
    BY <2>1, <2>2, <2>3 DEF Part
  <2> QED
    BY <2>3, <2>4
<1> QED
  BY <1>2, <1>3

\* What an extraction writes is what was added under the name it read, in spite of
\* the two openings of the path.  A file in which it breaks off is the beginning of that.
THEOREM ExtractsAlwaysRight == Spec => []ExtractsRight
<1>0. ExtractsRight <=> \A h \in Handle : RightIn(output[h])
  BY DEF ExtractsRight, RightIn, RightFile
<1>1. Init => ExtractsRight
  BY DEF Init, ExtractsRight, EmptyDirectory
<1>2. ASSUME Safe, ExtractsRight, [Next]_vars
      PROVE  ExtractsRight'
  <2>1. CASE UNCHANGED vars
    BY <1>2, <2>1 DEF vars, reading, ExtractsRight
  <2>2. CASE PowerLoss
    BY <2>2 DEF PowerLoss, ExtractsRight, EmptyDirectory
  <2>3. ASSUME NEW h \in Handle, Happens(h)
        PROVE  ExtractsRight'
    <3>1. setting' = setting /\ \A g \in Handle : g # h => output'[g] = output[g]
      BY <1>2, <2>3, HappensAt, OthersKept DEF Safe, ShapeAt
    <3>2. RightIn(output[h])
      BY <1>0, <1>2
    <3>3. RightIn(output[h])' => ExtractsRight'
      <4>1. \A g \in Handle : g # h => RightIn(output[g])'
        BY <1>0, <1>2, <3>1 DEF RightIn, RightFile
      <4> QED
        BY <4>1 DEF ExtractsRight, RightIn, RightFile
    <3>4. CASE output'[h] = output[h] \/ output'[h] = EmptyDirectory
      BY <3>1, <3>2, <3>3, <3>4 DEF RightIn, RightFile, EmptyDirectory
    <3>5. CASE ExtractDirectory(h)
      <4>1. output'[h] = WithFolder(output[h], Wanted(h))
        BY <1>2, <3>5, Updated DEF ExtractDirectory, Safe, Shape
      <4>2. HasFolder(output'[h], output[h], Wanted(h))
        BY <4>1, FolderMade
      <4>3. Folder.got = Folder.held /\ Folder.whole
        BY DEF Folder
      <4> QED
        BY <3>1, <3>2, <3>3, <4>2, <4>3 DEF RightIn, RightFile, HasFolder
    <3>6. CASE ExtractData(h) \/ ExtractBreaks(h)
      <4>0. PICK whole \in BOOLEAN, n \in Int : Part(h, whole, n)
        BY <1>2, <3>6, ReadPart DEF Safe
      <4>1. /\ output'[h] = WithFile(output[h], Wanted(h), Found(h), whole,
                                     ReadTo(n, Found(h), disk.data))
            /\ whole => n = Found(h).count
            /\ n <= Found(h).count
            /\ Leads(n, Found(h), disk.data)
        BY <4>0 DEF Part
      <4>2. /\ Place(Wanted(h)) \notin DOMAIN output[h]
            /\ step[h] = "reading" /\ disk # Gone
        BY <3>6 DEF ExtractData, ExtractBreaks, CreatesFile
      <4>3. HasFile(output'[h], output[h], Wanted(h), Found(h), whole,
                    ReadTo(n, Found(h), disk.data))
        BY <4>1, <4>2, FileWritten
      <4>4. PICK v, e : v = source[h] /\ e = Found(h)
        OBVIOUS
      <4>5. v \in Vaults /\ disk \in Vaults /\ e \in Range(v.entries)
        BY <1>2, <4>2, <4>4, FoundIsEntry, InVaults DEF Safe, InHand, HandAt
      <4>6. /\ IsVault(v) /\ IsVault(disk) /\ ReadsIn(v, setting.alone)
            /\ Agree(BoundIn(v), BoundIn(disk))
        BY <1>2, <4>5 DEF Safe, VaultsGood, GoodVault, Unique
      <4>7. e.count \in Nat /\ \A k \in 1..n : k \in 1..e.count
        <5>1. e \in Entry
          BY <4>5, <4>6, VaultFields DEF Range
        <5>2. e.count \in Nat
          BY <5>1 DEF Entry
        <5> QED
          BY <4>1, <4>4, <5>2
      <4>8. ASSUME e.id # Unbound \/ setting.alone, NEW k \in 1..n
            PROVE  disk.data[e.offset + k].holds = e.holds
        <5>1. CASE e.id # Unbound
          BY <4>1, <4>4, <4>5, <4>6, <4>8, <5>1, BoundHolds
        <5>2. CASE setting.alone
          <6>1. v = disk
            BY <1>2, <4>2, <4>4, <5>2 DEF Safe, OneAtATime
          <6>2. Read(e, disk.data) = Right(e)
            BY <4>5, <4>6, <5>2, <6>1 DEF ReadsIn, ReadsRight
          <6>3. /\ Read(e, disk.data)[k] = disk.data[e.offset + k].holds
                /\ Right(e)[k] = e.holds
            BY <4>7 DEF Read, ReadTo, Right
          <6> QED
            BY <6>2, <6>3
        <5> QED
          BY <4>8, <5>1, <5>2
      <4>9. RightFile(output'[h][Place(Wanted(h))])
        <5>1. RightFile([dir |-> FALSE, whole |-> whole, bound |-> e.id # Unbound,
                         held |-> Right(e), got |-> ReadTo(n, e, disk.data)])
          BY <4>1, <4>4, <4>7, <4>8, RightFileMade
        <5> QED
          BY <4>3, <4>4, <5>1 DEF HasFile
      <4> QED
        BY <3>1, <3>2, <3>3, <4>3, <4>9 DEF RightIn, RightFile, HasFile
    <3>7. CASE ~ExtractDirectory(h) /\ ~ExtractData(h) /\ ~ExtractBreaks(h)
      <4>1. CASE SyncDirectory(h) \/ ExtractReturns(h) \/ Fail(h)
        BY <1>2, <3>4, <4>1, Updated
        DEF SyncDirectory, ExtractReturns, Fail, Return, Safe, Shape
      <4>2. CASE ~(SyncDirectory(h) \/ ExtractReturns(h) \/ Fail(h))
        <5>1. output' = output
          BY <2>3, <3>7, <4>2
          DEF Happens, Writes, Write, CompactManifest, Starts, StartExtract, Open,
              CompactData, RemoveOld, Rename, ExtractManifest, ExtractFails, reading
        <5> QED
          BY <3>4, <5>1
      <4> QED
        BY <4>1, <4>2
    <3> QED
      BY <3>5, <3>6, <3>7
  <2> QED
    BY <1>2, <2>1, <2>2, <2>3, StepKinds DEF Safe
<1> QED
  BY <1>1, <1>2, AlwaysSafe, PTL DEF Spec

\* While calls are taken one at a time: what an extraction still has to write is
\* there, and what it has written comes from other entries.
FromFolder(p, entries) ==
  \E i \in DOMAIN entries :
    entries[i].dir /\ \E n \in 1..Len(entries[i].name) : p = SubSeq(entries[i].name, 1, n)

FromFile(p, entries, names) ==
  \E i \in DOMAIN entries :
    /\ ~entries[i].dir
    /\ p = Place(entries[i].name)
    /\ \A k \in 1..Len(names) : names[k] # entries[i].name

InOrder(entries, names, out) ==
  /\ \A i \in 1..Len(names) : Named(entries, names[i])
  /\ \A i, j \in 1..Len(names) : names[i] = names[j] => i = j
  /\ \A p \in DOMAIN out : IF out[p].dir THEN FromFolder(p, entries)
                           ELSE FromFile(p, entries, names)

OrderlyAt(h) ==
  /\ step[h] \in {"extracting", "reading"} =>
       disk # Gone /\ InOrder(disk.entries, goal[h], output[h])
  /\ step[h] = "failed" => Clash(disk.entries)

Orderly == setting.alone => \A h \in Handle : OrderlyAt(h)

\* The names that are left when the first, q, is done.
Advances(entries, names, left, q) ==
  /\ \A i \in 1..Len(left) : Named(entries, left[i]) /\ left[i] # q
  /\ \A i, j \in 1..Len(left) : left[i] = left[j] => i = j
  /\ \A p : FromFile(p, entries, names) => FromFile(p, entries, left)

LEMMA InOrderTail ==
  ASSUME Shape, NEW h \in Handle, goal[h] # <<>>,
         NEW entries, NEW out, InOrder(entries, goal[h], out)
  PROVE  Advances(entries, goal[h], Tail(goal[h]), Wanted(h))
<1>1. PICK s, t : s = goal[h] /\ t = Tail(goal[h])
  OBVIOUS
<1>2. PICK n \in Nat : n = Len(t)
  BY <1>1, WantedIsPath
<1>3. /\ Wanted(h) = s[1] /\ 1 \in 1..Len(s) /\ Len(s) = n + 1
      /\ \A i \in 1..n : t[i] = s[i + 1]
  <2>1. s \in Seq(Path)
    BY <1>1 DEF Shape
  <2> QED
    BY <1>1, <1>2, <2>1, WantedIsPath
<1>4. \A i \in 1..n : i + 1 \in 1..Len(s) /\ i + 1 # 1
  BY <1>3
<1>5. /\ \A i \in 1..Len(s) : Named(entries, s[i])
      /\ \A i, j \in 1..Len(s) : s[i] = s[j] => i = j
  BY <1>1 DEF InOrder
<1>6. \A i \in 1..n : Named(entries, t[i]) /\ t[i] # s[1]
  BY <1>3, <1>4, <1>5
<1>7. ASSUME NEW i \in 1..n, NEW j \in 1..n, t[i] = t[j]
      PROVE  i = j
  <2>1. i + 1 = j + 1
    BY <1>3, <1>4, <1>5, <1>7
  <2> QED
    BY <2>1
<1>8. ASSUME NEW p, FromFile(p, entries, s)
      PROVE  FromFile(p, entries, t)
  BY <1>2, <1>3, <1>4, <1>8 DEF FromFile
<1> QED
  BY <1>1, <1>2, <1>3, <1>6, <1>7, <1>8 DEF Advances

\* Why an extraction that nothing disturbs fails.
LEMMA FailureIsClash ==
  ASSUME Safe, Orderly, setting.alone, NEW h \in Handle, ExtractFails(h)
  PROVE  Clash(disk.entries)
<1>1. step[h] \in {"extracting", "reading"} /\ goal[h] # <<>>
  BY DEF ExtractFails, Safe, InHand, HandAt
<1>2. disk # Gone /\ InOrder(disk.entries, goal[h], output[h])
  BY <1>1 DEF Orderly, OrderlyAt
<1>8. PICK entries : entries = disk.entries
  OBVIOUS
<1>9. PICK p \in Path : p = Wanted(h)
  BY <1>1, WantedIsPath DEF Safe
<1>3. entries = disk.entries /\ p = Wanted(h)
  BY <1>8, <1>9
<1>4. Named(entries, p)
  BY <1>1, <1>2, <1>3, WantedIsPath DEF InOrder, Safe
<1>5. /\ Distinct(entries) /\ IsVault(disk) /\ ReadsIn(disk, setting.alone)
      /\ \A i \in DOMAIN entries : entries[i].name \in Path
  <2>1. IsVault(disk) /\ Distinct(entries) /\ ReadsIn(disk, setting.alone)
    BY <1>2, <1>3, DiskGood DEF GoodVault, Unique, Safe
  <2>2. \A i \in DOMAIN entries : entries[i] \in Entry
    BY <1>3, <2>1, VaultFields
  <2> QED
    BY <2>1, <2>2 DEF Entry
<1>6. CASE /\ step[h] = "extracting"
           /\ IsDirectory(entries, p) /\ ~CanHoldFolder(output[h], p)
  <2>1. PICK j \in DOMAIN entries : entries[j].dir /\ entries[j].name = p
    BY <1>6 DEF IsDirectory
  <2>2. PICK n \in 1..Len(p) : SubSeq(p, 1, n) \in DOMAIN output[h] /\ ~output[h][SubSeq(p, 1, n)].dir
    BY <1>6 DEF CanHoldFolder, IsFileIn
  <2>3. PICK i \in DOMAIN entries :
          ~entries[i].dir /\ SubSeq(p, 1, n) = Place(entries[i].name)
    BY <1>2, <1>3, <2>2 DEF InOrder, FromFile
  <2>4. /\ Len(SubSeq(p, 1, n)) = n /\ \A k \in 1..n : SubSeq(p, 1, n)[k] = p[k]
        /\ Len(Place(entries[i].name)) = 1
        /\ Place(entries[i].name)[1] = Last(entries[i].name)
    BY <1>5, PrefixIsPath, PlaceIsPath
  <2>5. Last(entries[i].name) = p[1]
    BY <2>3, <2>4
  <2>6. Head(p) = p[1]
    BY PathIsSeq
  <2> QED
    BY <1>3, <2>1, <2>3, <2>5, <2>6 DEF Clash
<1>7. CASE step[h] = "reading"
  <2>1. source[h] = disk /\ ~IsDirectory(entries, p)
    BY <1>3, <1>7 DEF Safe, InHand, HandAt, OneAtATime
  <2>2. PICK i \in DOMAIN entries : entries[i].name = p /\ ~entries[i].dir
    BY <1>4, <2>1 DEF Named, IsDirectory
  <2>3. ~(Found(h).offset > Len(disk.data))
    <3>1. Found(h) \in Range(disk.entries)
      BY <1>7, <2>1, FoundIsEntry DEF Safe
    <3>2. Found(h).offset <= Len(disk.data)
      BY <1>5, <3>1 DEF ReadsIn, ReadsRight
    <3>3. Found(h).offset \in Nat /\ Len(disk.data) \in Nat
      BY <1>5, <3>1, VaultFields DEF Range, Entry
    <3> QED
      BY <3>2, <3>3
  <2>4. Place(p) \in DOMAIN output[h]
    BY <1>2, <1>3, <1>7, <2>3 DEF ExtractFails
  <2>5. CASE output[h][Place(p)].dir
    <3>1. PICK j \in DOMAIN entries : /\ entries[j].dir
                                     /\ \E n \in 1..Len(entries[j].name) :
                                          Place(p) = SubSeq(entries[j].name, 1, n)
      BY <1>2, <1>3, <2>4, <2>5 DEF InOrder, FromFolder
    <3>2. PICK q \in Path : q = entries[j].name
      BY <1>5
    <3>3. PICK n \in 1..Len(q) : Place(p) = SubSeq(q, 1, n)
      BY <3>1, <3>2
    <3>4. n = 1 /\ Last(p) = q[1]
      <4>1. Len(Place(p)) = 1 /\ Place(p)[1] = Last(p)
        BY PlaceIsPath
      <4>2. Len(SubSeq(q, 1, n)) = n /\ \A k \in 1..n : SubSeq(q, 1, n)[k] = q[k]
        BY PrefixIsPath
      <4>3. n = 1
        BY <3>3, <4>1, <4>2
      <4> QED
        BY <3>3, <4>1, <4>2, <4>3
    <3>5. Head(q) = q[1]
      BY PathIsSeq
    <3> QED
      BY <1>3, <2>2, <3>1, <3>2, <3>4, <3>5 DEF Clash
  <2>6. CASE ~output[h][Place(p)].dir
    <3>1. PICK j \in DOMAIN entries :
            /\ ~entries[j].dir /\ Place(p) = Place(entries[j].name)
            /\ \A k \in 1..Len(goal[h]) : goal[h][k] # entries[j].name
      BY <1>2, <1>3, <2>4, <2>6 DEF InOrder, FromFile
    <3>2. Last(p) = Last(entries[j].name)
      BY <1>5, <3>1, PlaceIsPath
    <3>3. entries[j].name # p
      BY <1>1, <1>3, <3>1, WantedIsPath DEF Safe
    <3> QED
      BY <1>3, <2>2, <3>1, <3>2, <3>3 DEF Clash
  <2> QED
    BY <2>5, <2>6
<1> QED
  BY <1>1, <1>2, <1>3, <1>4, <1>6, <1>7 DEF ExtractFails

\* One that nothing disturbs does not break off in a file.
LEMMA NeverBreaks ==
  ASSUME Safe, setting.alone, NEW h \in Handle
  PROVE  ~ExtractBreaks(h)
<1>1. SUFFICES ASSUME ExtractBreaks(h) PROVE FALSE
  OBVIOUS
<1>2. step[h] = "reading" /\ disk # Gone /\ source[h] = disk
  BY <1>1 DEF ExtractBreaks, CreatesFile, Safe, InHand, HandAt, OneAtATime
<1>3. Found(h) \in Range(disk.entries) /\ IsVault(disk) /\ ReadsIn(disk, setting.alone)
  BY <1>2, FoundIsEntry, DiskGood DEF Safe, GoodVault, Unique
<1>4. Leads(Found(h).count, Found(h), disk.data)
  BY <1>3 DEF ReadsIn, ReadsRight, Readable
<1>5. Found(h).count \in Nat
  BY <1>3, VaultFields DEF Range, Entry
<1>6. PICK n \in 0..Found(h).count - 1 : ~Leads(n + 1, Found(h), disk.data)
  BY <1>1 DEF ExtractBreaks
<1>7. \A k \in 1..n + 1 : k \in 1..Found(h).count
  BY <1>5
<1> QED
  BY <1>4, <1>6, <1>7 DEF Leads

LEMMA OrderlyStays ==
  ASSUME Safe, Orderly, [Next]_vars
  PROVE  Orderly'
<1>1. CASE UNCHANGED vars
  BY <1>1 DEF vars, file, reading, Orderly, OrderlyAt
<1>2. CASE PowerLoss
  BY <1>2 DEF PowerLoss, Orderly, OrderlyAt
<1>3. ASSUME NEW h \in Handle, Happens(h)
      PROVE  Orderly'
  <2>0. /\ setting' = setting /\ ShapeAt(h)
        /\ \A g \in Handle : g # h => step'[g] = step[g]
    BY <1>3, HappensAt, OthersKept DEF Safe, ShapeAt
  <2>1. SUFFICES ASSUME setting.alone PROVE \A g \in Handle : OrderlyAt(g)'
    BY <2>0 DEF Orderly
  <2>2. CASE Open(h)
    BY <2>1, <2>2 DEF Open, file, reading, Orderly, OrderlyAt
  <2>3. CASE ~Open(h)
    <3>1. ASSUME NEW g \in Handle, g # h
          PROVE  OrderlyAt(g)'
      <4>1. step'[g] = "idle"
        BY <1>3, <2>0, <2>1, <2>3, <3>1, OthersIdle DEF Safe
      <4> QED
        BY <4>1 DEF OrderlyAt
    <3>2. OrderlyAt(h)'
      <4>2. ASSUME step'[h] \notin {"extracting", "reading", "failed"}
            PROVE  OrderlyAt(h)'
        BY <4>2 DEF OrderlyAt
      <4>3. CASE (\E w : Writes(h, w)) \/ CompactManifest(h) \/ CompactData(h) \/ RemoveOld(h)
                 \/ Rename(h) \/ SyncDirectory(h) \/ ExtractReturns(h) \/ Fail(h)
        BY <4>2, <4>3, GoesTo
        DEF Writes, Write, CompactManifest, CompactData, RemoveOld, Rename, SyncDirectory,
            ExtractReturns, Fail, Return, Safe
      <4>4. CASE Starts(h)
        <5>1. PICK names \in Seq(Path) :
                /\ StartExtract(h, names) /\ disk # Gone
                /\ \A i \in 1..Len(names) : Named(disk.entries, names[i])
                /\ \A i, j \in 1..Len(names) : names[i] = names[j] => i = j
          BY <4>4 DEF Starts
        <5>2. /\ step'[h] = "extracting" /\ goal'[h] = names /\ disk' = disk
              /\ output'[h] = EmptyDirectory
          BY <5>1, GoesTo DEF StartExtract, CanStart, Safe, Shape, InHand, HandAt, file
        <5>3. InOrder(disk.entries, names, EmptyDirectory)
          BY <5>1 DEF InOrder, EmptyDirectory
        <5> QED
          BY <5>1, <5>2, <5>3 DEF OrderlyAt
      <4>5. CASE ExtractManifest(h)
        <5>1. /\ step'[h] = "reading" /\ step[h] = "extracting" /\ disk' = disk
              /\ goal' = goal /\ output' = output
          BY <4>5, GoesTo DEF ExtractManifest, Safe, file
        <5> QED
          BY <2>1, <5>1 DEF Orderly, OrderlyAt
      <4>6. CASE ExtractFails(h)
        <5>1. step'[h] = "failed" /\ disk' = disk
          BY <4>6, GoesTo DEF ExtractFails, Safe, file
        <5>2. Clash(disk.entries)
          BY <2>1, <4>6, FailureIsClash
        <5> QED
          BY <5>1, <5>2 DEF OrderlyAt
      <4>7. CASE ExtractDirectory(h)
        <5>1. /\ step'[h] = "extracting" /\ step[h] = "extracting"
              /\ disk' = disk /\ disk # Gone /\ goal[h] # <<>>
              /\ goal'[h] = Tail(goal[h])
              /\ output'[h] = WithFolder(output[h], Wanted(h))
              /\ IsDirectory(disk.entries, Wanted(h))
          BY <4>7, Updated DEF ExtractDirectory, Safe, Shape, file
        <5>2. InOrder(disk.entries, goal[h], output[h])
          BY <2>1, <5>1 DEF Orderly, OrderlyAt
        <5>3. HasFolder(output'[h], output[h], Wanted(h))
          BY <5>1, FolderMade
        <5>4. Advances(disk.entries, goal[h], goal'[h], Wanted(h))
          BY <5>1, <5>2, InOrderTail DEF Safe
        <5>5. ASSUME NEW p \in DOMAIN output'[h]
              PROVE  IF output'[h][p].dir THEN FromFolder(p, disk.entries)
                     ELSE FromFile(p, disk.entries, goal'[h])
          <6>1. CASE p \in DOMAIN output[h]
            BY <5>2, <5>3, <5>4, <6>1 DEF HasFolder, InOrder, Advances
          <6>2. CASE p \notin DOMAIN output[h]
            <7>1. output'[h][p].dir /\ \E n \in 1..Len(Wanted(h)) : p = SubSeq(Wanted(h), 1, n)
              BY <5>3, <6>2 DEF HasFolder, Folder
            <7>2. FromFolder(p, disk.entries)
              BY <5>1, <7>1 DEF FromFolder, IsDirectory
            <7> QED
              BY <7>1, <7>2
          <6> QED
            BY <6>1, <6>2
        <5>6. InOrder(disk.entries, goal'[h], output'[h])
          BY <5>4, <5>5 DEF InOrder, Advances
        <5> QED
          BY <5>1, <5>6 DEF OrderlyAt
      <4>8. CASE ExtractData(h)
        <5>1. /\ step'[h] = "extracting" /\ step[h] = "reading"
              /\ disk' = disk /\ disk # Gone /\ goal[h] # <<>>
              /\ goal'[h] = Tail(goal[h])
              /\ Place(Wanted(h)) \notin DOMAIN output[h]
              /\ output'[h] = WithFile(output[h], Wanted(h), Found(h), TRUE,
                                       Read(Found(h), disk.data))
          BY <4>8, Updated, GoesTo
          DEF ExtractData, CreatesFile, Safe, Shape, file, InHand, HandAt
        <5>2. InOrder(disk.entries, goal[h], output[h])
          BY <2>1, <5>1 DEF Orderly, OrderlyAt
        <5>3. HasFile(output'[h], output[h], Wanted(h), Found(h), TRUE,
                      Read(Found(h), disk.data))
          BY <5>1, FileWritten
        <5>4. Advances(disk.entries, goal[h], goal'[h], Wanted(h))
          BY <5>1, <5>2, InOrderTail DEF Safe
        <5>5. FromFile(Place(Wanted(h)), disk.entries, goal'[h])
          <6>1. Named(disk.entries, Wanted(h)) /\ ~IsDirectory(disk.entries, Wanted(h))
            BY <2>1, <5>1 DEF Safe, InHand, HandAt, OneAtATime
          <6>2. PICK i \in DOMAIN disk.entries :
                  disk.entries[i].name = Wanted(h) /\ ~disk.entries[i].dir
            BY <6>1 DEF Named, IsDirectory
          <6> QED
            BY <5>4, <6>2 DEF FromFile, Advances
        <5>6. ASSUME NEW p \in DOMAIN output'[h]
              PROVE  IF output'[h][p].dir THEN FromFolder(p, disk.entries)
                     ELSE FromFile(p, disk.entries, goal'[h])
          <6>1. CASE p \in DOMAIN output[h]
            BY <5>2, <5>3, <5>4, <6>1 DEF HasFile, InOrder, Advances
          <6>2. CASE p \notin DOMAIN output[h]
            <7>1. p = Place(Wanted(h)) /\ ~output'[h][p].dir
              BY <5>3, <6>2 DEF HasFile
            <7> QED
              BY <5>5, <7>1
          <6> QED
            BY <6>1, <6>2
        <5>7. InOrder(disk.entries, goal'[h], output'[h])
          BY <5>4, <5>6 DEF InOrder, Advances
        <5> QED
          BY <5>1, <5>7 DEF OrderlyAt
      <4>9. ~ExtractBreaks(h)
        BY <2>1, NeverBreaks
      <4> QED
        BY <1>3, <2>3, <4>3, <4>4, <4>5, <4>6, <4>7, <4>8, <4>9 DEF Happens
    <3> QED
      BY <3>1, <3>2
  <2> QED
    BY <2>2, <2>3
<1> QED
  BY <1>1, <1>2, <1>3, StepKinds DEF Safe

\* An extraction that nothing disturbs fails only for two entries that want the
\* same place.
THEOREM ExtractsUnlessTheyClash == Spec => []ExtractsUnlessClash
<1>1. Init => Orderly
  BY DEF Init, Orderly, OrderlyAt
<1>2. Safe /\ Orderly /\ [Next]_vars => Orderly'
  BY OrderlyStays
<1>3. Orderly => ExtractsUnlessClash
  BY DEF Orderly, OrderlyAt, ExtractsUnlessClash
<1> QED
  BY <1>1, <1>2, <1>3, AlwaysSafe, PTL DEF Spec
=============================================================================
