------------------------- MODULE VaultPaths_proofs -------------------------
(***************************************************************************)
(* What the tree operations of the vault need to know of paths.            *)
(***************************************************************************)
EXTENDS VaultPaths, SequenceTheorems, TLAPS

\* A path is a nonempty sequence of names, no longer than the bound.
LEMMA PathIsSeq ==
  ASSUME NEW p \in Path
  PROVE  /\ p \in Seq(Name)
         /\ Len(p) \in 1..MaxDepth
         /\ Len(p) \in Nat
         /\ p \in [1..Len(p) -> Name]
<1>1. PICK n \in 1..MaxDepth : p \in [1..n -> Name]
  BY DEF Path
<1>2. p \in Seq(Name) /\ Len(p) = n
  BY <1>1, DepthAssumption
<1> QED
  BY <1>1, <1>2, DepthAssumption

\* A sequence of names within the bound is a path.
LEMMA SeqIsPath ==
  ASSUME NEW p \in Seq(Name), Len(p) \in 1..MaxDepth
  PROVE  p \in Path
<1>1. p \in [1..Len(p) -> Name]
  OBVIOUS
<1> QED
  BY <1>1 DEF Path

\* The descendant test, component by component.
LEMMA DescendantByComponent ==
  ASSUME NEW p \in Seq(Name), NEW q \in Seq(Name)
  PROVE  IsDescendantOf(p, q) <=>
           /\ Len(q) < Len(p)
           /\ \A i \in 1..Len(q) : q[i] = p[i]
<1>1. Len(p) \in Nat /\ Len(q) \in Nat
  OBVIOUS
<1>2. ASSUME Len(q) <= Len(p)
      PROVE  /\ SubSeq(q, 1, Len(q)) = q
             /\ SubSeq(p, 1, Len(q)) \in Seq(Name)
             /\ Len(SubSeq(p, 1, Len(q))) = Len(q)
             /\ \A i \in 1..Len(q) : SubSeq(p, 1, Len(q))[i] = p[i]
  BY <1>1, <1>2
<1>3. ASSUME IsDescendantOf(p, q)
      PROVE  Len(q) < Len(p) /\ \A i \in 1..Len(q) : q[i] = p[i]
  <2>1. Len(q) <= Len(p) /\ SubSeq(q, 1, Len(q)) = SubSeq(p, 1, Len(q)) /\ q # p
    BY <1>3 DEF IsDescendantOf, IsStrictPrefix, IsPrefix
  <2>2. \A i \in 1..Len(q) : q[i] = p[i]
    BY <1>2, <2>1
  <2>3. Len(q) # Len(p)
    BY <2>1, <2>2, SeqEqual
  <2> QED
    BY <1>1, <2>1, <2>2, <2>3
<1>4. ASSUME Len(q) < Len(p), \A i \in 1..Len(q) : q[i] = p[i]
      PROVE  IsDescendantOf(p, q)
  <2>1. Len(q) <= Len(p) /\ q # p
    BY <1>1, <1>4
  <2>2. q = SubSeq(p, 1, Len(q))
    BY <1>2, <1>4, <2>1, SeqEqual
  <2> QED
    BY <1>2, <2>1, <2>2 DEF IsDescendantOf, IsStrictPrefix, IsPrefix
<1> QED
  BY <1>3, <1>4

\* Below is transitive, and nothing is below itself.
LEMMA DescendantOrder ==
  ASSUME NEW p \in Path, NEW q \in Path, NEW r \in Path
  PROVE  /\ ~IsDescendantOf(p, p)
         /\ IsDescendantOf(p, q) /\ IsDescendantOf(q, r) => IsDescendantOf(p, r)
         /\ InSubtree(p, q) /\ IsDescendantOf(q, r) => IsDescendantOf(p, r)
         /\ IsDescendantOf(p, q) /\ InSubtree(q, r) => IsDescendantOf(p, r)
         /\ InSubtree(p, q) /\ InSubtree(q, r) => InSubtree(p, r)
         /\ InSubtree(p, q) /\ InSubtree(q, p) => p = q
<1>1. p \in Seq(Name) /\ q \in Seq(Name) /\ r \in Seq(Name)
  BY PathIsSeq
<1>2. ~IsDescendantOf(p, p)
  BY <1>1, DescendantByComponent
<1>3. ASSUME NEW x \in Path, NEW y \in Path, NEW z \in Path,
             IsDescendantOf(x, y), IsDescendantOf(y, z)
      PROVE  IsDescendantOf(x, z)
  <2>1. x \in Seq(Name) /\ y \in Seq(Name) /\ z \in Seq(Name)
    BY PathIsSeq
  <2>2. /\ Len(y) < Len(x) /\ \A i \in 1..Len(y) : y[i] = x[i]
        /\ Len(z) < Len(y) /\ \A i \in 1..Len(z) : z[i] = y[i]
    BY <1>3, <2>1, DescendantByComponent
  <2>3. Len(z) < Len(x) /\ \A i \in 1..Len(z) : z[i] = x[i]
    BY <2>1, <2>2
  <2> QED
    BY <2>1, <2>3, DescendantByComponent
<1> QED
  BY <1>2, <1>3 DEF InSubtree

\* Two ancestors of one path lie on one line.
LEMMA AncestorsComparable ==
  ASSUME NEW p \in Path, NEW q \in Path, NEW r \in Path,
         InSubtree(p, q), InSubtree(p, r)
  PROVE  InSubtree(q, r) \/ IsDescendantOf(r, q)
<1>1. p \in Seq(Name) /\ q \in Seq(Name) /\ r \in Seq(Name)
  BY PathIsSeq
<1>2. /\ Len(q) <= Len(p) /\ \A i \in 1..Len(q) : q[i] = p[i]
      /\ Len(r) <= Len(p) /\ \A i \in 1..Len(r) : r[i] = p[i]
  BY <1>1, DescendantByComponent DEF InSubtree
<1>3. CASE Len(r) < Len(q)
  BY <1>1, <1>2, <1>3, DescendantByComponent DEF InSubtree
<1>4. CASE Len(q) < Len(r)
  BY <1>1, <1>2, <1>4, DescendantByComponent
<1>5. CASE Len(q) = Len(r)
  BY <1>1, <1>2, <1>5, SeqEqual DEF InSubtree
<1> QED
  BY <1>1, <1>3, <1>4, <1>5
\* A remapped path component by component: to, then what p had after from.
LEMMA RemapByComponent ==
  ASSUME NEW p \in Path, NEW from \in Path, NEW to \in Path, InSubtree(p, from)
  PROVE  LET r == RemapEntryPath(p, from, to)
         IN /\ r \in Seq(Name)
            /\ Len(r) = Len(to) + (Len(p) - Len(from))
            /\ \A i \in 1..Len(to) : r[i] = to[i]
            /\ \A i \in 1..(Len(p) - Len(from)) : r[Len(to) + i] = p[Len(from) + i]
<1> DEFINE rest == SubSeq(p, Len(from) + 1, Len(p))
<1>1. p \in Seq(Name) /\ from \in Seq(Name) /\ to \in Seq(Name)
  BY PathIsSeq
<1>2. Len(from) \in Nat /\ Len(p) \in Nat /\ Len(to) \in Nat
  BY <1>1
<1>3. Len(from) <= Len(p)
  BY <1>1, <1>2, DescendantByComponent DEF InSubtree
<1>4. /\ rest \in Seq(Name)
      /\ Len(rest) = Len(p) - Len(from)
      /\ \A i \in 1..(Len(p) - Len(from)) : rest[i] = p[Len(from) + i]
  <2>1. \A i \in (Len(from) + 1)..Len(p) : p[i] \in Name
    BY <1>1, <1>2
  <2> QED
    BY <1>1, <1>2, <1>3, <2>1, SubSeqProperties
<1>5. RemapEntryPath(p, from, to) = to \o rest
  BY DEF RemapEntryPath
<1> QED
  BY <1>1, <1>2, <1>3, <1>4, <1>5, ConcatProperties

\* A remapped subtree lies at its new place, and its paths stay distinct.
LEMMA RemapIntoSubtree ==
  ASSUME NEW p \in Path, NEW from \in Path, NEW to \in Path, InSubtree(p, from)
  PROVE  InSubtree(RemapEntryPath(p, from, to), to)
<1> DEFINE r == RemapEntryPath(p, from, to)
<1>1. p \in Seq(Name) /\ from \in Seq(Name) /\ to \in Seq(Name)
  BY PathIsSeq
<1>2. /\ r \in Seq(Name)
      /\ Len(r) = Len(to) + (Len(p) - Len(from))
      /\ \A i \in 1..Len(to) : r[i] = to[i]
  BY RemapByComponent
<1>3. Len(from) <= Len(p) /\ Len(from) \in Nat /\ Len(p) \in Nat /\ Len(to) \in Nat
  BY <1>1, DescendantByComponent DEF InSubtree
<1>4. CASE Len(p) = Len(from)
  <2>1. Len(r) = Len(to)
    BY <1>2, <1>3, <1>4
  <2>2. r = to
    BY <1>1, <1>2, <2>1, SeqEqual
  <2> QED
    BY <2>2 DEF InSubtree
<1>5. CASE Len(p) # Len(from)
  <2>1. Len(to) < Len(r)
    BY <1>2, <1>3, <1>5
  <2> HIDE DEF r
  <2>2. IsDescendantOf(r, to)
    BY <1>1, <1>2, <2>1, DescendantByComponent
  <2> QED
    BY <2>2 DEF InSubtree, r
<1> QED
  BY <1>4, <1>5

LEMMA RemapInjective ==
  ASSUME NEW p \in Path, NEW q \in Path, NEW from \in Path, NEW to \in Path,
         InSubtree(p, from), InSubtree(q, from),
         RemapEntryPath(p, from, to) = RemapEntryPath(q, from, to)
  PROVE  p = q
<1>1. p \in Seq(Name) /\ q \in Seq(Name) /\ from \in Seq(Name) /\ to \in Seq(Name)
  BY PathIsSeq
<1>2. /\ Len(from) \in Nat /\ Len(p) \in Nat /\ Len(q) \in Nat /\ Len(to) \in Nat
      /\ Len(from) <= Len(p) /\ \A i \in 1..Len(from) : p[i] = from[i]
      /\ Len(from) <= Len(q) /\ \A i \in 1..Len(from) : q[i] = from[i]
  BY <1>1, DescendantByComponent DEF InSubtree
<1> DEFINE r == RemapEntryPath(p, from, to)
           s == RemapEntryPath(q, from, to)
<1>3. /\ Len(r) = Len(to) + (Len(p) - Len(from))
      /\ \A i \in 1..(Len(p) - Len(from)) : r[Len(to) + i] = p[Len(from) + i]
  BY RemapByComponent, ZenonT(30)
<1>4. /\ Len(s) = Len(to) + (Len(q) - Len(from))
      /\ \A i \in 1..(Len(q) - Len(from)) : s[Len(to) + i] = q[Len(from) + i]
  BY RemapByComponent, ZenonT(30)
<1>5. r = s
  OBVIOUS
<1> HIDE DEF r, s
<1>6. Len(p) = Len(q)
  BY <1>2, <1>3, <1>4, <1>5
<1>7. \A i \in 1..(Len(p) - Len(from)) : p[Len(from) + i] = q[Len(from) + i]
  BY <1>6, <1>3, <1>4, <1>5
<1>8. ASSUME NEW i \in 1..Len(p)
      PROVE  p[i] = q[i]
  <2>1. CASE i <= Len(from)
    BY <1>2, <2>1
  <2>2. CASE i > Len(from)
    <3>1. i - Len(from) \in 1..(Len(p) - Len(from))
      BY <1>2, <2>2
    <3>2. Len(from) + (i - Len(from)) = i
      BY <1>2
    <3> QED
      BY <1>7, <3>1, <3>2
  <2> QED
    BY <1>2, <2>1, <2>2
<1> QED
  BY <1>1, <1>6, <1>8, SeqEqual

\* The remapping back undoes it.
LEMMA RemapBack ==
  ASSUME NEW p \in Path, NEW from \in Path, NEW to \in Path,
         InSubtree(p, from), RemapEntryPath(p, from, to) \in Path
  PROVE  RemapEntryPath(RemapEntryPath(p, from, to), to, from) = p
<1> DEFINE r == RemapEntryPath(p, from, to)
           b == RemapEntryPath(r, to, from)
<1>1. p \in Seq(Name) /\ from \in Seq(Name) /\ to \in Seq(Name)
  BY PathIsSeq
<1>2. /\ Len(from) \in Nat /\ Len(p) \in Nat /\ Len(to) \in Nat
      /\ Len(from) <= Len(p) /\ \A i \in 1..Len(from) : p[i] = from[i]
  BY <1>1, DescendantByComponent DEF InSubtree
<1>3. /\ Len(r) = Len(to) + (Len(p) - Len(from))
      /\ \A i \in 1..(Len(p) - Len(from)) : r[Len(to) + i] = p[Len(from) + i]
  BY RemapByComponent, ZenonT(30)
<1>4. InSubtree(r, to)
  BY RemapIntoSubtree
<1> HIDE DEF r
<1>5. r \in Path
  BY DEF r
<1>6. /\ b \in Seq(Name)
      /\ Len(b) = Len(from) + (Len(r) - Len(to))
      /\ \A i \in 1..Len(from) : b[i] = from[i]
      /\ \A i \in 1..(Len(r) - Len(to)) : b[Len(from) + i] = r[Len(to) + i]
  BY <1>4, <1>5, RemapByComponent
<1> HIDE DEF b
<1>7. Len(b) = Len(p)
  BY <1>2, <1>3, <1>6
<1>8. ASSUME NEW i \in 1..Len(p)
      PROVE  b[i] = p[i]
  <2>1. CASE i <= Len(from)
    BY <1>2, <1>6, <2>1
  <2>2. CASE ~(i <= Len(from))
    <3>1. PICK k \in 1..(Len(p) - Len(from)) : i = Len(from) + k
      <4>1. i - Len(from) \in 1..(Len(p) - Len(from)) /\ i = Len(from) + (i - Len(from))
        BY <1>2, <2>2
      <4> QED
        BY <4>1
    <3>2. Len(r) - Len(to) = Len(p) - Len(from)
      BY <1>2, <1>3
    <3> QED
      BY <1>3, <1>6, <3>1, <3>2
  <2> QED
    BY <2>1, <2>2
<1>9. b = p
  BY <1>1, <1>6, <1>7, <1>8
<1> QED
  BY <1>9 DEF b, r

\* Above a remapped path there are the ancestors of the new place, the new
\* place itself, and the remapped paths of what was above the old one.
LEMMA RemapAncestor ==
  ASSUME NEW p \in Path, NEW from \in Path, NEW to \in Path, NEW q \in Path,
         InSubtree(p, from), IsDescendantOf(RemapEntryPath(p, from, to), q)
  PROVE  \/ IsDescendantOf(to, q)
         \/ \E o \in Path : /\ InSubtree(o, from)
                             /\ IsDescendantOf(p, o)
                             /\ q = RemapEntryPath(o, from, to)
<1> DEFINE r == RemapEntryPath(p, from, to)
<1>1. p \in Seq(Name) /\ q \in Seq(Name) /\ from \in Seq(Name) /\ to \in Seq(Name)
  BY PathIsSeq
<1>2. /\ r \in Seq(Name)
      /\ Len(r) = Len(to) + (Len(p) - Len(from))
      /\ \A i \in 1..Len(to) : r[i] = to[i]
      /\ \A i \in 1..(Len(p) - Len(from)) : r[Len(to) + i] = p[Len(from) + i]
  BY RemapByComponent
<1>3. /\ Len(from) \in Nat /\ Len(p) \in Nat /\ Len(q) \in Nat /\ Len(to) \in Nat
      /\ Len(from) <= Len(p) /\ \A i \in 1..Len(from) : p[i] = from[i]
      /\ Len(from) >= 1 /\ Len(p) <= MaxDepth
  BY <1>1, PathIsSeq, DescendantByComponent, DepthAssumption DEF InSubtree
<1>4. Len(q) < Len(r) /\ \A i \in 1..Len(q) : q[i] = r[i]
  <2> HIDE DEF r
  <2>1. IsDescendantOf(r, q)
    BY DEF r
  <2> QED
    BY <1>1, <1>2, <2>1, DescendantByComponent
<1> HIDE DEF r
<1>5. CASE Len(q) < Len(to)
  <2>1. \A i \in 1..Len(q) : q[i] = to[i]
    BY <1>2, <1>3, <1>4, <1>5
  <2> QED
    BY <1>1, <1>5, <2>1, DescendantByComponent
<1>6. CASE Len(q) >= Len(to)
  <2> DEFINE n == Len(from) + (Len(q) - Len(to))
             o == SubSeq(p, 1, n)
  <2>1. n \in Nat /\ Len(from) <= n /\ n < Len(p) /\ n \in 1..MaxDepth
    BY <1>2, <1>3, <1>4, <1>6, DepthAssumption
  <2>2. o \in Seq(Name) /\ Len(o) = n /\ \A i \in 1..n : o[i] = p[i]
    BY <1>1, <1>3, <2>1
  <2> HIDE DEF o
  <2>3. o \in Path
    BY <2>1, <2>2, SeqIsPath
  <2>4. IsDescendantOf(p, o)
    BY <1>1, <2>1, <2>2, DescendantByComponent
  <2>5. InSubtree(o, from)
    <3>1. \A i \in 1..Len(from) : from[i] = o[i]
      BY <1>3, <2>1, <2>2
    <3>2. CASE n = Len(from)
      BY <1>1, <2>2, <3>1, <3>2, SeqEqual DEF InSubtree
    <3>3. CASE n > Len(from)
      BY <1>1, <2>2, <3>1, <3>3, DescendantByComponent DEF InSubtree
    <3> QED
      BY <1>3, <2>1, <3>2, <3>3
  <2> DEFINE s == RemapEntryPath(o, from, to)
  <2>6. /\ s \in Seq(Name)
        /\ Len(s) = Len(to) + (Len(o) - Len(from))
        /\ \A i \in 1..Len(to) : s[i] = to[i]
        /\ \A i \in 1..(Len(o) - Len(from)) : s[Len(to) + i] = o[Len(from) + i]
    BY <2>3, <2>5, RemapByComponent
  <2> HIDE DEF s
  <2>7. Len(s) = Len(q)
    BY <1>3, <2>1, <2>2, <2>6
  <2>8. ASSUME NEW i \in 1..Len(q)
        PROVE  q[i] = s[i]
    <3>1. CASE i <= Len(to)
      BY <1>2, <1>3, <1>4, <2>6, <3>1
    <3>2. CASE i > Len(to)
      <4> DEFINE j == i - Len(to)
      <4>1. /\ j \in 1..(Len(o) - Len(from))
            /\ j \in 1..(Len(p) - Len(from))
            /\ Len(to) + j = i
            /\ Len(from) + j \in 1..n
        BY <1>3, <2>1, <2>2, <3>2
      <4>2. s[i] = o[Len(from) + j] /\ r[i] = p[Len(from) + j]
        BY <1>2, <2>6, <4>1
      <4>3. o[Len(from) + j] = p[Len(from) + j]
        BY <2>2, <4>1
      <4> QED
        BY <1>4, <4>2, <4>3
    <3> QED
      BY <1>3, <3>1, <3>2
  <2>9. q = s
    BY <1>1, <2>6, <2>7, <2>8, SeqEqual
  <2> QED
    BY <2>3, <2>4, <2>5, <2>9 DEF s
<1> QED
  BY <1>3, <1>5, <1>6
=============================================================================
