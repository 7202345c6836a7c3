--------------------------- MODULE VaultV3_proofs ---------------------------
(***************************************************************************)
(* Proofs about VaultV3, for every set of names, chunks and jobs and every *)
(* bound: the manifest tree stays well formed, and the variables stay in   *)
(* their types.  A new block index is fresh and the largest, compaction    *)
(* lays the live blocks out by index, and through ingestion, compaction,   *)
(* failure and reopening the records of the manifest and the blocks of the *)
(* data section stay a bijection.  What is read through all of this is the *)
(* plain tree of VaultTree: each step of the code edits it once or not.    *)
(***************************************************************************)
EXTENDS VaultV3, VaultPaths_proofs, FiniteSetTheorems

-----------------------------------------------------------------------------
(* Items.                                                                  *)

\* A function on 1..n is a sequence.
LEMMA FunctionIsSeq ==
  ASSUME NEW S, NEW n \in Nat, NEW f \in [1..n -> S]
  PROVE  f \in Seq(S) /\ Len(f) = n
<1>1. f \in Seq(S)
  BY SeqDef
<1> QED
  BY <1>1, LenProperties

LEMMA ItemKinds ==
  ASSUME NEW item \in Item
  PROVE  /\ item.kind = "dir" => item \in DirItem
         /\ item.kind = "file" => item \in FileItem
         /\ item.kind = "pack" => item \in PackItem
         /\ item.kind = "member" => item \in FileOfPack
         /\ item.kind = "name" => item \in NameItem
BY DEF Item, DirItem, FileItem, PackItem, FileOfPack, NameItem

-----------------------------------------------------------------------------
(* The tree operators.                                                     *)

\* Every ancestor of p is a directory entry of E.
ParentsThere(E, p) ==
  \A q \in Path : IsDescendantOf(p, q) => \E d \in E : d.path = q /\ d.is_dir

\* create_directory_in_manifest on the parent makes exactly the ancestors that
\* are missing, as directories, and disturbs nothing.
LEMMA WithParentsTree ==
  ASSUME NEW E \in SUBSET Entry, WellFormedTree(E), NEW p \in Path,
         ~HasFileAncestor(E, p)
  PROVE  /\ WithParents(E, p) \in SUBSET Entry
         /\ WellFormedTree(WithParents(E, p))
         /\ ParentsThere(WithParents(E, p), p)
         /\ \A e \in WithParents(E, p) : e \in E \/ (e.is_dir /\ IsDescendantOf(p, e.path))
<1> DEFINE M == MissingAncestors(E, p)
           F == WithParents(E, p)
<1>1. /\ M \subseteq Path
      /\ \A q \in M : IsDescendantOf(p, q) /\ ~ \E e \in E : e.path = q
  BY DEF MissingAncestors, InSubtree
<1>2. /\ \A q \in M : DirEntry(q) \in Entry /\ DirEntry(q).path = q /\ DirEntry(q).is_dir
      /\ \A e \in E : e.path \in Path /\ e.is_dir \in BOOLEAN
  BY <1>1 DEF DirEntry, Entry
<1>3. F = E \cup { DirEntry(q) : q \in M }
  BY DEF WithParents
<1>4. F \in SUBSET Entry
  BY <1>2, <1>3
<1>5. ParentsThere(F, p)
  <2> SUFFICES ASSUME NEW q \in Path, IsDescendantOf(p, q)
               PROVE  \E d \in F : d.path = q /\ d.is_dir
    BY DEF ParentsThere
  <2>1. CASE q \in M
    BY <1>2, <1>3, <2>1
  <2>2. CASE q \notin M
    <3>1. PICK e \in E : InSubtree(e.path, q) /\ IsDescendantOf(p, e.path)
      BY <2>2 DEF MissingAncestors
    <3>2. e.is_dir
      BY <1>2, <3>1 DEF HasFileAncestor
    <3>3. CASE e.path = q
      BY <1>3, <3>2, <3>3
    <3>4. CASE IsDescendantOf(e.path, q)
      BY <1>3, <3>4 DEF WellFormedTree, ParentsAreDirectories
    <3> QED
      BY <3>1, <3>3, <3>4 DEF InSubtree
  <2> QED
    BY <2>1, <2>2
<1>6. PathsUnique(F)
  <2> SUFFICES ASSUME NEW e \in F, NEW f \in F, e.path = f.path
               PROVE  e = f
    BY DEF PathsUnique
  <2>1. \A g \in F : g \in E \/ (g.path \in M /\ g = DirEntry(g.path))
    BY <1>2, <1>3
  <2>2. CASE e \in E /\ f \in E
    BY <2>2 DEF WellFormedTree, PathsUnique
  <2>3. CASE e \notin E /\ f \notin E
    BY <2>1, <2>3
  <2>4. CASE (e \in E) # (f \in E)
    BY <1>1, <2>1, <2>4
  <2> QED
    BY <2>2, <2>3, <2>4
<1>7. ParentsAreDirectories(F)
  <2> SUFFICES ASSUME NEW e \in F, NEW q \in Path, IsDescendantOf(e.path, q)
               PROVE  \E d \in F : d.path = q /\ d.is_dir
    BY DEF ParentsAreDirectories
  <2>1. CASE e \in E
    BY <1>3, <2>1 DEF WellFormedTree, ParentsAreDirectories
  <2>2. CASE e \notin E
    <3>1. e.path \in Path /\ IsDescendantOf(p, e.path)
      BY <1>1, <1>2, <1>3, <2>2
    <3>2. IsDescendantOf(p, q)
      BY <3>1, DescendantOrder
    <3> QED
      BY <1>5, <3>2 DEF ParentsThere
  <2> QED
    BY <2>1, <2>2
<1> QED
  BY <1>1, <1>2, <1>3, <1>4, <1>5, <1>6, <1>7 DEF WellFormedTree

\* An entry may join at a free place whose ancestors are there.
LEMMA AddEntryTree ==
  ASSUME NEW E \in SUBSET Entry, WellFormedTree(E), NEW e \in Entry,
         ParentsThere(E, e.path), ~Exists(E, e.path)
  PROVE  WellFormedTree(E \cup {e})
<1>1. \A f \in E : f.path # e.path
  BY DEF Exists, InSubtree
<1>2. PathsUnique(E \cup {e})
  BY <1>1 DEF PathsUnique, WellFormedTree
<1>3. ParentsAreDirectories(E \cup {e})
  BY DEF ParentsAreDirectories, WellFormedTree, ParentsThere
<1> QED
  BY <1>2, <1>3 DEF WellFormedTree

\* Giving up the file at p, if there is one, leaves its place free.
LEMMA WithoutTree ==
  ASSUME NEW E \in SUBSET Entry, WellFormedTree(E), NEW p \in Path,
         ~IsDirectory(E, p)
  PROVE  /\ WellFormedTree(Without(E, p))
         /\ ~Exists(Without(E, p), p)
         /\ ParentsThere(E, p) => ParentsThere(Without(E, p), p)
<1>1. \A e \in E : e.path \in Path /\ e.is_dir \in BOOLEAN
  BY DEF Entry
<1>2. \A e \in E : ~IsDescendantOf(e.path, p)
  <2> SUFFICES ASSUME NEW e \in E, IsDescendantOf(e.path, p)
               PROVE  FALSE
    OBVIOUS
  <2>1. PICK d \in E : d.path = p /\ d.is_dir
    BY DEF WellFormedTree, ParentsAreDirectories
  <2>2. ~IsFile(E, p)
    BY <2>1 DEF IsFile, WellFormedTree, PathsUnique
  <2>3. Exists(E, p)
    BY DEF Exists, InSubtree
  <2> QED
    BY <2>2, <2>3 DEF IsDirectory
<1>3. PathsUnique(Without(E, p))
  BY DEF PathsUnique, WellFormedTree, Without
<1>4. ParentsAreDirectories(Without(E, p))
  BY <1>2 DEF ParentsAreDirectories, WellFormedTree, Without
<1>5. ~Exists(Without(E, p), p)
  BY <1>2 DEF Exists, InSubtree, Without
<1>6. ASSUME ParentsThere(E, p)
      PROVE  ParentsThere(Without(E, p), p)
  BY <1>6, DescendantOrder DEF ParentsThere, Without
<1> QED
  BY <1>3, <1>4, <1>5, <1>6 DEF WellFormedTree

\* A subtree may go.
LEMMA RemoveSubtreeTree ==
  ASSUME NEW E \in SUBSET Entry, WellFormedTree(E), NEW p \in Path
  PROVE  WellFormedTree(E \ Subtree(E, p))
<1>1. \A e \in E : e.path \in Path
  BY DEF Entry
<1>2. PathsUnique(E \ Subtree(E, p))
  BY DEF PathsUnique, WellFormedTree
<1>3. ASSUME NEW e \in E \ Subtree(E, p), NEW q \in Path, IsDescendantOf(e.path, q)
      PROVE  \E d \in E \ Subtree(E, p) : d.path = q /\ d.is_dir
  <2>1. PICK d \in E : d.path = q /\ d.is_dir
    BY <1>3 DEF WellFormedTree, ParentsAreDirectories
  <2>2. ~InSubtree(q, p)
    BY <1>1, <1>3, DescendantOrder DEF Subtree, InSubtree
  <2> QED
    BY <2>1, <2>2 DEF Subtree
<1> QED
  BY <1>2, <1>3 DEF WellFormedTree, ParentsAreDirectories
\* create_directory_in_manifest.
LEMMA WithDirectoryTree ==
  ASSUME NEW E \in SUBSET Entry, WellFormedTree(E), NEW p \in Path,
         ~HasFileAncestor(E, p), ~IsFile(E, p)
  PROVE  WithDirectory(E, p) \in SUBSET Entry /\ WellFormedTree(WithDirectory(E, p))
<1>1. CASE \E e \in E : e.path = p
  BY <1>1 DEF WithDirectory
<1>2. CASE ~ \E e \in E : e.path = p
  <2> DEFINE F == WithParents(E, p)
  <2>1. /\ F \in SUBSET Entry
        /\ WellFormedTree(F)
        /\ ParentsThere(F, p)
        /\ \A e \in F : e \in E \/ (e.is_dir /\ IsDescendantOf(p, e.path))
    BY WithParentsTree
  <2>2. \A e \in F : e.path \in Path
    BY <2>1 DEF Entry
  <2>3. DirEntry(p) \in Entry /\ DirEntry(p).path = p
    BY DEF DirEntry, Entry
  <2>4. ~Exists(F, p)
    <3> SUFFICES ASSUME NEW e \in F, InSubtree(e.path, p)
                 PROVE  FALSE
      BY DEF Exists
    <3>1. CASE e \in E
      <4>1. IsDescendantOf(e.path, p)
        BY <1>2, <3>1 DEF InSubtree
      <4> QED
        BY <1>2, <3>1, <4>1 DEF WellFormedTree, ParentsAreDirectories
    <3>2. CASE e \notin E
      BY <2>1, <2>2, <3>2, DescendantOrder
    <3> QED
      BY <3>1, <3>2
  <2>5. WithDirectory(E, p) = F \cup {DirEntry(p)}
    BY <1>2 DEF WithDirectory
  <2> HIDE DEF F
  <2>6. WellFormedTree(F \cup {DirEntry(p)})
    BY <2>1, <2>3, <2>4, AddEntryTree
  <2> QED
    BY <2>1, <2>3, <2>5, <2>6
<1> QED
  BY <1>1, <1>2

-----------------------------------------------------------------------------
(* Relocation.                                                             *)

\* With the parents of the new place made, the subtree is unchanged, lies
\* apart from the new place, and nothing is at the new place.
LEMMA RelocationGround ==
  ASSUME NEW E \in SUBSET Entry, WellFormedTree(E),
         NEW from \in Path, NEW to \in Path, from # to,
         CanRelocate(E, from, to)
  PROVE  LET F == WithParents(E, to)
         IN /\ F \in SUBSET Entry
            /\ WellFormedTree(F)
            /\ ParentsThere(F, to)
            /\ ~InSubtree(to, from)
            /\ ~Exists(F, to)
            /\ Subtree(F, from) = Subtree(E, from)
<1> DEFINE F == WithParents(E, to)
<1>1. /\ F \in SUBSET Entry
      /\ WellFormedTree(F)
      /\ ParentsThere(F, to)
      /\ \A e \in F : e \in E \/ (e.is_dir /\ IsDescendantOf(to, e.path))
  BY WithParentsTree DEF CanRelocate
<1>2. \A e \in F : e.path \in Path
  BY <1>1 DEF Entry
<1>3. ~InSubtree(to, from)
  <2> SUFFICES ASSUME IsDescendantOf(to, from)
               PROVE  FALSE
    BY DEF InSubtree
  <2>1. IsFile(E, from)
    BY DEF CanRelocate, IsDirectory
  <2> QED
    BY <2>1 DEF IsFile, HasFileAncestor, CanRelocate
<1>4. ~Exists(F, to)
  <2> SUFFICES ASSUME NEW e \in F, InSubtree(e.path, to)
               PROVE  FALSE
    BY DEF Exists
  <2>1. e \notin E
    BY DEF CanRelocate, Exists
  <2> QED
    BY <1>1, <1>2, <2>1, DescendantOrder
<1>5. \A e \in F : InSubtree(e.path, from) => e \in E
  <2> SUFFICES ASSUME NEW e \in F, InSubtree(e.path, from), e \notin E
               PROVE  FALSE
    OBVIOUS
  <2>1. IsDescendantOf(to, from)
    BY <1>1, <1>2, DescendantOrder
  <2> QED
    BY <1>3, <2>1 DEF InSubtree
<1>6. E \subseteq F
  BY DEF WithParents
<1> HIDE DEF F
<1>7. Subtree(F, from) = Subtree(E, from)
  BY <1>5, <1>6 DEF Subtree
<1> QED
  BY <1>1, <1>3, <1>4, <1>7 DEF F

\* Above a relocated entry there are directories: the parents of the new place
\* and the relocated directories of the subtree itself.
LEMMA RelocatedTree ==
  ASSUME NEW E \in SUBSET Entry, WellFormedTree(E),
         NEW from \in Path, NEW to \in Path, from # to,
         CanRelocate(E, from, to)
  PROVE  /\ Relocated(E, from, to) \in SUBSET Entry
         /\ PathsUnique(Relocated(E, from, to))
         /\ \A e \in Relocated(E, from, to) :
              /\ InSubtree(e.path, to)
              /\ \A q \in Path : IsDescendantOf(e.path, q) =>
                   \/ IsDescendantOf(to, q)
                   \/ \E d \in Relocated(E, from, to) : d.path = q /\ d.is_dir
<1> DEFINE R == Relocated(E, from, to)
           New(e) == [e EXCEPT !.path = RemapEntryPath(e.path, from, to)]
<1>1. \A e \in E : e.path \in Path /\ e.is_dir \in BOOLEAN
  BY DEF Entry
<1>2. \A e \in Subtree(E, from) :
         /\ e \in Entry /\ e \in E
         /\ InSubtree(e.path, from)
         /\ New(e) \in Entry
         /\ New(e).path = RemapEntryPath(e.path, from, to)
         /\ New(e).is_dir = e.is_dir
         /\ New(e).chunks = e.chunks
         /\ New(e).pack_offset = e.pack_offset
  BY DEF Subtree, Entry, CanRelocate
<1>3. \A f \in R : \E e \in Subtree(E, from) : f = New(e)
  BY DEF Relocated
<1>4. \A e \in Subtree(E, from) : New(e) \in R
  BY DEF Relocated
<1> HIDE DEF R, New
<1>5. R \in SUBSET Entry
  BY <1>2, <1>3
<1>6. PathsUnique(R)
  <2> SUFFICES ASSUME NEW f \in R, NEW g \in R, f.path = g.path
               PROVE  f = g
    BY DEF PathsUnique
  <2>1. PICK d \in Subtree(E, from) : f = New(d)
    BY <1>3
  <2>2. PICK e \in Subtree(E, from) : g = New(e)
    BY <1>3
  <2>3. RemapEntryPath(d.path, from, to) = RemapEntryPath(e.path, from, to)
    BY <1>2, <2>1, <2>2
  <2>4. d.path = e.path
    BY <1>1, <1>2, <2>3, RemapInjective
  <2>5. d = e
    BY <1>2, <2>4 DEF WellFormedTree, PathsUnique
  <2> QED
    BY <2>1, <2>2, <2>5
<1>7. ASSUME NEW f \in R
      PROVE  InSubtree(f.path, to)
  BY <1>1, <1>2, <1>3, RemapIntoSubtree
<1>8. ASSUME NEW f \in R, NEW q \in Path, IsDescendantOf(f.path, q),
             ~IsDescendantOf(to, q)
      PROVE  \E d \in R : d.path = q /\ d.is_dir
  <2>1. PICK e \in Subtree(E, from) : f = New(e)
    BY <1>3
  <2>2. PICK o \in Path : /\ InSubtree(o, from)
                          /\ IsDescendantOf(e.path, o)
                          /\ q = RemapEntryPath(o, from, to)
    BY <1>1, <1>2, <1>8, <2>1, RemapAncestor
  <2>3. PICK d \in E : d.path = o /\ d.is_dir
    BY <1>2, <2>2 DEF WellFormedTree, ParentsAreDirectories
  <2>4. d \in Subtree(E, from)
    BY <2>2, <2>3 DEF Subtree
  <2>5. New(d) \in R /\ New(d).path = q /\ New(d).is_dir
    BY <1>2, <1>4, <2>2, <2>3, <2>4
  <2> QED
    BY <2>5
<1> QED
  BY <1>5, <1>6, <1>7, <1>8 DEF R

\* copy_entry_in_manifest.
LEMMA CopyTree ==
  ASSUME NEW E \in SUBSET Entry, WellFormedTree(E),
         NEW from \in Path, NEW to \in Path, from # to,
         CanRelocate(E, from, to)
  PROVE  LET F == WithParents(E, to) \cup Relocated(WithParents(E, to), from, to)
         IN F \in SUBSET Entry /\ WellFormedTree(F)
<1> DEFINE P == WithParents(E, to)
           R == Relocated(E, from, to)
<1>1. /\ P \in SUBSET Entry /\ WellFormedTree(P) /\ ParentsThere(P, to)
      /\ ~Exists(P, to) /\ Subtree(P, from) = Subtree(E, from)
  BY RelocationGround
<1>2. Relocated(P, from, to) = R
  BY <1>1 DEF Relocated
<1>3. /\ R \in SUBSET Entry
      /\ PathsUnique(R)
      /\ \A e \in R : InSubtree(e.path, to)
      /\ \A e \in R : \A q \in Path : IsDescendantOf(e.path, q) =>
           \/ IsDescendantOf(to, q)
           \/ \E d \in R : d.path = q /\ d.is_dir
  BY RelocatedTree
<1> HIDE DEF P, R
<1>4. \A e \in P : ~InSubtree(e.path, to)
  BY <1>1 DEF Exists
<1>5. PathsUnique(P \cup R)
  BY <1>1, <1>3, <1>4 DEF PathsUnique, WellFormedTree
<1>6. ParentsAreDirectories(P \cup R)
  BY <1>1, <1>3 DEF ParentsAreDirectories, WellFormedTree, ParentsThere
<1> QED
  BY <1>1, <1>2, <1>3, <1>5, <1>6 DEF P, WellFormedTree

\* move_entry_in_manifest.
LEMMA MoveTree ==
  ASSUME NEW E \in SUBSET Entry, WellFormedTree(E),
         NEW from \in Path, NEW to \in Path, from # to,
         CanRelocate(E, from, to)
  PROVE  LET P == WithParents(E, to)
             F == (P \ Subtree(P, from)) \cup Relocated(P, from, to)
         IN F \in SUBSET Entry /\ WellFormedTree(F)
<1> DEFINE P == WithParents(E, to)
           R == Relocated(E, from, to)
           K == P \ Subtree(P, from)
<1>1. /\ P \in SUBSET Entry /\ WellFormedTree(P) /\ ParentsThere(P, to)
      /\ ~Exists(P, to) /\ Subtree(P, from) = Subtree(E, from)
      /\ ~InSubtree(to, from)
  BY RelocationGround
<1>2. Relocated(P, from, to) = R
  BY <1>1 DEF Relocated
<1>3. /\ R \in SUBSET Entry
      /\ PathsUnique(R)
      /\ \A e \in R : InSubtree(e.path, to)
      /\ \A e \in R : \A q \in Path : IsDescendantOf(e.path, q) =>
           \/ IsDescendantOf(to, q)
           \/ \E d \in R : d.path = q /\ d.is_dir
  BY RelocatedTree
<1> HIDE DEF P, R
<1>4. WellFormedTree(K) /\ K \in SUBSET Entry /\ K \subseteq P
  BY <1>1, RemoveSubtreeTree
<1>5. ParentsThere(K, to)
  <2> SUFFICES ASSUME NEW q \in Path, IsDescendantOf(to, q)
               PROVE  \E d \in K : d.path = q /\ d.is_dir
    BY DEF ParentsThere
  <2>1. PICK d \in P : d.path = q /\ d.is_dir
    BY <1>1 DEF ParentsThere
  <2>2. ~InSubtree(q, from)
    BY <1>1, DescendantOrder DEF InSubtree
  <2> QED
    BY <2>1, <2>2 DEF Subtree
<1>6. \A e \in K : ~InSubtree(e.path, to)
  BY <1>1, <1>4 DEF Exists
<1> HIDE DEF K
<1>7. PathsUnique(K \cup R)
  BY <1>3, <1>4, <1>6 DEF PathsUnique, WellFormedTree
<1>8. ParentsAreDirectories(K \cup R)
  BY <1>3, <1>4, <1>5 DEF ParentsAreDirectories, WellFormedTree, ParentsThere
<1> QED
  BY <1>2, <1>3, <1>4, <1>7, <1>8 DEF P, K, WellFormedTree
-----------------------------------------------------------------------------
(* The tree invariant.                                                     *)

\* What the steps of a running operation know of the work that is left.
WorkInv ==
  /\ op \in {"idle", "adding", "streaming", "deleting", "sealing"}
  /\ todo \in Seq(Item)
  /\ \A i \in 1..Len(todo) : Covered(todo[i])
  /\ fed \in Nat
  /\ op = "streaming" => /\ todo # <<>>
                         /\ Head(todo).kind \in {"file", "pack"}
                         /\ fed <= Len(Head(todo).chunks)
  /\ op = "deleting" => \A i \in 1..Len(todo) : todo[i].kind = "name"

\* While a source streams in, the place of its entry stays free and reachable.
PlaceReady ==
  op = "streaming" /\ Head(todo).kind = "file" =>
    ParentsThere(entries, Head(todo).path) /\ ~Exists(entries, Head(todo).path)

TreeInv ==
  /\ entries \in SUBSET Entry
  /\ disk.entries \in SUBSET Entry
  /\ WellFormedTree(entries)
  /\ WellFormedTree(disk.entries)
  /\ WorkInv
  /\ PlaceReady

LEMMA TreeInit == Init => TreeInv
<1> SUFFICES ASSUME Init PROVE TreeInv
  OBVIOUS
<1>1. entries = {} /\ disk.entries = {} /\ todo = <<>> /\ op = "idle" /\ fed = 0
  BY DEF Init, Sealed
<1>2. WellFormedTree({})
  BY DEF WellFormedTree, PathsUnique, ParentsAreDirectories
<1> QED
  BY <1>1, <1>2 DEF TreeInv, WorkInv, PlaceReady

\* The rest of the work is work.
LEMMA TailOfWork ==
  ASSUME WorkInv, todo # <<>>
  PROVE  /\ Head(todo) \in Item
         /\ Covered(Head(todo))
         /\ Tail(todo) \in Seq(Item)
         /\ \A i \in 1..Len(Tail(todo)) : Tail(todo)[i] = todo[i + 1] /\ i + 1 \in 1..Len(todo)
         /\ \A i \in 1..Len(Tail(todo)) : Covered(Tail(todo)[i])
<1>1. todo \in Seq(Item) /\ Len(todo) \in Nat /\ Len(todo) >= 1
  BY DEF WorkInv
<1>2. /\ Head(todo) = todo[1] /\ 1 \in 1..Len(todo)
      /\ Tail(todo) \in Seq(Item)
      /\ Len(Tail(todo)) = Len(todo) - 1
      /\ \A i \in 1..Len(Tail(todo)) : Tail(todo)[i] = todo[i + 1]
  BY <1>1
<1>3. \A i \in 1..Len(Tail(todo)) : i + 1 \in 1..Len(todo)
  BY <1>1, <1>2
<1> QED
  BY <1>1, <1>2, <1>3 DEF WorkInv

\* The members of a pack are files of the chunks that cover them.
LEMMA MembersAreItems ==
  ASSUME NEW pack \in PackItem, Covered(pack)
  PROVE  /\ MemberItems(pack) \in Seq(FileOfPack)
         /\ \A m \in 1..Len(MemberItems(pack)) :
              \A j \in DOMAIN MemberItems(pack)[m].chunks :
                \E i \in 1..Len(pack.chunks) : MemberItems(pack)[m].chunks[j] = pack.chunks[i]
<1> DEFINE Cover(m) == SubSeq(pack.chunks, pack.members[m].first, pack.members[m].last)
<1>1. pack.members \in Seq(Member) /\ pack.chunks \in Seq(Chunk) /\ pack.kind = "pack"
  BY DEF PackItem
<1>2. \A m \in 1..Len(pack.members) :
         /\ pack.members[m] \in Member
         /\ pack.members[m].last <= Len(pack.chunks)
  BY <1>1 DEF Covered
<1>3. ASSUME NEW m \in 1..Len(pack.members)
      PROVE  /\ Cover(m) \in Seq(Chunk)
             /\ \A j \in DOMAIN Cover(m) :
                  \E i \in 1..Len(pack.chunks) : Cover(m)[j] = pack.chunks[i]
  <2> DEFINE f == pack.members[m].first
             l == pack.members[m].last
  <2>1. f \in Nat \ {0} /\ l \in Nat /\ l <= Len(pack.chunks) /\ Len(pack.chunks) \in Nat
    BY <1>1, <1>2, SMTT(30) DEF Member
  <2> HIDE DEF f, l
  <2>2. \A i \in f..l : i \in 1..Len(pack.chunks) /\ pack.chunks[i] \in Chunk
    BY <1>1, <2>1
  <2>3. /\ SubSeq(pack.chunks, f, l) \in Seq(Chunk)
        /\ Len(SubSeq(pack.chunks, f, l)) = IF f <= l THEN l - f + 1 ELSE 0
        /\ \A j \in 1..(l - f + 1) : SubSeq(pack.chunks, f, l)[j] = pack.chunks[f + j - 1]
    BY <1>1, <2>1, <2>2, SubSeqProperties
  <2>4. ASSUME NEW j \in DOMAIN SubSeq(pack.chunks, f, l)
        PROVE  \E i \in 1..Len(pack.chunks) : SubSeq(pack.chunks, f, l)[j] = pack.chunks[i]
    <3>1. j \in 1..(l - f + 1)
      BY <2>1, <2>3
    <3>2. f + j - 1 \in 1..Len(pack.chunks)
      BY <2>1, <3>1
    <3> QED
      BY <2>3, <3>1, <3>2
  <2> QED
    BY <2>3, <2>4 DEF f, l
<1> HIDE DEF Cover
<1>4. MemberItems(pack) =
        [m \in 1..Len(pack.members) |->
           [kind |-> "member", path |-> pack.members[m].path,
            chunks |-> Cover(m), offset |-> pack.members[m].offset]]
  BY <1>1 DEF MemberItems, Cover
<1> DEFINE items == MemberItems(pack)
<1> HIDE DEF items
<1>5. /\ \A m \in 1..Len(pack.members) : items[m] \in FileOfPack /\ items[m].chunks = Cover(m)
      /\ items = [m \in 1..Len(pack.members) |-> items[m]]
  BY <1>2, <1>3, <1>4 DEF Member, FileOfPack, items
<1>6. Len(pack.members) \in Nat
  BY <1>1
<1>7. items \in Seq(FileOfPack) /\ Len(items) = Len(pack.members)
  <2>1. items \in [1..Len(pack.members) -> FileOfPack]
    BY <1>5
  <2> QED
    BY <1>6, <2>1, FunctionIsSeq
<1>8. \A m \in 1..Len(items) : \A j \in DOMAIN items[m].chunks :
        \E i \in 1..Len(pack.chunks) : items[m].chunks[j] = pack.chunks[i]
  <2> SUFFICES ASSUME NEW m \in 1..Len(items), NEW j \in DOMAIN items[m].chunks
               PROVE  \E i \in 1..Len(pack.chunks) : items[m].chunks[j] = pack.chunks[i]
    OBVIOUS
  <2>1. m \in 1..Len(pack.members) /\ items[m].chunks = Cover(m)
    BY <1>5, <1>7
  <2> QED
    BY <1>3, <2>1
<1> QED
  BY <1>7, <1>8 DEF items

\* An error return leaves no work.
LEMMA AbandonedWork ==
  ASSUME Abandon
  PROVE  WorkInv' /\ PlaceReady' /\ disk' = disk
<1>1. op' = "idle" /\ todo' = <<>> /\ fed' = 0 /\ disk' = disk
  BY DEF Abandon
<1>2. <<>> \in Seq(Item) /\ Len(<<>>) = 0
  OBVIOUS
<1> QED
  BY <1>1, <1>2 DEF WorkInv, PlaceReady

\* The next item.
LEMMA AdvancedWork ==
  ASSUME WorkInv, todo # <<>>, todo' = Tail(todo), fed' \in Nat,
         \/ op' = "adding"
         \/ op = "deleting" /\ op' = "deleting"
  PROVE  WorkInv' /\ PlaceReady'
<1>1. /\ Tail(todo) \in Seq(Item)
      /\ \A i \in 1..Len(Tail(todo)) : Tail(todo)[i] = todo[i + 1] /\ i + 1 \in 1..Len(todo)
      /\ \A i \in 1..Len(Tail(todo)) : Covered(Tail(todo)[i])
  BY TailOfWork
<1>2. op' = "deleting" => \A i \in 1..Len(todo') : todo'[i].kind = "name"
  BY <1>1 DEF WorkInv
<1> QED
  BY <1>1, <1>2 DEF WorkInv, PlaceReady

\* Every operation begins with work of its own kind.
LEMMA BegunWork ==
  ASSUME WorkInv, BeginAdd \/ BeginDelete
  PROVE  WorkInv' /\ PlaceReady' /\ UNCHANGED <<memory, disk>>
<1>1. CASE BeginAdd
  <2>1. PICK job \in AddJobs : Begin("adding", job)
    BY <1>1 DEF BeginAdd
  <2>2. job \in Seq(DirItem \cup FileItem \cup PackItem) /\ \A i \in DOMAIN job : Covered(job[i])
    BY JobAssumption
  <2>3. job \in Seq(Item)
    BY <2>2, SeqMonotonic DEF Item
  <2>4. /\ op' = "adding" /\ todo' = job /\ fed' = fed /\ UNCHANGED <<memory, disk>>
    BY <2>1 DEF Begin
  <2> QED
    BY <2>2, <2>3, <2>4 DEF WorkInv, PlaceReady
<1>2. CASE BeginDelete
  <2>1. PICK job \in DeleteJobs : Begin("deleting", job)
    BY <1>2 DEF BeginDelete
  <2>2. job \in Seq(NameItem)
    BY JobAssumption
  <2>3. job \in Seq(Item)
    BY <2>2, SeqMonotonic DEF Item
  <2>4. \A i \in 1..Len(job) : job[i] \in NameItem
    BY <2>2
  <2>5. \A i \in 1..Len(job) : job[i].kind = "name" /\ Covered(job[i])
    BY <2>4 DEF NameItem, Covered
  <2>6. /\ op' = "deleting" /\ todo' = job /\ fed' = fed /\ UNCHANGED <<memory, disk>>
    BY <2>1 DEF Begin
  <2> QED
    BY <2>3, <2>5, <2>6 DEF WorkInv, PlaceReady
<1> QED
  BY <1>1, <1>2

\* Once its chunks are in, a pack gives way to its members.
LEMMA PackedWork ==
  ASSUME WorkInv, FinishPack
  PROVE  WorkInv' /\ PlaceReady' /\ UNCHANGED <<memory, disk>>
<1> DEFINE items == MemberItems(Head(todo))
           rest  == Tail(todo)
<1>1. todo # <<>>
  BY DEF FinishPack, Streamed, WorkInv
<1>2. /\ Head(todo) \in Item /\ Covered(Head(todo)) /\ Head(todo).kind = "pack"
      /\ rest \in Seq(Item)
      /\ \A i \in 1..Len(rest) : Covered(rest[i])
  BY <1>1, TailOfWork DEF FinishPack, Streamed
<1>3. Head(todo) \in PackItem
  BY <1>2, ItemKinds
<1>4. items \in Seq(FileOfPack)
  BY <1>2, <1>3, MembersAreItems
<1>5. op' = "adding" /\ todo' = items \o rest /\ fed' = 0 /\ UNCHANGED <<memory, disk>>
  BY DEF FinishPack
<1> HIDE DEF items, rest
<1>6. items \in Seq(Item)
  BY <1>4, SeqMonotonic DEF Item
<1>7. \A i \in 1..Len(items) : items[i] \in FileOfPack
  BY <1>4
<1>8. \A i \in 1..Len(items) : Covered(items[i])
  BY <1>7 DEF FileOfPack, Covered
<1>9. /\ items \o rest \in Seq(Item)
      /\ \A i \in 1..Len(items \o rest) : Covered((items \o rest)[i])
  <2>1. /\ items \o rest \in Seq(Item)
        /\ Len(items \o rest) = Len(items) + Len(rest)
        /\ \A i \in 1..Len(items) + Len(rest) :
             (items \o rest)[i] = IF i <= Len(items) THEN items[i] ELSE rest[i - Len(items)]
    BY <1>2, <1>6, ConcatProperties
  <2>2. Len(items) \in Nat /\ Len(rest) \in Nat
    BY <1>2, <1>6
  <2>3. ASSUME NEW i \in 1..Len(items \o rest)
        PROVE  Covered((items \o rest)[i])
    <3>1. CASE i <= Len(items)
      BY <1>8, <2>1, <2>2, <3>1
    <3>2. CASE ~(i <= Len(items))
      <4>1. i - Len(items) \in 1..Len(rest)
        BY <2>1, <2>2, <3>2
      <4> QED
        BY <1>2, <2>1, <2>2, <3>2, <4>1
    <3> QED
      BY <3>1, <3>2
  <2> QED
    BY <2>1, <2>3
<1> QED
  BY <1>5, <1>9 DEF WorkInv, PlaceReady

\* The place of a new file: its parents are made, an older file is given up.
LEMMA PlaceForFile ==
  ASSUME NEW E \in SUBSET Entry, WellFormedTree(E), NEW p \in Path,
         ~HasFileAncestor(E, p), ~IsDirectory(E, p)
  PROVE  LET F == Without(WithParents(E, p), p)
         IN F \in SUBSET Entry /\ WellFormedTree(F) /\ ParentsThere(F, p) /\ ~Exists(F, p)
<1> DEFINE P == WithParents(E, p)
<1>1. /\ P \in SUBSET Entry
      /\ WellFormedTree(P)
      /\ ParentsThere(P, p)
      /\ \A e \in P : e \in E \/ (e.is_dir /\ IsDescendantOf(p, e.path))
  BY WithParentsTree
<1>2. /\ \A e \in P : e.path \in Path /\ e.is_dir \in BOOLEAN
      /\ E \subseteq P
  BY <1>1 DEF Entry, WithParents
<1>3. ~IsDirectory(P, p)
  <2>1. \A e \in P : InSubtree(e.path, p) => e \in E
    BY <1>1, <1>2, DescendantOrder DEF InSubtree
  <2> QED
    BY <1>2, <2>1 DEF IsDirectory, Exists, IsFile
<1> HIDE DEF P
<1>4. Without(P, p) \in SUBSET Entry
  BY <1>1 DEF Without
<1> QED
  BY <1>1, <1>3, <1>4, WithoutTree DEF P

\* A step of an operation on the manifest keeps the tree.
LEMMA TreeStep == TreeInv /\ [Next]_vars => TreeInv'
<1> SUFFICES ASSUME TreeInv, [Next]_vars
             PROVE  TreeInv'
  OBVIOUS
<1>0. /\ entries \in SUBSET Entry /\ WellFormedTree(entries)
      /\ disk.entries \in SUBSET Entry /\ WellFormedTree(disk.entries)
      /\ WorkInv /\ PlaceReady
  BY DEF TreeInv
<1>1. ASSUME Abandon, entries' \in SUBSET Entry, WellFormedTree(entries')
      PROVE  TreeInv'
  BY <1>0, <1>1, AbandonedWork DEF TreeInv
<1>2. ASSUME WorkInv' /\ PlaceReady', UNCHANGED entries, UNCHANGED disk
      PROVE  TreeInv'
  BY <1>0, <1>2 DEF TreeInv
<1>3. ASSUME UNCHANGED memory
      PROVE  entries' \in SUBSET Entry /\ WellFormedTree(entries')
  BY <1>0, <1>3 DEF memory
<1>4. CASE BeginAdd \/ BeginDelete
  BY <1>0, <1>2, <1>4, BegunWork DEF memory
<1>5. CASE CreateDirectory
  <2> DEFINE p == Head(todo).path
  <2>1. todo # <<>> /\ Head(todo).kind = "dir" /\ op = "adding"
    BY <1>5 DEF CreateDirectory, AtItem
  <2>2. p \in Path
    BY <1>0, <2>1, TailOfWork, ItemKinds DEF DirItem
  <2>3. CASE Abandon /\ UNCHANGED memory
    BY <1>1, <1>3, <2>3
  <2>4. CASE /\ ~HasFileAncestor(entries, p) /\ ~IsFile(entries, p)
             /\ entries' = WithDirectory(entries, p)
             /\ todo' = Tail(todo)
             /\ UNCHANGED <<chunks, data, disk, op, fed, ops>>
    <3>1. entries' \in SUBSET Entry /\ WellFormedTree(entries')
      BY <1>0, <2>2, <2>4, WithDirectoryTree
    <3>2. WorkInv' /\ PlaceReady'
      BY <1>0, <2>1, <2>4, AdvancedWork DEF WorkInv
    <3> QED
      BY <1>0, <2>4, <3>1, <3>2 DEF TreeInv
  <2> QED
    BY <1>5, <2>3, <2>4 DEF CreateDirectory
<1>6. CASE BeginFile
  <2> DEFINE p == Head(todo).path
  <2>1. todo # <<>> /\ Head(todo).kind = "file" /\ op = "adding"
    BY <1>6 DEF BeginFile, AtItem
  <2>2. p \in Path /\ Head(todo).chunks \in Seq(Chunk)
    BY <1>0, <2>1, TailOfWork, ItemKinds DEF FileItem
  <2>3. CASE Abandon /\ UNCHANGED memory
    BY <1>1, <1>3, <2>3
  <2>4. CASE /\ ~HasFileAncestor(entries, p)
             /\ entries' = WithParents(entries, p)
             /\ Abandon
    BY <1>0, <1>1, <2>2, <2>4, WithParentsTree
  <2>5. CASE /\ ~HasFileAncestor(entries, p) /\ ~IsDirectory(entries, p)
             /\ entries' = Without(WithParents(entries, p), p)
             /\ op' = "streaming"
             /\ fed' = 0
             /\ UNCHANGED <<chunks, data, disk, todo, ops>>
    <3>1. /\ entries' \in SUBSET Entry /\ WellFormedTree(entries')
          /\ ParentsThere(entries', p) /\ ~Exists(entries', p)
      BY <1>0, <2>2, <2>5, PlaceForFile
    <3>2. WorkInv'
      BY <1>0, <2>1, <2>2, <2>5 DEF WorkInv
    <3>3. PlaceReady'
      BY <2>5, <3>1 DEF PlaceReady
    <3> QED
      BY <1>0, <2>5, <3>1, <3>2, <3>3 DEF TreeInv
  <2> QED
    BY <1>6, <2>3, <2>4, <2>5 DEF BeginFile
<1>7. CASE BeginPack
  <2>1. todo # <<>> /\ Head(todo).kind = "pack" /\ op = "adding"
    BY <1>7 DEF BeginPack, AtItem
  <2>2. Head(todo).chunks \in Seq(Chunk)
    BY <1>0, <2>1, TailOfWork, ItemKinds DEF PackItem
  <2>3. WorkInv'
    BY <1>0, <1>7, <2>1, <2>2 DEF WorkInv, BeginPack
  <2>4. PlaceReady' /\ UNCHANGED entries /\ UNCHANGED disk
    BY <1>7, <2>1 DEF BeginPack, PlaceReady, memory
  <2> QED
    BY <1>2, <2>3, <2>4
<1>8. CASE Stream
  <2>1. /\ op = "streaming" /\ fed < Len(Head(todo).chunks) /\ fed' = fed + 1
        /\ UNCHANGED <<entries, disk, op, todo, ops>>
    BY <1>8 DEF Stream
  <2>2. Head(todo).chunks \in Seq(Chunk)
    BY <1>0, <2>1, TailOfWork, ItemKinds DEF WorkInv, FileItem, PackItem
  <2>3. WorkInv'
    BY <1>0, <2>1, <2>2 DEF WorkInv
  <2>4. PlaceReady'
    BY <1>0, <2>1 DEF PlaceReady
  <2> QED
    BY <1>2, <2>1, <2>3, <2>4
<1>9. CASE FinishFile
  <2> DEFINE e == FileEntry(Head(todo).path, Head(todo).chunks, 0)
  <2>1. op = "streaming" /\ Head(todo).kind = "file" /\ todo # <<>>
    BY <1>0, <1>9 DEF FinishFile, Streamed, WorkInv
  <2>2. Head(todo) \in FileItem
    BY <1>0, <2>1, TailOfWork, ItemKinds
  <2>3. e \in Entry /\ e.path = Head(todo).path
    BY <2>2 DEF FileItem, FileEntry, Entry
  <2>4. ParentsThere(entries, e.path) /\ ~Exists(entries, e.path)
    BY <1>0, <2>1, <2>3 DEF PlaceReady
  <2> HIDE DEF e
  <2>5. WellFormedTree(entries \cup {e})
    BY <1>0, <2>3, <2>4, AddEntryTree
  <2>6. /\ entries' = entries \cup {e} /\ todo' = Tail(todo)
        /\ op' = "adding" /\ fed' = 0 /\ UNCHANGED disk
    BY <1>9 DEF FinishFile, e
  <2>7. WorkInv' /\ PlaceReady'
    BY <1>0, <2>1, <2>6, AdvancedWork
  <2> QED
    BY <1>0, <2>3, <2>5, <2>6, <2>7 DEF TreeInv
<1>10. CASE FinishPack
  BY <1>0, <1>2, <1>10, PackedWork DEF memory
<1>11. CASE AddMember
  <2> DEFINE p == Head(todo).path
             e == FileEntry(p, Head(todo).chunks, Head(todo).offset)
  <2>1. todo # <<>> /\ Head(todo).kind = "member" /\ op = "adding"
    BY <1>11 DEF AddMember, AtItem
  <2>2. Head(todo) \in FileOfPack
    BY <1>0, <2>1, TailOfWork, ItemKinds
  <2>3. p \in Path /\ e \in Entry /\ e.path = p
    BY <2>2 DEF FileOfPack, FileEntry, Entry
  <2>4. CASE Abandon /\ UNCHANGED memory
    BY <1>1, <1>3, <2>4
  <2>5. CASE /\ ~HasFileAncestor(entries, p)
             /\ entries' = WithParents(entries, p)
             /\ Abandon
    BY <1>0, <1>1, <2>3, <2>5, WithParentsTree
  <2>6. CASE /\ ~HasFileAncestor(entries, p) /\ ~IsDirectory(entries, p)
             /\ entries' = Without(WithParents(entries, p), p) \cup {e}
             /\ todo' = Tail(todo)
             /\ UNCHANGED <<chunks, data, disk, op, fed, ops>>
    <3> DEFINE F == Without(WithParents(entries, p), p)
    <3>1. /\ F \in SUBSET Entry /\ WellFormedTree(F)
          /\ ParentsThere(F, p) /\ ~Exists(F, p)
      BY <1>0, <2>3, <2>6, PlaceForFile
    <3> HIDE DEF F, e
    <3>2. WellFormedTree(F \cup {e})
      BY <2>3, <3>1, AddEntryTree
    <3>3. entries' = F \cup {e}
      BY <2>6 DEF F
    <3>4. WorkInv' /\ PlaceReady'
      BY <1>0, <2>1, <2>6, AdvancedWork DEF WorkInv
    <3> QED
      BY <1>0, <2>3, <2>6, <3>1, <3>2, <3>3, <3>4 DEF TreeInv
  <2> QED
    BY <1>11, <2>4, <2>5, <2>6 DEF AddMember
<1>12. CASE SourceError \/ CompactFails
  BY <1>1, <1>3, <1>12 DEF SourceError, CompactFails
<1>13. CASE FinishAdd
  <2>1. op' = "sealing" /\ UNCHANGED <<entries, disk, todo, fed>>
    BY <1>13 DEF FinishAdd, memory
  <2> QED
    BY <1>0, <1>2, <2>1 DEF WorkInv, PlaceReady
<1>14. CASE DeleteName
  <2> DEFINE p == Head(todo).path
  <2>1. todo # <<>> /\ op = "deleting"
    BY <1>14 DEF DeleteName
  <2>2. Head(todo).kind = "name"
    BY <1>0, <2>1 DEF WorkInv
  <2>3. p \in Path
    BY <1>0, <2>1, <2>2, TailOfWork, ItemKinds DEF NameItem
  <2>4. CASE Abandon /\ UNCHANGED memory
    BY <1>1, <1>3, <2>4
  <2>5. CASE /\ entries' = IF IsFile(entries, p)
                           THEN Without(entries, p)
                           ELSE entries \ Subtree(entries, p)
             /\ todo' = Tail(todo)
             /\ UNCHANGED <<chunks, data, disk, op, fed, ops>>
    <3>1. entries' \in SUBSET Entry /\ WellFormedTree(entries')
      <4>1. entries' \subseteq entries
        BY <2>5 DEF Without
      <4>2. CASE IsFile(entries, p)
        BY <1>0, <2>3, <2>5, <4>1, <4>2, WithoutTree DEF IsDirectory
      <4>3. CASE ~IsFile(entries, p)
        BY <1>0, <2>3, <2>5, <4>1, <4>3, RemoveSubtreeTree
      <4> QED
        BY <4>2, <4>3
    <3>2. WorkInv' /\ PlaceReady'
      BY <1>0, <2>1, <2>5, AdvancedWork DEF WorkInv
    <3> QED
      BY <1>0, <2>5, <3>1, <3>2 DEF TreeInv
  <2> QED
    BY <1>14, <2>4, <2>5 DEF DeleteName
<1>15. CASE FinishDelete
  <2>1. op' = "sealing" /\ UNCHANGED <<entries, disk, todo, fed>>
    BY <1>15 DEF FinishDelete
  <2> QED
    BY <1>0, <1>2, <2>1 DEF WorkInv, PlaceReady
<1>16. ASSUME NEW from \in Path, NEW to \in Path, MoveEntry(from, to)
       PROVE  TreeInv'
  <2> DEFINE P == WithParents(entries, to)
             F == (P \ Subtree(P, from)) \cup Relocated(P, from, to)
  <2>1. Relocate(from, to, F)
    BY <1>16 DEF MoveEntry
  <2>2. /\ op = "idle" /\ op' = "sealing" /\ UNCHANGED <<disk, todo, fed>>
        /\ UNCHANGED entries \/ (from # to /\ CanRelocate(entries, from, to) /\ entries' = F)
    BY <2>1 DEF Relocate
  <2>3. entries' \in SUBSET Entry /\ WellFormedTree(entries')
    BY <1>0, <2>2, MoveTree
  <2>4. WorkInv' /\ PlaceReady'
    BY <1>0, <2>2 DEF WorkInv, PlaceReady
  <2> QED
    BY <1>0, <2>2, <2>3, <2>4 DEF TreeInv
<1>17. ASSUME NEW from \in Path, NEW to \in Path, CopyEntry(from, to)
       PROVE  TreeInv'
  <2> DEFINE P == WithParents(entries, to)
             F == P \cup Relocated(P, from, to)
  <2>1. Relocate(from, to, F)
    BY <1>17 DEF CopyEntry
  <2>2. /\ op = "idle" /\ op' = "sealing" /\ UNCHANGED <<disk, todo, fed>>
        /\ UNCHANGED entries \/ (from # to /\ CanRelocate(entries, from, to) /\ entries' = F)
    BY <2>1 DEF Relocate
  <2>3. entries' \in SUBSET Entry /\ WellFormedTree(entries')
    BY <1>0, <2>2, CopyTree
  <2>4. WorkInv' /\ PlaceReady'
    BY <1>0, <2>2 DEF WorkInv, PlaceReady
  <2> QED
    BY <1>0, <2>2, <2>3, <2>4 DEF TreeInv
<1>18. ASSUME NEW from \in Path, NEW leaf \in Name, RenameEntry(from, leaf)
       PROVE  TreeInv'
  <2>1. [from EXCEPT ![Len(from)] = leaf] \in Path
    <3>1. PICK n \in 1..MaxDepth : from \in [1..n -> Name]
      BY DEF Path
    <3> QED
      BY <3>1 DEF Path
  <2> QED
    BY <1>16, <1>18, <2>1 DEF RenameEntry
<1>19. CASE Seal
  <2>1. disk'.entries = entries /\ op' = "idle" /\ UNCHANGED <<entries, todo, fed>>
    BY <1>19 DEF Seal, Sealed, memory
  <2>2. WorkInv' /\ PlaceReady'
    BY <1>0, <2>1 DEF WorkInv, PlaceReady
  <2> QED
    BY <1>0, <2>1, <2>2 DEF TreeInv
<1>20. CASE SealFails
  BY <1>1, <1>3, <1>20 DEF SealFails
<1>21. CASE Reopen
  <2>1. entries' = disk.entries /\ disk' = disk /\ op' = "idle" /\ todo' = <<>> /\ fed' = 0
    BY <1>21 DEF Reopen
  <2>2. WorkInv' /\ PlaceReady'
    BY <2>1 DEF WorkInv, PlaceReady
  <2> QED
    BY <1>0, <2>1, <2>2 DEF TreeInv
<1>22. CASE UNCHANGED vars
  BY <1>0, <1>22 DEF vars, TreeInv, WorkInv, PlaceReady
<1> QED
  BY <1>4, <1>5, <1>6, <1>7, <1>8, <1>9, <1>10, <1>11, <1>12, <1>13, <1>14, <1>15,
     <1>16, <1>17, <1>18, <1>19, <1>20, <1>21, <1>22 DEF Next, Add, Delete

THEOREM SpecTree == Spec => []TreeInv
BY TreeInit, TreeStep, PTL DEF Spec

\* No sequence of operations, failed ones included, makes two entries of one
\* path or an entry that is not below directories of its own, in the memory of
\* the handle or in the file.
THEOREM TreeAlwaysWellFormed == Spec => []TreeWellFormed
<1>1. TreeInv => TreeWellFormed
  BY DEF TreeInv, TreeWellFormed, Stores, Sealed
<1> QED
  BY <1>1, SpecTree, PTL

-----------------------------------------------------------------------------
(* Ranks.  The place of an element of a finite set in the order of its     *)
(* distinct natural values.                                                *)

LEMMA RankOrder ==
  ASSUME NEW S, IsFiniteSet(S), NEW v \in [S -> Nat],
         \A x, y \in S : v[x] = v[y] => x = y,
         NEW r \in [S -> Nat],
         \A x \in S : r[x] = Cardinality({ y \in S : v[y] < v[x] })
  PROVE  /\ \A x, y \in S : v[x] < v[y] <=> r[x] < r[y]
         /\ \A x, y \in S : r[x] = r[y] => x = y
         /\ \A x \in S : r[x] < Cardinality(S)
<1> DEFINE Below(x) == { y \in S : v[y] < v[x] }
<1>1. \A x \in S : /\ IsFiniteSet(Below(x))
                   /\ Below(x) \in SUBSET S
                   /\ x \notin Below(x)
                   /\ r[x] = Cardinality(Below(x))
  BY FS_Subset
<1>2. ASSUME NEW x \in S, NEW y \in S, v[x] < v[y]
      PROVE  r[x] < r[y]
  <2>1. Below(x) \subseteq Below(y) /\ x \in Below(y) /\ x \notin Below(x)
    BY <1>2
  <2>2. Below(x) # Below(y)
    BY <2>1
  <2> HIDE DEF Below
  <2>3. Cardinality(Below(x)) <= Cardinality(Below(y))
        /\ Cardinality(Below(x)) # Cardinality(Below(y))
    BY <1>1, <2>1, <2>2, FS_Subset
  <2>4. /\ r[x] = Cardinality(Below(x)) /\ r[y] = Cardinality(Below(y))
        /\ r[x] \in Nat /\ r[y] \in Nat
    BY <1>1
  <2> QED
    BY <2>3, <2>4
<1>3. \A x, y \in S : v[x] < v[y] <=> r[x] < r[y]
  <2>1. \A x, y \in S : v[x] < v[y] \/ x = y \/ v[y] < v[x]
    OBVIOUS
  <2> QED
    BY <1>2, <2>1
<1>4. \A x, y \in S : r[x] = r[y] => x = y
  <2>1. \A x, y \in S : v[x] < v[y] \/ x = y \/ v[y] < v[x]
    OBVIOUS
  <2> QED
    BY <1>2, <2>1
<1>5. ASSUME NEW x \in S
      PROVE  r[x] < Cardinality(S)
  <2>1. Below(x) # S
    BY <1>1
  <2> HIDE DEF Below
  <2>2. Cardinality(Below(x)) <= Cardinality(S) /\ Cardinality(Below(x)) # Cardinality(S)
    BY <1>1, <2>1, FS_Subset
  <2>3. Cardinality(S) \in Nat
    BY FS_CardinalityType
  <2>4. r[x] = Cardinality(Below(x)) /\ r[x] \in Nat
    BY <1>1
  <2> QED
    BY <2>2, <2>3, <2>4
<1> QED
  BY <1>3, <1>4, <1>5

\* Every place below the number of elements is taken.
LEMMA RankOnto ==
  ASSUME NEW S, IsFiniteSet(S), NEW r \in [S -> Nat],
         \A x, y \in S : r[x] = r[y] => x = y,
         \A x \in S : r[x] < Cardinality(S),
         NEW k \in 1..Cardinality(S)
  PROVE  \E x \in S : r[x] = k - 1
<1> SUFFICES ASSUME \A x \in S : r[x] # k - 1
             PROVE  FALSE
  OBVIOUS
<1> DEFINE n == Cardinality(S)
           T == (0..(n - 1)) \ {k - 1}
<1>1. n \in Nat
  BY FS_CardinalityType
<1> HIDE DEF n
<1>2. IsFiniteSet(0..(n - 1)) /\ Cardinality(0..(n - 1)) = n
  BY <1>1, FS_Interval
<1>3. k - 1 \in 0..(n - 1)
  BY <1>1 DEF n
<1>4. IsFiniteSet(T) /\ Cardinality(T) = n - 1
  BY <1>2, <1>3, FS_RemoveElement, ZenonT(30)
<1>5. r \in [S -> T]
  BY <1>1 DEF n
<1> HIDE DEF T
<1>6. \E x, y \in S : x # y /\ r[x] = r[y]
  BY <1>1, <1>4, <1>5, FS_PigeonHole DEF n
<1> QED
  BY <1>6

-----------------------------------------------------------------------------
(* Ingestion.                                                              *)

\* The index handed out next is larger than that of every block stored, although
\* it is computed from the records that are left after deletions.
LEMMA NextIndexFresh ==
  ASSUME IsStore(Sealed), ConsistentStore(Sealed)
  PROVE  /\ NextBlockIndex \in Nat
         /\ \A k \in 1..Len(data) : data[k].aad < NextBlockIndex
<1>1. /\ data \in Seq(Block) /\ Len(data) \in Nat /\ DOMAIN data = 1..Len(data)
      /\ \A c \in DOMAIN chunks : chunks[c] \in Record
      /\ \A k \in 1..Len(data) : data[k] \in Block
  BY DEF IsStore, Sealed
<1>2. \A c \in DOMAIN chunks :
         /\ chunks[c].block_index \in Nat
         /\ chunks[c].data_offset + 1 \in 1..Len(data)
         /\ data[chunks[c].data_offset + 1].aad = chunks[c].block_index
  <2> SUFFICES ASSUME NEW c \in DOMAIN chunks
               PROVE  /\ chunks[c].block_index \in Nat
                      /\ chunks[c].data_offset + 1 \in 1..Len(data)
                      /\ data[chunks[c].data_offset + 1].aad = chunks[c].block_index
    OBVIOUS
  <2>1. chunks[c].block_index \in Nat
    BY <1>1 DEF Record
  <2>2. /\ chunks[c].data_offset + 1 \in DOMAIN data
        /\ data[chunks[c].data_offset + 1] = [id |-> c, aad |-> chunks[c].block_index]
    BY DEF ConsistentStore, RecordsFindTheirBlocks, Sealed
  <2> QED
    BY <1>1, <2>1, <2>2
<1>3. \A k \in 1..Len(data) :
         /\ data[k].aad \in Nat
         /\ data[k].id \in DOMAIN chunks
         /\ chunks[data[k].id].block_index = data[k].aad
  <2> SUFFICES ASSUME NEW k \in 1..Len(data)
               PROVE  /\ data[k].aad \in Nat
                      /\ data[k].id \in DOMAIN chunks
                      /\ chunks[data[k].id].block_index = data[k].aad
    OBVIOUS
  <2>1. data[k].id \in DOMAIN chunks /\ chunks[data[k].id].data_offset = k - 1
    BY <1>1 DEF ConsistentStore, BlocksHaveRecords, Sealed
  <2>2. data[k].aad \in Nat
    BY <1>1 DEF Block
  <2> QED
    BY <1>2, <2>1, <2>2
<1>4. CASE DOMAIN chunks = {}
  BY <1>3, <1>4 DEF NextBlockIndex
<1>5. CASE DOMAIN chunks # {}
  <2> DEFINE n == Len(data)
             I == { chunks[c].block_index : c \in DOMAIN chunks }
  <2>1. n \in 1..Len(data)
    BY <1>1, <1>2, <1>5
  <2>2. data[n].aad \in I
    BY <1>3, <2>1
  <2>3. \A i \in 1..n : data[i].aad <= data[n].aad
    BY <1>1, <1>3, <2>1 DEF ConsistentStore, BlockIndicesAscend, Sealed
  <2>4. \A i \in I : i \in Nat /\ i <= data[n].aad
    BY <1>2, <2>3
  <2> HIDE DEF I
  <2>5. Max(I) = data[n].aad
    <3>1. \A y \in I : data[n].aad >= y
      BY <2>4
    <3>2. Max(I) \in I /\ \A y \in I : Max(I) >= y
      BY <2>2, <3>1 DEF Max
    <3> QED
      BY <2>2, <2>4, <3>2
  <2>6. NextBlockIndex = 1 + data[n].aad
    BY <1>5, <2>5 DEF NextBlockIndex, I
  <2> QED
    BY <1>3, <2>1, <2>3, <2>6
<1> QED
  BY <1>4, <1>5

\* Ingesting a chunk keeps every record and adds one that finds its block.
LEMMA IngestStore ==
  ASSUME IsStore(Sealed), ConsistentStore(Sealed), NEW c \in Chunk,
         IngestChunk(c), UNCHANGED entries
  PROVE  /\ IsStore(Sealed)' /\ ConsistentStore(Sealed)'
         /\ DOMAIN chunks' = DOMAIN chunks \cup {c}
<1>1. CASE c \in DOMAIN chunks
  <2>1. UNCHANGED <<chunks, data>>
    BY <1>1 DEF IngestChunk
  <2>2. Sealed' = Sealed
    BY <2>1 DEF Sealed
  <2> QED
    BY <1>1, <2>1, <2>2
<1>2. CASE c \notin DOMAIN chunks
  <2> DEFINE i == NextBlockIndex
             r == [block_index |-> i, data_offset |-> Len(data)]
             b == [id |-> c, aad |-> i]
             n == Len(data)
  <2>1. /\ data \in Seq(Block) /\ n \in Nat /\ DOMAIN data = 1..n
        /\ \A d \in DOMAIN chunks : chunks[d] \in Record /\ d \in Chunk
        /\ entries \subseteq Entry
    BY DEF IsStore, Sealed
  <2>2. i \in Nat /\ \A k \in 1..n : data[k].aad < i
    BY NextIndexFresh
  <2>3. /\ chunks' = [d \in DOMAIN chunks \cup {c} |-> IF d = c THEN r ELSE chunks[d]]
        /\ data' = Append(data, b)
    BY <1>2 DEF IngestChunk
  <2> HIDE DEF i
  <2>4. r \in Record /\ b \in Block
    BY <2>1, <2>2 DEF Record, Block
  <2>5. /\ DOMAIN chunks' = DOMAIN chunks \cup {c}
        /\ chunks'[c] = r
        /\ \A d \in DOMAIN chunks : chunks'[d] = chunks[d]
    BY <1>2, <2>3
  <2>6. /\ data' \in Seq(Block) /\ Len(data') = n + 1 /\ DOMAIN data' = 1..(n + 1)
        /\ data'[n + 1] = b
        /\ \A k \in 1..n : data'[k] = data[k]
    BY <2>1, <2>3, <2>4
  <2>7. chunks' \in [DOMAIN chunks' -> Record]
    BY <2>1, <2>3, <2>4
  <2>8. IsStore(Sealed)'
    BY <2>1, <2>5, <2>6, <2>7 DEF IsStore, Sealed
  <2>9. /\ \A d \in DOMAIN chunks :
              /\ chunks[d].data_offset + 1 \in 1..n
              /\ data[chunks[d].data_offset + 1] = [id |-> d, aad |-> chunks[d].block_index]
        /\ \A k \in 1..n : data[k].id \in DOMAIN chunks /\ chunks[data[k].id].data_offset = k - 1
        /\ \A j, k \in 1..n : j < k => data[j].aad < data[k].aad
    BY <2>1 DEF ConsistentStore, RecordsFindTheirBlocks, BlocksHaveRecords, BlockIndicesAscend,
                Sealed
  <2>10. RecordsFindTheirBlocks(Sealed)'
    <3>1. ASSUME NEW d \in DOMAIN chunks'
          PROVE  /\ chunks'[d].data_offset + 1 \in DOMAIN data'
                 /\ data'[chunks'[d].data_offset + 1] = [id |-> d, aad |-> chunks'[d].block_index]
      <4>1. CASE d = c
        BY <2>1, <2>5, <2>6, <4>1
      <4>2. CASE d \in DOMAIN chunks
        BY <2>1, <2>5, <2>6, <2>9, <4>2
      <4> QED
        BY <2>5, <4>1, <4>2
    <3> QED
      BY <3>1 DEF RecordsFindTheirBlocks, Sealed
  <2>11. BlocksHaveRecords(Sealed)'
    <3>1. ASSUME NEW k \in DOMAIN data'
          PROVE  data'[k].id \in DOMAIN chunks' /\ chunks'[data'[k].id].data_offset = k - 1
      <4>1. CASE k = n + 1
        BY <2>1, <2>5, <2>6, <4>1
      <4>2. CASE k \in 1..n
        BY <2>5, <2>6, <2>9, <4>2
      <4> QED
        BY <2>1, <2>6, <4>1, <4>2
    <3> QED
      BY <3>1 DEF BlocksHaveRecords, Sealed
  <2>12. BlockIndicesAscend(Sealed)'
    <3>1. ASSUME NEW j \in DOMAIN data', NEW k \in DOMAIN data', j < k
          PROVE  data'[j].aad < data'[k].aad
      <4>1. j \in 1..n
        BY <2>1, <2>6, <3>1
      <4>2. CASE k = n + 1
        BY <2>2, <2>6, <4>1, <4>2
      <4>3. CASE k \in 1..n
        BY <2>6, <2>9, <3>1, <4>1, <4>3
      <4> QED
        BY <2>1, <2>6, <4>2, <4>3
    <3> QED
      BY <3>1 DEF BlockIndicesAscend, Sealed
  <2> QED
    BY <2>5, <2>8, <2>10, <2>11, <2>12 DEF ConsistentStore
<1> QED
  BY <1>1, <1>2

-----------------------------------------------------------------------------
(* Compaction.                                                             *)

\* Compaction keeps exactly the live chunks, each with its block, in index order.
LEMMA CompactStore ==
  ASSUME IsStore(Sealed), ConsistentStore(Sealed), CompactLiveChunks, UNCHANGED entries
  PROVE  /\ IsStore(Sealed)' /\ ConsistentStore(Sealed)'
         /\ DOMAIN chunks' = LiveChunks
<1> DEFINE L == LiveChunks
           n == Cardinality(L)
           v == [c \in L |-> chunks[c].block_index]
           r == [c \in L |-> Rank(c)]
           At(k) == CHOOSE c \in L : Rank(c) = k - 1
<1>1. L \subseteq DOMAIN chunks /\ L \subseteq Chunk /\ IsFiniteSet(L) /\ n \in Nat
  <2>1. L \subseteq DOMAIN chunks /\ DOMAIN chunks \subseteq Chunk
    BY DEF LiveChunks, IsStore, Sealed
  <2> HIDE DEF L
  <2>2. IsFiniteSet(L)
    BY <2>1, ChunkAssumption, FS_Subset
  <2> QED
    BY <2>1, <2>2, FS_CardinalityType
<1> HIDE DEF L
<1>2. \A c \in L :
         /\ chunks[c] \in Record
         /\ chunks[c].block_index \in Nat
         /\ chunks[c].data_offset \in Nat
         /\ chunks[c].data_offset + 1 \in DOMAIN data
         /\ data[chunks[c].data_offset + 1] = [id |-> c, aad |-> chunks[c].block_index]
  <2> SUFFICES ASSUME NEW c \in L
               PROVE  /\ chunks[c] \in Record
                      /\ chunks[c].block_index \in Nat
                      /\ chunks[c].data_offset \in Nat
                      /\ chunks[c].data_offset + 1 \in DOMAIN data
                      /\ data[chunks[c].data_offset + 1] = [id |-> c, aad |-> chunks[c].block_index]
    OBVIOUS
  <2>1. c \in DOMAIN chunks
    BY <1>1
  <2>2. chunks[c] \in Record
    BY <2>1 DEF IsStore, Sealed
  <2> QED
    BY <2>1, <2>2 DEF ConsistentStore, RecordsFindTheirBlocks, Sealed, Record
<1>3. ASSUME NEW c \in L, NEW d \in L, chunks[c].block_index = chunks[d].block_index
      PROVE  c = d
  <2> DEFINE j == chunks[c].data_offset + 1
             k == chunks[d].data_offset + 1
  <2>1. /\ j \in DOMAIN data /\ j \in Nat
        /\ data[j] = [id |-> c, aad |-> chunks[c].block_index]
    BY <1>2
  <2>2. /\ k \in DOMAIN data /\ k \in Nat
        /\ data[k] = [id |-> d, aad |-> chunks[d].block_index]
        /\ chunks[d].block_index \in Nat
    BY <1>2
  <2> HIDE DEF j, k
  <2>3. ~(j < k) /\ ~(k < j)
    BY <1>3, <2>1, <2>2 DEF ConsistentStore, BlockIndicesAscend, Sealed
  <2>4. j = k
    BY <2>1, <2>2, <2>3
  <2> QED
    BY <2>1, <2>2, <2>4
<1>4. \A c \in L : Rank(c) \in Nat /\ Rank(c) = Cardinality({ d \in L : v[d] < v[c] })
  <2> SUFFICES ASSUME NEW c \in L
               PROVE  Rank(c) \in Nat /\ Rank(c) = Cardinality({ d \in L : v[d] < v[c] })
    OBVIOUS
  <2> DEFINE B == { d \in L : chunks[d].block_index < chunks[c].block_index }
  <2>1. B = { d \in L : v[d] < v[c] }
    OBVIOUS
  <2>2. Rank(c) = Cardinality(B)
    BY DEF Rank, L
  <2>3. B \in SUBSET L
    OBVIOUS
  <2> HIDE DEF B
  <2>4. Cardinality(B) \in Nat
    BY <1>1, <2>3, FS_Subset, FS_CardinalityType
  <2> QED
    BY <2>1, <2>2, <2>4
<1>5. /\ v \in [L -> Nat] /\ r \in [L -> Nat]
      /\ \A c \in L : v[c] = chunks[c].block_index /\ r[c] = Rank(c)
      /\ \A c, d \in L : v[c] = v[d] => c = d
      /\ \A c \in L : r[c] = Cardinality({ d \in L : v[d] < v[c] })
  BY <1>2, <1>3, <1>4
<1> HIDE DEF v, r
<1>6. /\ \A c, d \in L : v[c] < v[d] <=> r[c] < r[d]
      /\ \A c, d \in L : r[c] = r[d] => c = d
      /\ \A c \in L : r[c] < n
  BY <1>1, <1>5, RankOrder
<1>7. \A k \in 1..n : \E c \in L : r[c] = k - 1
  BY <1>1, <1>5, <1>6, RankOnto
<1>8. \A k \in 1..n : At(k) \in L /\ r[At(k)] = k - 1
  BY <1>5, <1>7
<1>9. /\ chunks' = [c \in L |-> [chunks[c] EXCEPT !.data_offset = r[c]]]
       /\ data' = [k \in 1..n |-> data[chunks[At(k)].data_offset + 1]]
  BY <1>5 DEF CompactLiveChunks, L
<1> HIDE DEF At
<1>10. \A c \in L : r[c] + 1 \in 1..n /\ At(r[c] + 1) = c
  <2> SUFFICES ASSUME NEW c \in L
               PROVE  r[c] + 1 \in 1..n /\ At(r[c] + 1) = c
    OBVIOUS
  <2>1. r[c] \in Nat /\ r[c] + 1 \in 1..n
    BY <1>1, <1>5, <1>6
  <2>2. At(r[c] + 1) \in L /\ r[At(r[c] + 1)] = r[c]
    BY <1>8, <2>1
  <2> QED
    BY <1>6, <2>1, <2>2
<1>11. /\ DOMAIN chunks' = L
       /\ \A c \in L : /\ chunks'[c] \in Record
                       /\ chunks'[c].data_offset = r[c]
                       /\ chunks'[c].block_index = v[c]
  BY <1>2, <1>5, <1>9 DEF Record
<1>12. /\ DOMAIN data' = 1..n
       /\ \A k \in 1..n : data'[k] = [id |-> At(k), aad |-> v[At(k)]]
  BY <1>2, <1>5, <1>8, <1>9
<1>13. data' \in Seq(Block)
  <2>1. \A k \in 1..n : data'[k] \in Block
    BY <1>1, <1>5, <1>8, <1>12 DEF Block
  <2>2. data' \in [1..n -> Block]
    BY <1>9, <1>12, <2>1
  <2> QED
    BY <1>1, <2>2, FunctionIsSeq
<1>14. IsStore(Sealed)'
  <2>1. chunks' \in [DOMAIN chunks' -> Record]
    BY <1>9, <1>11
  <2>2. entries' \subseteq Entry
    BY DEF IsStore, Sealed
  <2> QED
    BY <1>1, <1>11, <1>13, <2>1, <2>2 DEF IsStore, Sealed
<1>15. RecordsFindTheirBlocks(Sealed)'
  <2>1. ASSUME NEW c \in DOMAIN chunks'
        PROVE  /\ chunks'[c].data_offset + 1 \in DOMAIN data'
               /\ data'[chunks'[c].data_offset + 1] = [id |-> c, aad |-> chunks'[c].block_index]
    BY <1>10, <1>11, <1>12
  <2> QED
    BY <2>1 DEF RecordsFindTheirBlocks, Sealed
<1>16. BlocksHaveRecords(Sealed)'
  <2>1. ASSUME NEW k \in DOMAIN data'
        PROVE  data'[k].id \in DOMAIN chunks' /\ chunks'[data'[k].id].data_offset = k - 1
    BY <1>8, <1>11, <1>12
  <2> QED
    BY <2>1 DEF BlocksHaveRecords, Sealed
<1>17. BlockIndicesAscend(Sealed)'
  <2>1. ASSUME NEW j \in DOMAIN data', NEW k \in DOMAIN data', j < k
        PROVE  data'[j].aad < data'[k].aad
    <3>1. r[At(j)] < r[At(k)] /\ At(j) \in L /\ At(k) \in L
      BY <1>1, <1>8, <1>12, <2>1
    <3>2. v[At(j)] < v[At(k)]
      BY <1>6, <3>1
    <3> QED
      BY <1>12, <3>2
  <2> QED
    BY <2>1 DEF BlockIndicesAscend, Sealed
<1> QED
  BY <1>11, <1>14, <1>15, <1>16, <1>17 DEF ConsistentStore, L

-----------------------------------------------------------------------------
(* The store invariant.                                                    *)

\* Every chunk that an entry of E lists is one of C.
ListedIn(E, C) == \A e \in E : \A i \in DOMAIN e.chunks : e.chunks[i] \in C

\* The chunks of the running operation that the store already has: those of a
\* source up to the point it has streamed to, and all those of a pack's members.
WorkPresent ==
  /\ op = "streaming" => \A j \in 1..fed : Head(todo).chunks[j] \in DOMAIN chunks
  /\ \A i \in 1..Len(todo) :
       todo[i].kind = "member" =>
         \A j \in DOMAIN todo[i].chunks : todo[i].chunks[j] \in DOMAIN chunks

StoreInv ==
  /\ IsStore(Sealed) /\ IsStore(disk)
  /\ ConsistentStore(Sealed) /\ ConsistentStore(disk)
  /\ ListedIn(entries, DOMAIN chunks) /\ ListedIn(disk.entries, DOMAIN disk.chunks)
  /\ WorkPresent
  /\ disk = [entries |-> disk.entries, chunks |-> disk.chunks, data |-> disk.data]
  /\ ops \in 0..MaxOps

\* The edits of the tree list no chunk that the tree did not list.
NoNewChunks(E, F) ==
  \A f \in F : DOMAIN f.chunks = {} \/ \E e \in E : e.chunks = f.chunks

LEMMA ListedStays ==
  ASSUME NEW E, NEW F, NEW C, NoNewChunks(E, F), ListedIn(E, C)
  PROVE  ListedIn(F, C)
BY DEF NoNewChunks, ListedIn

LEMMA TreeEditsChunks ==
  ASSUME NEW E, NEW p, NEW from, NEW to
  PROVE  /\ NoNewChunks(E, WithParents(E, p))
         /\ NoNewChunks(E, WithDirectory(E, p))
         /\ NoNewChunks(E, Without(WithParents(E, p), p))
         /\ NoNewChunks(E, Without(E, p))
         /\ NoNewChunks(E, E \ Subtree(E, p))
<1>1. DOMAIN DirEntry(p).chunks = {} /\ \A q \in Path : DOMAIN DirEntry(q).chunks = {}
  <2>1. \A q : DirEntry(q).chunks = <<>>
    BY DEF DirEntry
  <2>2. DOMAIN <<>> = {}
    OBVIOUS
  <2> QED
    BY <2>1, <2>2
<1>2. NoNewChunks(E, WithParents(E, p))
  BY <1>1 DEF NoNewChunks, WithParents, MissingAncestors
<1>3. NoNewChunks(E, WithDirectory(E, p))
  BY <1>1, <1>2 DEF NoNewChunks, WithDirectory
<1>4. NoNewChunks(E, Without(WithParents(E, p), p))
  BY <1>2 DEF NoNewChunks, Without
<1> QED
  BY <1>2, <1>3, <1>4 DEF NoNewChunks, Without

\* Moving and copying carry the chunk lists along.
LEMMA RelocationChunks ==
  ASSUME NEW E \in SUBSET Entry, NEW from \in Path, NEW to \in Path
  PROVE  LET P == WithParents(E, to)
         IN /\ NoNewChunks(E, P \cup Relocated(P, from, to))
            /\ NoNewChunks(E, (P \ Subtree(P, from)) \cup Relocated(P, from, to))
<1> DEFINE P == WithParents(E, to)
           R == Relocated(P, from, to)
<1>1. NoNewChunks(E, P)
  BY TreeEditsChunks
<1>2. P \subseteq Entry
  <2>1. \A q \in MissingAncestors(E, to) : q \in Path
    BY DEF MissingAncestors
  <2>2. \A q \in Path : DirEntry(q) \in Entry
    BY DEF DirEntry, Entry
  <2> QED
    BY <2>1, <2>2 DEF WithParents
<1> HIDE DEF P
<1>3. ASSUME NEW f \in R
      PROVE  \E e \in P : e.chunks = f.chunks
  <2>1. PICK e \in Subtree(P, from) : f = [e EXCEPT !.path = RemapEntryPath(e.path, from, to)]
    BY DEF Relocated
  <2>2. e \in P /\ e \in Entry
    BY <1>2, <2>1 DEF Subtree
  <2>3. f.chunks = e.chunks
    BY <2>1, <2>2 DEF Entry
  <2> QED
    BY <2>2, <2>3
<1> HIDE DEF R
<1> QED
  BY <1>1, <1>3 DEF NoNewChunks, P, R

LEMMA StoreInit == Init => StoreInv
<1> SUFFICES ASSUME Init PROVE StoreInv
  OBVIOUS
<1>1. /\ entries = {} /\ chunks = <<>> /\ data = <<>> /\ disk = Sealed
      /\ op = "idle" /\ todo = <<>> /\ ops = 0
  BY DEF Init
<1>2. <<>> \in Seq(Block) /\ DOMAIN <<>> = {} /\ Len(<<>>) = 0 /\ <<>> \in [DOMAIN <<>> -> Record]
  OBVIOUS
<1>3. IsStore(Sealed)
  BY <1>1, <1>2 DEF IsStore, Sealed
<1>4. ConsistentStore(Sealed)
  BY <1>1, <1>2 DEF ConsistentStore, RecordsFindTheirBlocks, BlocksHaveRecords,
                    BlockIndicesAscend, Sealed
<1>5. disk.entries = {} /\ disk = [entries |-> disk.entries, chunks |-> disk.chunks, data |-> disk.data]
  BY <1>1 DEF Sealed
<1>6. ListedIn(entries, DOMAIN chunks) /\ ListedIn(disk.entries, DOMAIN disk.chunks)
  BY <1>1, <1>5 DEF ListedIn
<1>7. WorkPresent
  BY <1>1, <1>2 DEF WorkPresent
<1> QED
  BY <1>1, <1>3, <1>4, <1>5, <1>6, <1>7, BoundAssumption DEF StoreInv

\* A step of an operation keeps the store.
LEMMA StoreStep == TreeInv /\ TreeInv' /\ StoreInv /\ [Next]_vars => StoreInv'
<1> SUFFICES ASSUME TreeInv, TreeInv', StoreInv, [Next]_vars
             PROVE  StoreInv'
  OBVIOUS
<1>0. /\ entries \in SUBSET Entry /\ entries' \in SUBSET Entry
      /\ WorkInv
      /\ IsStore(Sealed) /\ ConsistentStore(Sealed)
      /\ ListedIn(entries, DOMAIN chunks)
      /\ WorkPresent
      /\ ops \in 0..MaxOps
  BY DEF TreeInv, StoreInv
<1>1. ASSUME UNCHANGED <<chunks, data, disk>>, ListedIn(entries', DOMAIN chunks),
             WorkPresent', ops' \in 0..MaxOps
      PROVE  StoreInv'
  <2>1. IsStore(Sealed)'
    BY <1>0, <1>1 DEF IsStore, Sealed
  <2>2. ConsistentStore(Sealed)'
    BY <1>0, <1>1 DEF ConsistentStore, RecordsFindTheirBlocks, BlocksHaveRecords,
                      BlockIndicesAscend, Sealed
  <2> QED
    BY <1>1, <2>1, <2>2 DEF StoreInv
<1>2. ASSUME Abandon
      PROVE  WorkPresent' /\ ops' \in 0..MaxOps /\ UNCHANGED disk
  <2>1. op' = "idle" /\ todo' = <<>> /\ UNCHANGED <<disk, ops>> /\ Len(<<>>) = 0
    BY <1>2 DEF Abandon
  <2> QED
    BY <1>0, <2>1 DEF WorkPresent
<1>3. ASSUME todo # <<>>, todo' = Tail(todo), op' # "streaming", UNCHANGED chunks
      PROVE  WorkPresent'
  <2>1. \A i \in 1..Len(Tail(todo)) : Tail(todo)[i] = todo[i + 1] /\ i + 1 \in 1..Len(todo)
    BY <1>0, <1>3, TailOfWork
  <2> QED
    BY <1>0, <1>3, <2>1 DEF WorkPresent
<1>4. ASSUME UNCHANGED <<memory, disk, todo>>, op' # "streaming", ops' \in 0..MaxOps
      PROVE  StoreInv'
  BY <1>0, <1>1, <1>4 DEF memory, WorkPresent
<1>5. ASSUME Abandon, UNCHANGED memory
      PROVE  StoreInv'
  BY <1>0, <1>1, <1>2, <1>5 DEF memory
<1>6. CASE BeginAdd \/ BeginDelete
  <2>1. PICK job \in AddJobs \cup DeleteJobs :
          /\ UNCHANGED <<memory, disk>> /\ todo' = job /\ op' # "streaming"
          /\ ops < MaxOps /\ ops' = ops + 1
    BY <1>6 DEF BeginAdd, BeginDelete, Begin
  <2>2. \A i \in 1..Len(job) : job[i].kind # "member"
    <3>1. job \in Seq(DirItem \cup FileItem \cup PackItem) \/ job \in Seq(NameItem)
      BY JobAssumption
    <3>2. \A i \in 1..Len(job) :
            job[i] \in DirItem \cup FileItem \cup PackItem \/ job[i] \in NameItem
      BY <3>1
    <3> QED
      BY <3>2 DEF DirItem, FileItem, PackItem, NameItem
  <2>3. WorkPresent'
    BY <2>1, <2>2 DEF WorkPresent
  <2>4. ops' \in 0..MaxOps
    BY <1>0, <2>1, BoundAssumption
  <2> QED
    BY <1>0, <1>1, <2>1, <2>3, <2>4 DEF memory
<1>7. CASE CreateDirectory
  <2>1. CASE Abandon /\ UNCHANGED memory
    BY <1>5, <2>1
  <2>2. CASE /\ entries' = WithDirectory(entries, Head(todo).path)
             /\ todo' = Tail(todo)
             /\ UNCHANGED <<chunks, data, disk, op, fed, ops>>
    <3>1. ListedIn(entries', DOMAIN chunks)
      BY <1>0, <2>2, TreeEditsChunks, ListedStays
    <3>2. todo # <<>> /\ op = "adding"
      BY <1>7 DEF CreateDirectory, AtItem
    <3> QED
      BY <1>0, <1>1, <1>3, <2>2, <3>1, <3>2
  <2> QED
    BY <1>7, <2>1, <2>2 DEF CreateDirectory
<1>8. CASE BeginFile
  <2>1. CASE Abandon /\ UNCHANGED memory
    BY <1>5, <2>1
  <2>2. CASE /\ entries' = WithParents(entries, Head(todo).path)
             /\ Abandon
             /\ UNCHANGED <<chunks, data>>
    <3>1. ListedIn(entries', DOMAIN chunks)
      BY <1>0, <2>2, TreeEditsChunks, ListedStays
    <3> QED
      BY <1>1, <1>2, <2>2, <3>1
  <2>3. CASE /\ entries' = Without(WithParents(entries, Head(todo).path), Head(todo).path)
             /\ fed' = 0
             /\ UNCHANGED <<chunks, data, disk, todo, ops>>
    <3>1. ListedIn(entries', DOMAIN chunks)
      BY <1>0, <2>3, TreeEditsChunks, ListedStays
    <3>2. WorkPresent'
      BY <1>0, <2>3 DEF WorkPresent
    <3> QED
      BY <1>0, <1>1, <2>3, <3>1, <3>2
  <2> QED
    BY <1>8, <2>1, <2>2, <2>3 DEF BeginFile
<1>9. CASE BeginPack
  <2>1. UNCHANGED <<entries, chunks, data, disk, todo, ops>> /\ fed' = 0
    BY <1>9 DEF BeginPack, memory
  <2>2. WorkPresent'
    BY <1>0, <2>1 DEF WorkPresent
  <2> QED
    BY <1>0, <1>1, <2>1, <2>2
<1>10. CASE Stream
  <2> DEFINE c == Head(todo).chunks[fed + 1]
  <2>1. /\ op = "streaming" /\ fed < Len(Head(todo).chunks) /\ fed' = fed + 1
        /\ IngestChunk(c)
        /\ UNCHANGED <<entries, disk, op, todo, ops>>
    BY <1>10 DEF Stream
  <2>2. Head(todo).chunks \in Seq(Chunk) /\ fed \in Nat
    BY <1>0, <2>1, TailOfWork, ItemKinds DEF WorkInv, FileItem, PackItem
  <2>3. c \in Chunk
    BY <2>1, <2>2
  <2> HIDE DEF c
  <2>4. /\ IsStore(Sealed)' /\ ConsistentStore(Sealed)'
        /\ DOMAIN chunks' = DOMAIN chunks \cup {c}
    BY <1>0, <2>1, <2>3, IngestStore
  <2>5. ListedIn(entries', DOMAIN chunks')
    BY <1>0, <2>1, <2>4 DEF ListedIn
  <2>6. WorkPresent'
    <3>1. \A j \in 1..(fed + 1) : Head(todo).chunks[j] \in DOMAIN chunks \cup {c}
      BY <1>0, <2>1, <2>2 DEF WorkPresent, c
    <3> QED
      BY <1>0, <2>1, <2>4, <3>1 DEF WorkPresent
  <2> QED
    BY <2>1, <2>4, <2>5, <2>6 DEF StoreInv
<1>11. CASE FinishFile
  <2> DEFINE e == FileEntry(Head(todo).path, Head(todo).chunks, 0)
  <2>1. /\ op = "streaming" /\ Head(todo).kind = "file" /\ todo # <<>>
        /\ fed = Len(Head(todo).chunks)
        /\ entries' = entries \cup {e} /\ todo' = Tail(todo) /\ op' = "adding"
        /\ UNCHANGED <<chunks, data, disk, ops>>
    BY <1>0, <1>11 DEF FinishFile, Streamed, WorkInv
  <2>2. Head(todo).chunks \in Seq(Chunk)
    BY <1>0, <2>1, TailOfWork, ItemKinds DEF FileItem
  <2>3. e.chunks = Head(todo).chunks /\ DOMAIN e.chunks = 1..fed
    BY <2>1, <2>2 DEF FileEntry
  <2>4. \A j \in DOMAIN e.chunks : e.chunks[j] \in DOMAIN chunks
    BY <1>0, <2>1, <2>3 DEF WorkPresent
  <2> HIDE DEF e
  <2>5. ListedIn(entries', DOMAIN chunks)
    BY <1>0, <2>1, <2>4 DEF ListedIn
  <2> QED
    BY <1>0, <1>1, <1>3, <2>1, <2>5
<1>12. CASE FinishPack
  <2> DEFINE pack  == Head(todo)
             items == MemberItems(pack)
             rest  == Tail(todo)
  <2>1. /\ op = "streaming" /\ pack.kind = "pack" /\ todo # <<>>
        /\ fed = Len(pack.chunks)
        /\ todo' = items \o rest /\ op' = "adding"
        /\ UNCHANGED <<entries, chunks, data, disk, ops>>
    BY <1>0, <1>12 DEF FinishPack, Streamed, WorkInv, memory
  <2>2. pack \in PackItem /\ Covered(pack)
    BY <1>0, <2>1, TailOfWork, ItemKinds
  <2>3. /\ items \in Seq(FileOfPack)
        /\ \A m \in 1..Len(items) : \A j \in DOMAIN items[m].chunks :
             \E i \in 1..Len(pack.chunks) : items[m].chunks[j] = pack.chunks[i]
    BY <2>2, MembersAreItems
  <2>4. \A i \in 1..Len(pack.chunks) : pack.chunks[i] \in DOMAIN chunks
    BY <1>0, <2>1 DEF WorkPresent
  <2> HIDE DEF items
  <2>5. \A m \in 1..Len(items) : \A j \in DOMAIN items[m].chunks :
          items[m].chunks[j] \in DOMAIN chunks
    BY <2>3, <2>4
  <2>6. /\ rest \in Seq(Item)
        /\ \A i \in 1..Len(rest) : rest[i] = todo[i + 1] /\ i + 1 \in 1..Len(todo)
    BY <1>0, <2>1, TailOfWork
  <2>7. \A i \in 1..Len(rest) : rest[i].kind = "member" =>
          \A j \in DOMAIN rest[i].chunks : rest[i].chunks[j] \in DOMAIN chunks
    BY <1>0, <2>6 DEF WorkPresent
  <2> HIDE DEF rest, pack
  <2>8. /\ Len(items \o rest) = Len(items) + Len(rest)
        /\ \A i \in 1..Len(items) + Len(rest) :
             (items \o rest)[i] = IF i <= Len(items) THEN items[i] ELSE rest[i - Len(items)]
        /\ Len(items) \in Nat /\ Len(rest) \in Nat
    <3>1. items \in Seq(Item)
      BY <2>3, SeqMonotonic DEF Item
    <3> QED
      BY <2>6, <3>1, ConcatProperties
  <2>9. ASSUME NEW i \in 1..Len(items \o rest), (items \o rest)[i].kind = "member",
               NEW j \in DOMAIN (items \o rest)[i].chunks
        PROVE  (items \o rest)[i].chunks[j] \in DOMAIN chunks
    <3>1. CASE i <= Len(items)
      <4>1. (items \o rest)[i] = items[i] /\ i \in 1..Len(items)
        BY <2>8, <3>1
      <4> QED
        BY <2>5, <2>9, <4>1
    <3>2. CASE ~(i <= Len(items))
      <4>1. (items \o rest)[i] = rest[i - Len(items)] /\ i - Len(items) \in 1..Len(rest)
        BY <2>8, <3>2
      <4> QED
        BY <2>7, <2>9, <4>1
    <3> QED
      BY <3>1, <3>2
  <2>10. WorkPresent'
    BY <2>1, <2>9 DEF WorkPresent
  <2> QED
    BY <1>0, <1>1, <2>1, <2>10
<1>13. CASE AddMember
  <2> DEFINE p == Head(todo).path
             e == FileEntry(p, Head(todo).chunks, Head(todo).offset)
  <2>1. todo # <<>> /\ Head(todo).kind = "member" /\ op = "adding"
    BY <1>13 DEF AddMember, AtItem
  <2>2. CASE Abandon /\ UNCHANGED memory
    BY <1>5, <2>2
  <2>3. CASE /\ entries' = WithParents(entries, p)
             /\ Abandon
             /\ UNCHANGED <<chunks, data>>
    <3>1. ListedIn(entries', DOMAIN chunks)
      BY <1>0, <2>3, TreeEditsChunks, ListedStays
    <3> QED
      BY <1>1, <1>2, <2>3, <3>1
  <2>4. CASE /\ entries' = Without(WithParents(entries, p), p) \cup {e}
             /\ todo' = Tail(todo)
             /\ UNCHANGED <<chunks, data, disk, op, fed, ops>>
    <3>1. ListedIn(Without(WithParents(entries, p), p), DOMAIN chunks)
      BY <1>0, TreeEditsChunks, ListedStays
    <3>2. Head(todo) = todo[1] /\ 1 \in 1..Len(todo)
      BY <1>0, <2>1 DEF WorkInv
    <3>3. \A j \in DOMAIN e.chunks : e.chunks[j] \in DOMAIN chunks
      BY <1>0, <2>1, <3>2 DEF WorkPresent, FileEntry
    <3> HIDE DEF e
    <3>4. ListedIn(entries', DOMAIN chunks)
      BY <2>4, <3>1, <3>3 DEF ListedIn
    <3> QED
      BY <1>0, <1>1, <1>3, <2>1, <2>4, <3>4
  <2> QED
    BY <1>13, <2>2, <2>3, <2>4 DEF AddMember
<1>14. CASE SourceError \/ CompactFails
  BY <1>5, <1>14 DEF SourceError, CompactFails
<1>15. CASE FinishAdd
  <2>1. UNCHANGED <<memory, disk, todo, ops>> /\ op' = "sealing"
    BY <1>15 DEF FinishAdd, memory
  <2> QED
    BY <1>0, <1>4, <2>1
<1>16. CASE DeleteName
  <2> DEFINE p == Head(todo).path
  <2>1. todo # <<>> /\ op = "deleting"
    BY <1>16 DEF DeleteName
  <2>2. CASE Abandon /\ UNCHANGED memory
    BY <1>5, <2>2
  <2>3. CASE /\ entries' = IF IsFile(entries, p)
                           THEN Without(entries, p)
                           ELSE entries \ Subtree(entries, p)
             /\ todo' = Tail(todo)
             /\ UNCHANGED <<chunks, data, disk, op, fed, ops>>
    <3>1. ListedIn(entries', DOMAIN chunks)
      <4>1. entries' \subseteq entries
        BY <2>3 DEF Without
      <4> QED
        BY <1>0, <4>1 DEF ListedIn
    <3> QED
      BY <1>0, <1>1, <1>3, <2>1, <2>3, <3>1
  <2> QED
    BY <1>16, <2>2, <2>3 DEF DeleteName
<1>17. CASE FinishDelete
  <2>1. /\ todo = <<>> /\ CompactLiveChunks /\ op' = "sealing"
        /\ UNCHANGED <<entries, disk, todo, fed, ops>>
    BY <1>17 DEF FinishDelete
  <2>2. IsStore(Sealed)' /\ ConsistentStore(Sealed)' /\ DOMAIN chunks' = LiveChunks
    BY <1>0, <2>1, CompactStore
  <2>3. ListedIn(entries', DOMAIN chunks')
    BY <1>0, <2>1, <2>2 DEF ListedIn, LiveChunks, Live
  <2>4. WorkPresent'
    BY <2>1 DEF WorkPresent
  <2> QED
    BY <2>1, <2>2, <2>3, <2>4 DEF StoreInv
<1>18. ASSUME NEW from \in Path, NEW to \in Path, NEW next,
              Relocate(from, to, next), NoNewChunks(entries, next)
       PROVE  StoreInv'
  <2>1. /\ op' = "sealing" /\ ops < MaxOps /\ ops' = ops + 1
        /\ UNCHANGED <<chunks, data, disk, todo>>
        /\ UNCHANGED entries \/ entries' = next
    BY <1>18 DEF Relocate
  <2>2. ListedIn(entries', DOMAIN chunks)
    BY <1>0, <1>18, <2>1, ListedStays
  <2>3. WorkPresent' /\ ops' \in 0..MaxOps
    BY <1>0, <2>1, BoundAssumption DEF WorkPresent
  <2> QED
    BY <1>1, <2>1, <2>2, <2>3
<1>19. ASSUME NEW from \in Path, NEW to \in Path, MoveEntry(from, to) \/ CopyEntry(from, to)
       PROVE  StoreInv'
  BY <1>0, <1>18, <1>19, RelocationChunks DEF MoveEntry, CopyEntry
<1>20. ASSUME NEW from \in Path, NEW leaf \in Name, RenameEntry(from, leaf)
       PROVE  StoreInv'
  <2>1. [from EXCEPT ![Len(from)] = leaf] \in Path
    <3>1. PICK n \in 1..MaxDepth : from \in [1..n -> Name]
      BY DEF Path
    <3> QED
      BY <3>1 DEF Path
  <2> QED
    BY <1>19, <1>20, <2>1 DEF RenameEntry
<1>21. CASE Seal
  <2>1. disk' = Sealed /\ op' = "idle" /\ UNCHANGED <<entries, chunks, data, todo, ops>>
    BY <1>21 DEF Seal, memory
  <2>2. Sealed' = Sealed
    BY <2>1 DEF Sealed
  <2>3. WorkPresent'
    BY <1>0, <2>1 DEF WorkPresent
  <2>4. disk' = [entries |-> disk'.entries, chunks |-> disk'.chunks, data |-> disk'.data]
    BY <2>1 DEF Sealed
  <2>5. ListedIn(disk'.entries, DOMAIN disk'.chunks)
    BY <1>0, <2>1 DEF Sealed
  <2> QED
    BY <1>0, <2>1, <2>2, <2>3, <2>4, <2>5 DEF StoreInv
<1>22. CASE SealFails
  BY <1>5, <1>22 DEF SealFails
<1>23. CASE Reopen
  <2>1. /\ entries' = disk.entries /\ chunks' = disk.chunks /\ data' = disk.data
        /\ op' = "idle" /\ todo' = <<>> /\ UNCHANGED <<disk, ops>> /\ Len(<<>>) = 0
    BY <1>23 DEF Reopen
  <2>2. Sealed' = disk
    BY <2>1 DEF Sealed, StoreInv
  <2>3. WorkPresent'
    BY <2>1 DEF WorkPresent
  <2> QED
    BY <2>1, <2>2, <2>3 DEF StoreInv
<1>24. CASE UNCHANGED vars
  <2>1. UNCHANGED <<entries, chunks, data, disk, op, todo, fed, ops>>
    BY <1>24 DEF vars
  <2>2. WorkPresent'
    BY <1>0, <2>1 DEF WorkPresent
  <2> QED
    BY <1>0, <1>1, <2>1, <2>2
<1> QED
  BY <1>6, <1>7, <1>8, <1>9, <1>10, <1>11, <1>12, <1>13, <1>14, <1>15, <1>16, <1>17,
     <1>19, <1>20, <1>21, <1>22, <1>23, <1>24 DEF Next, Add, Delete

THEOREM SpecStore == Spec => [](TreeInv /\ StoreInv)
<1>1. TreeInv /\ StoreInv /\ [Next]_vars => (TreeInv /\ StoreInv)'
  BY TreeStep, StoreStep
<1> QED
  BY <1>1, TreeInit, StoreInit, PTL DEF Spec

-----------------------------------------------------------------------------
(* The properties that the runs check, for every value of the constants.   *)

\* The variables keep to their types: in particular records, blocks and
\* offsets stay natural numbers through compaction.
THEOREM TypeCorrect == Spec => []TypeOK
<1>1. TreeInv /\ StoreInv => TypeOK
  BY DEF TreeInv, WorkInv, StoreInv, TypeOK, Stores
<1> QED
  BY <1>1, SpecStore, PTL

\* In memory and in the file the records of the manifest and the blocks of the
\* data section are a bijection, and the blocks are in index order.
THEOREM StoreAlwaysConsistent == Spec => []StoreConsistent
<1>1. StoreInv => StoreConsistent
  BY DEF StoreInv, StoreConsistent, Stores
<1> QED
  BY <1>1, SpecStore, PTL

\* No operation takes a chunk from under an entry that lists it.
THEOREM ChunksAlwaysPresent == Spec => []ChunksPresent
<1>1. StoreInv => ChunksPresent
  BY DEF StoreInv, ChunksPresent, Stores, Sealed, ListedIn, Live
<1> QED
  BY <1>1, SpecStore, PTL

\* A completed deletion leaves no content behind that no entry holds.
THEOREM DeletionErases == Spec => DeleteErases
<1>1. ASSUME StoreInv, [Next]_vars, op = "deleting", op' = "sealing"
      PROVE  \A k \in DOMAIN data' : Live(entries', data'[k].id)
  <2>1. FinishDelete
    BY <1>1 DEF Next, Add, Delete, BeginAdd, BeginDelete, Begin, CreateDirectory, BeginFile,
                BeginPack, Stream, FinishFile, FinishPack, AddMember, SourceError, FinishAdd,
                AtItem, Streamed, DeleteName, CompactFails, Abandon, MoveEntry, CopyEntry, RenameEntry,
                Relocate, Seal, SealFails, Reopen, vars
  <2>2. IsStore(Sealed) /\ ConsistentStore(Sealed) /\ CompactLiveChunks /\ UNCHANGED entries
    BY <1>1, <2>1 DEF StoreInv, FinishDelete
  <2>3. ConsistentStore(Sealed)' /\ DOMAIN chunks' = LiveChunks
    BY <2>2, CompactStore
  <2>4. \A k \in DOMAIN data' : data'[k].id \in LiveChunks
    BY <2>3 DEF ConsistentStore, BlocksHaveRecords, Sealed
  <2> QED
    BY <2>2, <2>4 DEF LiveChunks
<1>2. StoreInv /\ [Next]_vars =>
        [op = "deleting" /\ op' = "sealing"
           => \A k \in DOMAIN data' : Live(entries', data'[k].id)]_vars
  BY <1>1
<1> QED
  BY <1>2, SpecStore, PTL DEF Spec, DeleteErases

-----------------------------------------------------------------------------
(* The tree that is read through a store.                                  *)

\* What a reader sees of an entry whose chunks are where its manifest says.
Value(e) ==
  IF e.is_dir THEN Dir ELSE [chunks |-> Extracted(e.chunks), offset |-> e.pack_offset]

LEMMA ExtractedIsSeq ==
  ASSUME NEW ids \in Seq(Chunk)
  PROVE  Extracted(ids) \in Seq(Chunk \cup {Unreadable})
<1>1. Len(ids) \in Nat /\ DOMAIN ids = 1..Len(ids) /\ \A i \in 1..Len(ids) : ids[i] \in Chunk
  OBVIOUS
<1>2. Extracted(ids) \in [1..Len(ids) -> Chunk \cup {Unreadable}]
  BY <1>1 DEF Extracted
<1> QED
  BY <1>1, <1>2, FunctionIsSeq

ListedTree(E) ==
  [p \in { e.path : e \in E } |-> Value(CHOOSE e \in E : e.path = p)]

LEMMA ListedAt ==
  ASSUME NEW E, PathsUnique(E)
  PROVE  /\ \A p : p \in DOMAIN ListedTree(E) <=> \E e \in E : e.path = p
         /\ \A e \in E : ListedTree(E)[e.path] = Value(e)
<1>1. \A p : p \in DOMAIN ListedTree(E) <=> \E e \in E : e.path = p
  BY DEF ListedTree
<1>2. ASSUME NEW e \in E
      PROVE  ListedTree(E)[e.path] = Value(e)
  <2>1. (CHOOSE f \in E : f.path = e.path) = e
    BY DEF PathsUnique
  <2> QED
    BY <2>1 DEF ListedTree
<1> QED
  BY <1>1, <1>2

\* A function that has the value of each entry at its path, and no other, is the tree.
LEMMA IsListedTree ==
  ASSUME NEW E, PathsUnique(E), NEW t, t = [p \in DOMAIN t |-> t[p]],
         \A p : p \in DOMAIN t <=> \E e \in E : e.path = p,
         \A e \in E : t[e.path] = Value(e)
  PROVE  ListedTree(E) = t
<1>1. DOMAIN t = DOMAIN ListedTree(E)
  BY ListedAt
<1>2. \A p \in DOMAIN t : t[p] = ListedTree(E)[p]
  BY <1>1, ListedAt
<1>3. ListedTree(E) = [p \in DOMAIN ListedTree(E) |-> ListedTree(E)[p]]
  BY DEF ListedTree
<1> QED
  BY <1>1, <1>2, <1>3

\* In a consistent store that has all listed chunks, reading gives the tree.
LEMMA StoreReads ==
  ASSUME NEW s, s.entries \in SUBSET Entry, PathsUnique(s.entries),
         RecordsFindTheirBlocks(s), ListedIn(s.entries, DOMAIN s.chunks)
  PROVE  TreeOf(s) = ListedTree(s.entries)
<1>1. \A c \in DOMAIN s.chunks : ReadChunk(s, c) = IF c \in Oversized THEN Unreadable ELSE c
  BY DEF RecordsFindTheirBlocks, ReadChunk
<1>2. ASSUME NEW e \in s.entries
      PROVE  ReadEntry(s, e) = Value(e)
  <2>1. \A i \in DOMAIN e.chunks : e.chunks[i] \in DOMAIN s.chunks
    BY DEF ListedIn
  <2>2. \A i \in DOMAIN e.chunks :
          ReadChunk(s, e.chunks[i]) =
            IF e.chunks[i] \in Oversized THEN Unreadable ELSE e.chunks[i]
    BY <1>1, <2>1
  <2>3. [i \in DOMAIN e.chunks |-> ReadChunk(s, e.chunks[i])] = Extracted(e.chunks)
    BY <2>2 DEF Extracted
  <2> QED
    BY <2>3 DEF ReadEntry, Value
<1>3. \A p \in { e.path : e \in s.entries } :
        (CHOOSE e \in s.entries : e.path = p) \in s.entries
  OBVIOUS
<1> QED
  BY <1>2, <1>3 DEF TreeOf, ListedTree

LEMMA PromisePaths ==
  /\ Promise!Path = Path
  /\ \A p, q : Promise!IsDescendantOf(p, q) <=> IsDescendantOf(p, q)
  /\ \A p, q : Promise!InSubtree(p, q) <=> InSubtree(p, q)
  /\ \A p, from, to : Promise!RemapEntryPath(p, from, to) = RemapEntryPath(p, from, to)
<1>1. Promise!Path = Path
  BY DEF Promise!Path, Path
<1>2. \A p, q : Promise!IsDescendantOf(p, q) <=> IsDescendantOf(p, q)
  BY DEF Promise!IsDescendantOf, IsDescendantOf, Promise!IsStrictPrefix, IsStrictPrefix,
         Promise!IsPrefix, IsPrefix
<1>3. \A p, q : Promise!InSubtree(p, q) <=> InSubtree(p, q)
  BY <1>2 DEF Promise!InSubtree, InSubtree
<1> QED
  BY <1>1, <1>2, <1>3 DEF Promise!RemapEntryPath, RemapEntryPath

-----------------------------------------------------------------------------
(* What the edits of the entries are to the tree.                          *)

Above(p) == { q \in Path : IsDescendantOf(p, q) }

\* The tree t with the directories above p made.
Filled(t, p) ==
  [q \in DOMAIN t \cup Above(p) |-> IF q \in DOMAIN t THEN t[q] ELSE Dir]

Put(t, p, v) == [q \in DOMAIN t \cup {p} |-> IF q = p THEN v ELSE t[q]]

Kept(t, D) == [q \in D |-> t[q]]

LEMMA NoneMissing ==
  ASSUME NEW E, NEW p, ParentsThere(E, p)
  PROVE  WithParents(E, p) = E
<1>1. MissingAncestors(E, p) = {}
  BY DEF ParentsThere, MissingAncestors, InSubtree
<1> QED
  BY <1>1 DEF WithParents

LEMMA ParentsListed ==
  ASSUME NEW E \in SUBSET Entry, WellFormedTree(E), NEW p \in Path,
         ~HasFileAncestor(E, p)
  PROVE  ListedTree(WithParents(E, p)) = Filled(ListedTree(E), p)
<1> DEFINE F == WithParents(E, p)
           t == ListedTree(E)
<1>1. /\ PathsUnique(F) /\ ParentsThere(F, p) /\ F \in SUBSET Entry
      /\ \A e \in F : e \in E \/ (e.is_dir /\ IsDescendantOf(p, e.path))
  BY WithParentsTree DEF WellFormedTree
<1>2. E \subseteq F /\ \A e \in F : e.path \in Path
  BY <1>1 DEF WithParents, Entry
<1>3. /\ \A q : q \in DOMAIN t <=> \E e \in E : e.path = q
      /\ \A e \in E : t[e.path] = Value(e)
  BY ListedAt DEF WellFormedTree
<1> HIDE DEF F, t
<1>4. ASSUME NEW q
      PROVE  q \in DOMAIN Filled(t, p) <=> \E e \in F : e.path = q
  <2>1. q \in DOMAIN Filled(t, p) <=> q \in DOMAIN t \/ q \in Above(p)
    BY DEF Filled
  <2>2. q \in Above(p) => \E e \in F : e.path = q
    BY <1>1 DEF Above, ParentsThere
  <2>3. \A e \in F : e \in E \/ e.path \in Above(p)
    BY <1>1, <1>2 DEF Above
  <2> QED
    BY <1>2, <1>3, <2>1, <2>2, <2>3
<1>5. ASSUME NEW e \in F
      PROVE  Filled(t, p)[e.path] = Value(e)
  <2>1. CASE e \in E
    BY <1>3, <2>1 DEF Filled
  <2>2. CASE e \notin E
    <3>1. e.path \notin DOMAIN t
      BY <1>1, <1>2, <1>3, <2>2 DEF PathsUnique
    <3>2. e.path \in Above(p) /\ e.is_dir
      BY <1>1, <1>2, <2>2 DEF Above
    <3> QED
      BY <3>1, <3>2 DEF Filled, Value
  <2> QED
    BY <2>1, <2>2
<1>6. Filled(t, p) = [q \in DOMAIN Filled(t, p) |-> Filled(t, p)[q]]
  BY DEF Filled
<1> QED
  BY <1>1, <1>4, <1>5, <1>6, IsListedTree DEF F, t

\* An entry joins, or is there already.
LEMMA AddedListed ==
  ASSUME NEW F, NEW e, PathsUnique(F), PathsUnique(F \cup {e})
  PROVE  ListedTree(F \cup {e}) = Put(ListedTree(F), e.path, Value(e))
<1> DEFINE t == ListedTree(F)
<1>1. /\ \A q : q \in DOMAIN t <=> \E f \in F : f.path = q
      /\ \A f \in F : t[f.path] = Value(f)
  BY ListedAt
<1> HIDE DEF t
<1>2. \A q : q \in DOMAIN Put(t, e.path, Value(e)) <=> \E f \in F \cup {e} : f.path = q
  BY <1>1 DEF Put
<1>3. \A f \in F \cup {e} : Put(t, e.path, Value(e))[f.path] = Value(f)
  <2> SUFFICES ASSUME NEW f \in F \cup {e}
               PROVE  Put(t, e.path, Value(e))[f.path] = Value(f)
    OBVIOUS
  <2>1. CASE f.path = e.path
    BY <2>1 DEF Put, PathsUnique
  <2>2. CASE f.path # e.path
    BY <1>1, <2>2 DEF Put
  <2> QED
    BY <2>1, <2>2
<1>4. Put(t, e.path, Value(e)) =
        [q \in DOMAIN Put(t, e.path, Value(e)) |-> Put(t, e.path, Value(e))[q]]
  BY DEF Put
<1> QED
  BY <1>2, <1>3, <1>4, IsListedTree DEF t

\* Entries go.
LEMMA ReducedListed ==
  ASSUME NEW E, PathsUnique(E), NEW K \in SUBSET E, NEW D,
         \A q : q \in D <=> \E e \in K : e.path = q
  PROVE  ListedTree(K) = Kept(ListedTree(E), D)
<1> DEFINE t == Kept(ListedTree(E), D)
<1>1. \A e \in K : ListedTree(E)[e.path] = Value(e)
  BY ListedAt
<1>2. PathsUnique(K)
  BY DEF PathsUnique
<1>3. t = [q \in DOMAIN t |-> t[q]] /\ DOMAIN t = D
  BY DEF Kept
<1>4. \A e \in K : t[e.path] = Value(e)
  BY <1>1 DEF Kept
<1> HIDE DEF t
<1>5. ListedTree(K) = t
  BY <1>2, <1>3, <1>4, IsListedTree
<1> QED
  BY <1>5 DEF t

\* create_directory_in_manifest.
LEMMA DirectoryListed ==
  ASSUME NEW E \in SUBSET Entry, WellFormedTree(E), NEW p \in Path,
         ~HasFileAncestor(E, p), ~IsFile(E, p)
  PROVE  ListedTree(WithDirectory(E, p)) = Put(Filled(ListedTree(E), p), p, Dir)
<1> DEFINE F == WithParents(E, p)
<1>1. /\ F \in SUBSET Entry /\ WellFormedTree(F)
      /\ ListedTree(F) = Filled(ListedTree(E), p)
  BY WithParentsTree, ParentsListed
<1>2. PICK e : /\ e.path = p /\ Value(e) = Dir
               /\ WithDirectory(E, p) = F \cup {e}
  <2>1. CASE \E e \in E : e.path = p
    <3>1. PICK e \in E : e.path = p
      BY <2>1
    <3>2. e.is_dir
      BY <3>1 DEF IsFile, Entry
    <3>3. ParentsThere(E, p)
      BY <3>1 DEF ParentsThere, WellFormedTree, ParentsAreDirectories
    <3>4. F = E
      BY <3>3, NoneMissing
    <3> HIDE DEF F
    <3> QED
      BY <3>1, <3>2, <3>4 DEF WithDirectory, Value
  <2>2. CASE ~ \E e \in E : e.path = p
    <3>1. DirEntry(p).path = p /\ Value(DirEntry(p)) = Dir
      BY DEF DirEntry, Value
    <3> QED
      BY <2>2, <3>1 DEF WithDirectory
  <2> QED
    BY <2>1, <2>2
<1>3. PathsUnique(F) /\ PathsUnique(F \cup {e})
  BY <1>1, <1>2, WithDirectoryTree DEF WellFormedTree
<1> HIDE DEF F
<1> QED
  BY <1>1, <1>2, <1>3, AddedListed

\* The place for a file is made: what was there is given up.
LEMMA PlaceListed ==
  ASSUME NEW E \in SUBSET Entry, WellFormedTree(E), NEW p \in Path,
         ~HasFileAncestor(E, p)
  PROVE  LET t == ListedTree(E)
         IN  ListedTree(Without(WithParents(E, p), p)) =
               Kept(Filled(t, p), (DOMAIN t \cup Above(p)) \ {p})
<1> DEFINE F == WithParents(E, p)
           t == ListedTree(E)
<1>1. PathsUnique(F) /\ ListedTree(F) = Filled(t, p)
  BY WithParentsTree, ParentsListed DEF WellFormedTree
<1>2. \A q : q \in DOMAIN t \cup Above(p) <=> \E e \in F : e.path = q
  <2>1. DOMAIN ListedTree(F) = DOMAIN t \cup Above(p)
    BY <1>1 DEF Filled
  <2> QED
    BY <1>1, <2>1, ListedAt
<1> HIDE DEF F, t
<1>3. /\ Without(F, p) \in SUBSET F
      /\ \A q : q \in (DOMAIN t \cup Above(p)) \ {p} <=> \E e \in Without(F, p) : e.path = q
  BY <1>2 DEF Without
<1>4. ListedTree(Without(F, p)) =
        Kept(ListedTree(F), (DOMAIN t \cup Above(p)) \ {p})
  BY <1>1, <1>3, ReducedListed
<1> QED
  BY <1>1, <1>4 DEF F, t

\* Then the file is put there.
LEMMA FileListed ==
  ASSUME NEW E \in SUBSET Entry, WellFormedTree(E), NEW e \in Entry,
         ~HasFileAncestor(E, e.path), ~IsDirectory(E, e.path)
  PROVE  LET F == Without(WithParents(E, e.path), e.path) \cup {e}
         IN  ListedTree(F) = Put(Filled(ListedTree(E), e.path), e.path, Value(e))
<1> DEFINE p == e.path
           t == ListedTree(E)
           G == Without(WithParents(E, p), p)
           g == Put(Filled(t, p), p, Value(e))
<1>0. p \in Path
  BY DEF Entry
<1>1. /\ G \in SUBSET Entry /\ WellFormedTree(G) /\ ParentsThere(G, p) /\ ~Exists(G, p)
      /\ ListedTree(G) = Kept(Filled(t, p), (DOMAIN t \cup Above(p)) \ {p})
  BY <1>0, PlaceForFile, PlaceListed
<1>2. WellFormedTree(G \cup {e})
  <2> HIDE DEF G
  <2> QED
    BY <1>1, AddEntryTree
<1>3. ListedTree(G \cup {e}) = Put(ListedTree(G), p, Value(e))
  <2> HIDE DEF G
  <2> QED
    BY <1>1, <1>2, AddedListed DEF WellFormedTree
<1>4. Put(ListedTree(G), p, Value(e)) = g
  <2> HIDE DEF G
  <2>1. DOMAIN Filled(t, p) = DOMAIN t \cup Above(p)
    BY DEF Filled
  <2> QED
    BY <1>1, <2>1 DEF Put, Kept
<1> QED
  BY <1>3, <1>4

\* An entry, and what lies below it, goes.
LEMMA DeletedListed ==
  ASSUME NEW E \in SUBSET Entry, WellFormedTree(E), NEW p \in Path, Exists(E, p)
  PROVE  LET t == ListedTree(E)
             F == IF IsFile(E, p) THEN Without(E, p) ELSE E \ Subtree(E, p)
         IN  /\ p \in DOMAIN t
             /\ ListedTree(F) = Kept(t, { q \in DOMAIN t : ~InSubtree(q, p) })
<1> DEFINE t == ListedTree(E)
           F == IF IsFile(E, p) THEN Without(E, p) ELSE E \ Subtree(E, p)
<1>1. PathsUnique(E) /\ \A q : q \in DOMAIN t <=> \E e \in E : e.path = q
  BY ListedAt DEF WellFormedTree
<1>2. p \in DOMAIN t
  <2>1. PICK e \in E : InSubtree(e.path, p)
    BY DEF Exists
  <2> QED
    BY <1>1, <2>1 DEF InSubtree, WellFormedTree, ParentsAreDirectories
<1>3. F = { e \in E : ~InSubtree(e.path, p) }
  <2>1. CASE IsFile(E, p)
    <3>1. \A e \in E : ~IsDescendantOf(e.path, p)
      <4> SUFFICES ASSUME NEW e \in E, IsDescendantOf(e.path, p)
                   PROVE  FALSE
        OBVIOUS
      <4>1. PICK d \in E : d.path = p /\ d.is_dir
        BY DEF WellFormedTree, ParentsAreDirectories
      <4> QED
        BY <1>1, <2>1, <4>1 DEF IsFile, PathsUnique
    <3> QED
      BY <2>1, <3>1 DEF Without, InSubtree
  <2>2. CASE ~IsFile(E, p)
    BY <2>2 DEF Subtree
  <2> QED
    BY <2>1, <2>2
<1> HIDE DEF F, t
<1>4. F \in SUBSET E
  BY <1>3
<1>5. \A q : q \in { r \in DOMAIN t : ~InSubtree(r, p) } <=> \E e \in F : e.path = q
  BY <1>1, <1>3
<1>6. ListedTree(F) = Kept(ListedTree(E), { q \in DOMAIN t : ~InSubtree(q, p) })
  BY <1>1, <1>4, <1>5, ReducedListed
<1> QED
  BY <1>2, <1>6 DEF F, t

\* What the subtree at from is called at to.
Moved(t, from, to) == { RemapEntryPath(q, from, to) : q \in { r \in DOMAIN t : InSubtree(r, from) } }

\* The part of the tree g that is at D, with the subtree of t at from hung at to.
Grafted(t, g, D, from, to) ==
  [q \in D |-> IF InSubtree(q, to) THEN t[RemapEntryPath(q, to, from)] ELSE g[q]]

\* The relocated entries are the subtree, under its new name.
LEMMA RelocatedListed ==
  ASSUME NEW E \in SUBSET Entry, WellFormedTree(E),
         NEW from \in Path, NEW to \in Path, from # to,
         CanRelocate(E, from, to)
  PROVE  /\ Relocated(WithParents(E, to), from, to) = Relocated(E, from, to)
         /\ \A q : q \in Moved(ListedTree(E), from, to)
                     <=> \E f \in Relocated(E, from, to) : f.path = q
         /\ \A f \in Relocated(E, from, to) :
              /\ InSubtree(f.path, to)
              /\ f.path \in Path
              /\ ListedTree(E)[RemapEntryPath(f.path, to, from)] = Value(f)
<1> DEFINE R == Relocated(E, from, to)
           t == ListedTree(E)
           New(e) == [e EXCEPT !.path = RemapEntryPath(e.path, from, to)]
<1>1. Relocated(WithParents(E, to), from, to) = R
  BY RelocationGround DEF Relocated
<1>2. \A e \in Subtree(E, from) :
         /\ e \in E /\ e.path \in Path
         /\ InSubtree(e.path, from)
         /\ RemapEntryPath(e.path, from, to) \in Path
         /\ New(e).path = RemapEntryPath(e.path, from, to)
         /\ Value(New(e)) = Value(e)
  BY DEF Subtree, Entry, CanRelocate, Value
<1>3. \A f \in R : \E e \in Subtree(E, from) : f = New(e)
  BY DEF Relocated
<1>4. \A e \in Subtree(E, from) : New(e) \in R
  BY DEF Relocated
<1>5. /\ \A q : q \in DOMAIN t <=> \E e \in E : e.path = q
      /\ \A e \in E : t[e.path] = Value(e)
  BY ListedAt DEF WellFormedTree
<1>6. \A e : e \in Subtree(E, from) <=> e \in E /\ InSubtree(e.path, from)
  BY DEF Subtree
<1> HIDE DEF R, t, New
<1>7. \A q : q \in Moved(t, from, to) <=> \E f \in R : f.path = q
  <2>1. ASSUME NEW q \in Moved(t, from, to)
        PROVE  \E f \in R : f.path = q
    <3>1. PICK o \in DOMAIN t : InSubtree(o, from) /\ q = RemapEntryPath(o, from, to)
      BY DEF Moved
    <3>2. PICK e \in E : e.path = o
      BY <1>5
    <3>3. e \in Subtree(E, from)
      BY <1>6, <3>1, <3>2
    <3> QED
      BY <1>2, <1>4, <3>1, <3>2, <3>3
  <2>2. ASSUME NEW f \in R
        PROVE  f.path \in Moved(t, from, to)
    <3>1. PICK e \in Subtree(E, from) : f = New(e)
      BY <1>3
    <3>2. e.path \in { q \in DOMAIN t : InSubtree(q, from) }
      BY <1>2, <1>5
    <3> QED
      BY <1>2, <3>1, <3>2 DEF Moved
  <2> QED
    BY <2>1, <2>2
<1>8. ASSUME NEW f \in R
      PROVE  /\ InSubtree(f.path, to)
             /\ f.path \in Path
             /\ t[RemapEntryPath(f.path, to, from)] = Value(f)
  <2>1. PICK e \in Subtree(E, from) : f = New(e)
    BY <1>3
  <2>2. RemapEntryPath(RemapEntryPath(e.path, from, to), to, from) = e.path
    BY <1>2, RemapBack
  <2> QED
    BY <1>2, <1>5, <2>1, <2>2, RemapIntoSubtree
<1> QED
  BY <1>1, <1>7, <1>8 DEF R, t

\* Some of the old entries, and the relocated ones.
LEMMA GraftListed ==
  ASSUME NEW E \in SUBSET Entry, WellFormedTree(E),
         NEW from \in Path, NEW to \in Path, from # to,
         CanRelocate(E, from, to),
         NEW K \in SUBSET WithParents(E, to), NEW D,
         PathsUnique(K \cup Relocated(E, from, to)),
         \A q : q \in D <=> \/ \E e \in K : e.path = q
                            \/ q \in Moved(ListedTree(E), from, to)
  PROVE  ListedTree(K \cup Relocated(E, from, to)) =
           Grafted(ListedTree(E), ListedTree(WithParents(E, to)), D, from, to)
<1> DEFINE R == Relocated(E, from, to)
           P == WithParents(E, to)
           t == ListedTree(E)
           g == Grafted(t, ListedTree(P), D, from, to)
<1>1. PathsUnique(P) /\ ~Exists(P, to)
  BY RelocationGround DEF WellFormedTree
<1>2. /\ \A q : q \in Moved(t, from, to) <=> \E f \in R : f.path = q
      /\ \A f \in R : InSubtree(f.path, to) /\ t[RemapEntryPath(f.path, to, from)] = Value(f)
  BY RelocatedListed
<1>3. \A e \in P : ListedTree(P)[e.path] = Value(e) /\ ~InSubtree(e.path, to)
  BY <1>1, ListedAt DEF Exists
<1> HIDE DEF R, P, t
<1>4. \A q : q \in DOMAIN g <=> \E f \in K \cup R : f.path = q
  <2>1. DOMAIN g = D
    BY DEF Grafted
  <2>2. \A q : q \in D <=> (\E e \in K : e.path = q) \/ q \in Moved(t, from, to)
    BY DEF t
  <2> HIDE DEF g
  <2> QED
    BY <1>2, <2>1, <2>2
<1>5. \A f \in K \cup R : g[f.path] = Value(f)
  <2> SUFFICES ASSUME NEW f \in K \cup R
               PROVE  g[f.path] = Value(f)
    OBVIOUS
  <2>1. f.path \in D
    BY <1>4 DEF Grafted
  <2>2. CASE f \in R
    BY <1>2, <2>1, <2>2 DEF Grafted
  <2>3. CASE f \notin R
    <3>1. f \in P
      BY <2>3 DEF P
    <3> QED
      BY <1>3, <2>1, <3>1 DEF Grafted
  <2> QED
    BY <2>2, <2>3
<1>6. g = [q \in DOMAIN g |-> g[q]]
  BY DEF Grafted
<1> HIDE DEF g
<1>7. ListedTree(K \cup R) = g
  BY <1>4, <1>5, <1>6, IsListedTree DEF R
<1> QED
  BY <1>7 DEF R, P, t, g

LEMMA CopyListed ==
  ASSUME NEW E \in SUBSET Entry, WellFormedTree(E),
         NEW from \in Path, NEW to \in Path, from # to,
         CanRelocate(E, from, to)
  PROVE  LET t == ListedTree(E)
             F == WithParents(E, to) \cup Relocated(WithParents(E, to), from, to)
         IN  ListedTree(F) =
               Grafted(t, Filled(t, to), (DOMAIN t \cup Above(to)) \cup Moved(t, from, to), from, to)
<1> DEFINE R == Relocated(E, from, to)
           P == WithParents(E, to)
           t == ListedTree(E)
           D == (DOMAIN t \cup Above(to)) \cup Moved(t, from, to)
<1>1. PathsUnique(P \cup R) /\ Relocated(P, from, to) = R
  BY CopyTree, RelocatedListed DEF WellFormedTree
<1>2. ListedTree(P) = Filled(t, to) /\ PathsUnique(P)
  BY ParentsListed, RelocationGround DEF CanRelocate, WellFormedTree
<1>3. \A q : q \in DOMAIN t \cup Above(to) <=> \E e \in P : e.path = q
  <2>1. DOMAIN ListedTree(P) = DOMAIN t \cup Above(to)
    BY <1>2 DEF Filled
  <2> QED
    BY <1>2, <2>1, ListedAt
<1>4. ListedTree(P \cup R) = Grafted(t, ListedTree(P), D, from, to)
  <2>1. \A q : q \in D <=> (\E e \in P : e.path = q) \/ q \in Moved(t, from, to)
    BY <1>3
  <2> HIDE DEF D
  <2> QED
    BY <1>1, <2>1, GraftListed
<1> QED
  BY <1>1, <1>2, <1>4

LEMMA MoveListed ==
  ASSUME NEW E \in SUBSET Entry, WellFormedTree(E),
         NEW from \in Path, NEW to \in Path, from # to,
         CanRelocate(E, from, to)
  PROVE  LET t == ListedTree(E)
             P == WithParents(E, to)
             F == (P \ Subtree(P, from)) \cup Relocated(P, from, to)
         IN  ListedTree(F) =
               Grafted(t, Filled(t, to),
                       ((DOMAIN t \cup Above(to)) \ { q \in DOMAIN t : InSubtree(q, from) })
                         \cup Moved(t, from, to),
                       from, to)
<1> DEFINE R == Relocated(E, from, to)
           P == WithParents(E, to)
           K == P \ Subtree(P, from)
           t == ListedTree(E)
           C == (DOMAIN t \cup Above(to)) \ { q \in DOMAIN t : InSubtree(q, from) }
           D == C \cup Moved(t, from, to)
<1>1. PathsUnique(K \cup R) /\ Relocated(P, from, to) = R
  BY MoveTree, RelocatedListed DEF WellFormedTree
<1>2. /\ ListedTree(P) = Filled(t, to) /\ PathsUnique(P)
      /\ Subtree(P, from) = Subtree(E, from)
  BY ParentsListed, RelocationGround DEF CanRelocate, WellFormedTree
<1>3. \A q : q \in DOMAIN t \cup Above(to) <=> \E e \in P : e.path = q
  <2>1. DOMAIN ListedTree(P) = DOMAIN t \cup Above(to)
    BY <1>2 DEF Filled
  <2> QED
    BY <1>2, <2>1, ListedAt
<1>4. \A q : q \in DOMAIN t <=> \E e \in E : e.path = q
  BY ListedAt DEF WellFormedTree
<1>5. \A q : q \in C <=> \E e \in K : e.path = q
  <2>1. \A e : e \in K <=> e \in P /\ ~(e \in E /\ InSubtree(e.path, from))
    BY <1>2 DEF Subtree
  <2>2. \A e \in P : InSubtree(e.path, from) => e \in E
    BY <1>2 DEF Subtree
  <2> HIDE DEF P, t, K
  <2>3. \A e \in K : e.path \in C
    BY <1>3, <2>1, <2>2
  <2>4. ASSUME NEW q \in C
        PROVE  \E e \in K : e.path = q
    <3>1. PICK e \in P : e.path = q
      BY <1>3
    <3>2. ~(e \in E /\ InSubtree(e.path, from))
      BY <1>4, <3>1 DEF t
    <3> QED
      BY <2>1, <3>1, <3>2
  <2> QED
    BY <2>3, <2>4
<1>6. ListedTree(K \cup R) = Grafted(t, ListedTree(P), D, from, to)
  <2>1. \A q : q \in D <=> (\E e \in K : e.path = q) \/ q \in Moved(t, from, to)
    BY <1>5
  <2>2. K \in SUBSET P
    OBVIOUS
  <2> HIDE DEF C, D, K
  <2> QED
    BY <1>1, <2>1, <2>2, GraftListed
<1> QED
  BY <1>1, <1>2, <1>6

-----------------------------------------------------------------------------
(* The work, and the files it will make.                                   *)

\* The files that an item is going to put into the tree.
FilesHeld(item) ==
  IF item.kind = "member"
  THEN { [chunks |-> Extracted(item.chunks), offset |-> item.offset] }
  ELSE FilesOf(item)

\* A running operation makes no file that its caller did not hand in.
WorkHeld == \A i \in 1..Len(todo) : FilesHeld(todo[i]) \subseteq Content

LEMMA JobsHeld ==
  /\ \A job \in AddJobs : \A i \in 1..Len(job) : FilesHeld(job[i]) \subseteq Content
  /\ \A job \in DeleteJobs : \A i \in 1..Len(job) : FilesHeld(job[i]) \subseteq Content
<1>1. ASSUME NEW job \in AddJobs, NEW i \in 1..Len(job)
      PROVE  FilesHeld(job[i]) \subseteq Content
  <2>1. job \in Seq(DirItem \cup FileItem \cup PackItem)
    BY JobAssumption
  <2>2. job[i] \in DirItem \cup FileItem \cup PackItem /\ i \in DOMAIN job
    BY <2>1
  <2>3. FilesHeld(job[i]) = FilesOf(job[i])
    BY <2>2 DEF FilesHeld, DirItem, FileItem, PackItem
  <2>4. job[i] \in UNION { Range(j) : j \in AddJobs }
    BY <2>2 DEF Range
  <2> QED
    BY <2>3, <2>4 DEF Content
<1>2. ASSUME NEW job \in DeleteJobs, NEW i \in 1..Len(job)
      PROVE  FilesHeld(job[i]) \subseteq Content
  <2>1. job \in Seq(NameItem)
    BY JobAssumption
  <2>2. job[i] \in NameItem
    BY <2>1
  <2> QED
    BY <2>2 DEF FilesHeld, FilesOf, NameItem
<1> QED
  BY <1>1, <1>2

LEMMA WorkHeldInit == Init => WorkHeld
<1>1. Len(<<>>) = 0
  OBVIOUS
<1> QED
  BY <1>1 DEF Init, WorkHeld

LEMMA WorkHeldStep == TreeInv /\ WorkHeld /\ [Next]_vars => WorkHeld'
<1> SUFFICES ASSUME TreeInv, WorkHeld, [Next]_vars
             PROVE  WorkHeld'
  OBVIOUS
<1>0. WorkInv /\ todo \in Seq(Item)
  BY DEF TreeInv, WorkInv
<1>1. ASSUME UNCHANGED todo
      PROVE  WorkHeld'
  BY <1>1 DEF WorkHeld
<1>2. ASSUME todo' = <<>>
      PROVE  WorkHeld'
  <2>1. Len(<<>>) = 0
    OBVIOUS
  <2> QED
    BY <1>2, <2>1 DEF WorkHeld
<1>3. ASSUME todo # <<>>, todo' = Tail(todo)
      PROVE  WorkHeld'
  BY <1>0, <1>3, TailOfWork DEF WorkHeld
<1>4. CASE BeginAdd
  BY <1>4, JobsHeld DEF BeginAdd, Begin, WorkHeld
<1>5. CASE BeginDelete
  BY <1>5, JobsHeld DEF BeginDelete, Begin, WorkHeld
<1>6. CASE FinishPack
  <2> DEFINE pack  == Head(todo)
             items == MemberItems(pack)
             rest  == Tail(todo)
  <2>1. todo # <<>> /\ pack.kind = "pack" /\ todo' = items \o rest
    BY <1>0, <1>6 DEF FinishPack, Streamed, WorkInv, TreeInv
  <2>2. /\ pack \in Item /\ Covered(pack) /\ rest \in Seq(Item)
        /\ \A i \in 1..Len(rest) : rest[i] = todo[i + 1] /\ i + 1 \in 1..Len(todo)
    BY <1>0, <2>1, TailOfWork
  <2>3. pack \in PackItem
    BY <2>1, <2>2, ItemKinds
  <2>4. items \in Seq(FileOfPack)
    BY <2>2, <2>3, MembersAreItems
  <2>5. FilesOf(pack) \subseteq Content
    <3>1. pack = todo[1] /\ 1 \in 1..Len(todo)
      BY <1>0, <2>1
    <3> QED
      BY <2>1, <3>1 DEF WorkHeld, FilesHeld
  <2>6. ASSUME NEW i \in 1..Len(items)
        PROVE  FilesHeld(items[i]) \subseteq Content
    <3>1. items[i] \in FileOfPack /\ i \in DOMAIN items
      BY <2>4
    <3>2. items[i] \in Range(items)
      BY <3>1 DEF Range
    <3>3. [chunks |-> Extracted(items[i].chunks), offset |-> items[i].offset] \in FilesOf(pack)
      BY <2>1, <3>2 DEF FilesOf
    <3> QED
      BY <2>5, <3>1, <3>3 DEF FilesHeld, FileOfPack
  <2>7. \A i \in 1..Len(rest) : FilesHeld(rest[i]) \subseteq Content
    BY <2>2 DEF WorkHeld
  <2>8. items \in Seq(Item)
    BY <2>4, SeqMonotonic DEF Item
  <2> HIDE DEF items, rest
  <2>9. /\ Len(items \o rest) = Len(items) + Len(rest)
        /\ \A i \in 1..Len(items) + Len(rest) :
             (items \o rest)[i] = IF i <= Len(items) THEN items[i] ELSE rest[i - Len(items)]
        /\ Len(items) \in Nat /\ Len(rest) \in Nat
    BY <2>2, <2>8, ConcatProperties
  <2>10. ASSUME NEW i \in 1..Len(items \o rest)
         PROVE  FilesHeld((items \o rest)[i]) \subseteq Content
    <3>1. CASE i <= Len(items)
      BY <2>6, <2>9, <3>1
    <3>2. CASE ~(i <= Len(items))
      <4>1. i - Len(items) \in 1..Len(rest)
        BY <2>9, <3>2
      <4> QED
        BY <2>7, <2>9, <3>2, <4>1
    <3> QED
      BY <3>1, <3>2
  <2> QED
    BY <2>1, <2>10 DEF WorkHeld
<1>7. CASE CreateDirectory \/ AddMember \/ DeleteName
  BY <1>2, <1>3, <1>7 DEF CreateDirectory, AddMember, DeleteName, AtItem, Abandon
<1>8. CASE FinishFile
  BY <1>0, <1>3, <1>8 DEF FinishFile, Streamed, WorkInv
<1>9. CASE BeginFile \/ SourceError \/ CompactFails \/ SealFails \/ Reopen
  BY <1>1, <1>2, <1>9 DEF BeginFile, SourceError, CompactFails, SealFails, Reopen, Abandon
<1>10. CASE BeginPack \/ Stream \/ FinishAdd \/ FinishDelete \/ Seal \/ UNCHANGED vars
  BY <1>1, <1>10 DEF BeginPack, Stream, FinishAdd, FinishDelete, Seal, vars
<1>11. ASSUME NEW from, NEW to, MoveEntry(from, to) \/ CopyEntry(from, to)
       PROVE  WorkHeld'
  BY <1>1, <1>11 DEF MoveEntry, CopyEntry, Relocate
<1>12. ASSUME NEW from, NEW leaf, RenameEntry(from, leaf)
       PROVE  WorkHeld'
  BY <1>11, <1>12 DEF RenameEntry
<1> QED
  BY <1>4, <1>5, <1>6, <1>7, <1>8, <1>9, <1>10, <1>11, <1>12 DEF Next, Add, Delete

-----------------------------------------------------------------------------
(* The refinement.                                                         *)

\* What the refinement needs of a state.
RefInv == TreeInv /\ StoreInv /\ WorkHeld

\* Read through their stores, the handle and the file are their listed trees.
Mapped ==
  /\ TreeOf(Sealed) = ListedTree(entries)
  /\ TreeOf(disk) = ListedTree(disk.entries)

LEMMA InvMapped == TreeInv /\ StoreInv => Mapped
<1> SUFFICES ASSUME TreeInv, StoreInv
             PROVE  Mapped
  OBVIOUS
<1>1. Sealed.entries = entries /\ Sealed.chunks = chunks
  BY DEF Sealed
<1>2. TreeOf(Sealed) = ListedTree(Sealed.entries)
  <2>1. /\ Sealed.entries \in SUBSET Entry /\ PathsUnique(Sealed.entries)
        /\ RecordsFindTheirBlocks(Sealed) /\ ListedIn(Sealed.entries, DOMAIN Sealed.chunks)
    BY <1>1 DEF TreeInv, StoreInv, ConsistentStore, WellFormedTree
  <2> QED
    BY <2>1, StoreReads
<1>3. TreeOf(disk) = ListedTree(disk.entries)
  BY StoreReads DEF TreeInv, StoreInv, ConsistentStore, WellFormedTree
<1> QED
  BY <1>1, <1>2, <1>3 DEF Mapped

\* The operators of the plain tree, in those of the listed one.
LEMMA PromiseTree ==
  ASSUME Mapped, NEW p, NEW from, NEW to, NEW v, NEW u
  PROVE  LET t == ListedTree(entries)
         IN  /\ Promise!Ancestors(p) = Above(p)
             /\ Promise!Parented(p) = Filled(t, p)
             /\ Promise!With(u, p, v) = Put(u, p, v)
             /\ Promise!SubtreeAt(p) = { q \in DOMAIN t : InSubtree(q, p) }
             /\ Promise!Image(from, to) = Moved(t, from, to)
<1> DEFINE t == ListedTree(entries)
<1>1. TreeOf(Sealed) = t
  BY DEF Mapped
<1> HIDE DEF t
<1>2. Promise!Ancestors(p) = Above(p)
  BY PromisePaths DEF Promise!Ancestors, Above
<1>3. Promise!Parented(p) = Filled(t, p)
  BY <1>1, <1>2 DEF Promise!Parented, Filled
<1>4. Promise!With(u, p, v) = Put(u, p, v)
  BY DEF Promise!With, Put
<1>5. \A q : Promise!SubtreeAt(q) = { o \in DOMAIN t : InSubtree(o, q) }
  BY <1>1, PromisePaths DEF Promise!SubtreeAt
<1>6. Promise!Image(from, to) = Moved(t, from, to)
  BY <1>5, PromisePaths DEF Promise!Image, Moved
<1> QED
  BY <1>2, <1>3, <1>4, <1>5, <1>6 DEF t

\* The tests of the code on its entries, as tests on the tree.
LEMMA PromiseGuards ==
  ASSUME Mapped, entries \in SUBSET Entry, WellFormedTree(entries), NEW p \in Path
  PROVE  /\ p \in DOMAIN TreeOf(Sealed) <=> Exists(entries, p)
         /\ ~HasFileAncestor(entries, p) => Promise!CanHold(p)
         /\ ~IsFile(entries, p) => ~Promise!IsFileAt(p)
         /\ ~IsDirectory(entries, p) => ~Promise!IsDirAt(p)
<1> DEFINE t == ListedTree(entries)
<1>1. TreeOf(Sealed) = t
  BY DEF Mapped
<1>2. /\ \A q : q \in DOMAIN t <=> \E e \in entries : e.path = q
      /\ \A e \in entries : t[e.path] = Value(e)
      /\ PathsUnique(entries)
  BY ListedAt DEF WellFormedTree
<1> HIDE DEF t
<1>3. \A e \in entries : Value(e) = Dir <=> e.is_dir
  <2> SUFFICES ASSUME NEW e \in entries
               PROVE  Value(e) = Dir <=> e.is_dir
    OBVIOUS
  <2>1. CASE e.is_dir
    BY <2>1 DEF Value
  <2>2. CASE ~e.is_dir
    <3>1. e.chunks \in Seq(Chunk) /\ e.pack_offset \in Nat
      BY DEF Entry
    <3>2. Extracted(e.chunks) \in Seq(Chunk \cup {Unreadable})
      BY <3>1, ExtractedIsSeq
    <3>3. Value(e) \in [chunks : Seq(Chunk \cup {Unreadable}), offset : Nat]
      BY <2>2, <3>1, <3>2 DEF Value
    <3> QED
      BY <2>2, <3>3, DirAssumption
  <2> QED
    BY <2>1, <2>2
<1>4. ASSUME NEW q, Promise!IsFileAt(q)
      PROVE  \E e \in entries : e.path = q /\ ~e.is_dir
  BY <1>1, <1>2, <1>3, <1>4 DEF Promise!IsFileAt
<1>5. p \in DOMAIN t <=> Exists(entries, p)
  BY <1>2 DEF Exists, InSubtree, WellFormedTree, ParentsAreDirectories
<1>6. ~HasFileAncestor(entries, p) => Promise!CanHold(p)
  BY <1>4, PromisePaths DEF HasFileAncestor, Promise!CanHold, Promise!Ancestors
<1>7. ~IsFile(entries, p) => ~Promise!IsFileAt(p)
  BY <1>4 DEF IsFile
<1>8. Promise!IsDirAt(p) => IsDirectory(entries, p)
  <2> SUFFICES ASSUME Promise!IsDirAt(p)
               PROVE  IsDirectory(entries, p)
    OBVIOUS
  <2>1. PICK e \in entries : e.path = p /\ e.is_dir
    BY <1>1, <1>2, <1>3 DEF Promise!IsDirAt
  <2> QED
    BY <1>2, <2>1 DEF IsDirectory, Exists, InSubtree, IsFile, PathsUnique
<1> QED
  BY <1>1, <1>5, <1>6, <1>7, <1>8

LEMMA PromiseInit == Init => Promise!Init
<1> SUFFICES ASSUME Init
             PROVE  TreeOf(Sealed) = <<>> /\ TreeOf(disk) = <<>>
  BY DEF Promise!Init
<1>1. Sealed.entries = {} /\ disk = Sealed
  BY DEF Init, Sealed
<1>2. TreeOf(Sealed) = <<>>
  <2>1. { e.path : e \in Sealed.entries } = {}
    BY <1>1
  <2>2. TreeOf(Sealed) = [p \in {} |-> TreeOf(Sealed)[p]]
    BY <2>1 DEF TreeOf
  <2> HIDE <1>1
  <2>3. <<>> \in [{} -> {}]
    OBVIOUS
  <2> QED
    BY <2>2, <2>3
<1> QED
  BY <1>1, <1>2

\* create_directory_in_manifest makes a directory, and those above it.
LEMMA MkdirStep ==
  ASSUME Mapped, Mapped', entries \in SUBSET Entry, WellFormedTree(entries), NEW p \in Path,
         ~HasFileAncestor(entries, p), ~IsFile(entries, p),
         entries' = WithDirectory(entries, p), UNCHANGED disk
  PROVE  Promise!Mkdir(p)
<1>1. TreeOf(Sealed)' = Put(Filled(ListedTree(entries), p), p, Dir)
  BY DirectoryListed DEF Mapped
<1>2. TreeOf(Sealed)' = Promise!With(Promise!Parented(p), p, Dir)
  BY <1>1, PromiseTree
<1>3. Promise!CanHold(p) /\ ~Promise!IsFileAt(p) /\ UNCHANGED TreeOf(disk)
  BY PromiseGuards
<1> QED
  BY <1>2, <1>3 DEF Promise!Mkdir

\* An append that goes on makes the place of its file.
LEMMA PrepareStep ==
  ASSUME Mapped, Mapped', entries \in SUBSET Entry, WellFormedTree(entries), NEW p \in Path,
         ~HasFileAncestor(entries, p), ~IsDirectory(entries, p),
         entries' = Without(WithParents(entries, p), p), UNCHANGED disk
  PROVE  Promise!Prepare(p)
<1> DEFINE t == ListedTree(entries)
<1>1. TreeOf(Sealed)' = Kept(Filled(t, p), (DOMAIN t \cup Above(p)) \ {p})
  BY PlaceListed DEF Mapped
<1>2. TreeOf(Sealed)' =
        [q \in (DOMAIN TreeOf(Sealed) \cup Promise!Ancestors(p)) \ {p} |-> Promise!Parented(p)[q]]
  <2>1. TreeOf(Sealed) = t
    BY DEF Mapped
  <2>2. Promise!Ancestors(p) = Above(p) /\ Promise!Parented(p) = Filled(t, p)
    BY PromiseTree
  <2> HIDE DEF t
  <2> QED
    BY <1>1, <2>1, <2>2 DEF Kept
<1>3. Promise!CanHold(p) /\ ~Promise!IsDirAt(p) /\ UNCHANGED TreeOf(disk)
  BY PromiseGuards
<1> QED
  BY <1>2, <1>3 DEF Promise!Prepare

\* A file joins the tree, in one step or where a place was made for it.
LEMMA WriteStep ==
  ASSUME Mapped, Mapped', entries \in SUBSET Entry, WellFormedTree(entries), NEW e \in Entry,
         ~HasFileAncestor(entries, e.path), ~IsDirectory(entries, e.path),
         entries' = Without(WithParents(entries, e.path), e.path) \cup {e}, UNCHANGED disk
  PROVE  Promise!Write(e.path, Value(e))
<1>0. e.path \in Path
  BY DEF Entry
<1>1. TreeOf(Sealed)' = Put(Filled(ListedTree(entries), e.path), e.path, Value(e))
  BY FileListed DEF Mapped
<1>2. TreeOf(Sealed)' = Promise!With(Promise!Parented(e.path), e.path, Value(e))
  BY <1>1, PromiseTree
<1>3. Promise!CanHold(e.path) /\ ~Promise!IsDirAt(e.path) /\ UNCHANGED TreeOf(disk)
  BY <1>0, PromiseGuards
<1> QED
  BY <1>2, <1>3 DEF Promise!Write

\* Where its place is ready, nothing needs to be made or given up for a file.
LEMMA ReadyPlace ==
  ASSUME NEW E \in SUBSET Entry, WellFormedTree(E), NEW p \in Path,
         ParentsThere(E, p), ~Exists(E, p)
  PROVE  /\ Without(WithParents(E, p), p) = E
         /\ ~HasFileAncestor(E, p)
         /\ ~IsDirectory(E, p)
<1>1. WithParents(E, p) = E
  BY NoneMissing
<1>2. Without(E, p) = E
  BY DEF Without, Exists, InSubtree
<1>3. ~HasFileAncestor(E, p)
  <2> SUFFICES ASSUME NEW e \in E, ~e.is_dir, IsDescendantOf(p, e.path)
               PROVE  FALSE
    BY DEF HasFileAncestor
  <2>1. e.path \in Path
    BY DEF Entry
  <2>2. PICK d \in E : d.path = e.path /\ d.is_dir
    BY <2>1 DEF ParentsThere
  <2> QED
    BY <2>2 DEF WellFormedTree, PathsUnique
<1> QED
  BY <1>1, <1>2, <1>3 DEF IsDirectory

\* A refused append to a directory changes nothing: what is above it exists.
LEMMA DirectoryHasParents ==
  ASSUME NEW E \in SUBSET Entry, WellFormedTree(E), NEW p \in Path, IsDirectory(E, p)
  PROVE  WithParents(E, p) = E
<1>1. PICK e \in E : InSubtree(e.path, p)
  BY DEF IsDirectory, Exists
<1>2. e.path \in Path
  BY DEF Entry
<1>3. ASSUME NEW q \in Path, IsDescendantOf(p, q)
      PROVE  \E d \in E : d.path = q /\ d.is_dir
  <2>1. IsDescendantOf(e.path, q)
    BY <1>1, <1>2, <1>3, DescendantOrder
  <2> QED
    BY <2>1 DEF WellFormedTree, ParentsAreDirectories
<1> QED
  BY <1>3, NoneMissing DEF ParentsThere

LEMMA DeleteStep ==
  ASSUME Mapped, Mapped', entries \in SUBSET Entry, WellFormedTree(entries), NEW p \in Path,
         Exists(entries, p), UNCHANGED disk,
         entries' = IF IsFile(entries, p)
                    THEN Without(entries, p)
                    ELSE entries \ Subtree(entries, p)
  PROVE  Promise!Delete(p)
<1>1. p \in DOMAIN TreeOf(Sealed) /\ UNCHANGED TreeOf(disk)
  BY PromiseGuards
<1> DEFINE t == ListedTree(entries)
<1>2. TreeOf(Sealed)' = Kept(t, { q \in DOMAIN t : ~InSubtree(q, p) })
  BY DeletedListed DEF Mapped
<1>3. TreeOf(Sealed)' =
        [q \in { q \in DOMAIN TreeOf(Sealed) : ~Promise!InSubtree(q, p) } |-> TreeOf(Sealed)[q]]
  <2>1. TreeOf(Sealed) = t
    BY DEF Mapped
  <2> HIDE DEF t
  <2>2. { q \in DOMAIN TreeOf(Sealed) : ~Promise!InSubtree(q, p) }
          = { q \in DOMAIN t : ~InSubtree(q, p) }
    BY <2>1, PromisePaths
  <2> QED
    BY <1>2, <2>1, <2>2 DEF Kept
<1> QED
  BY <1>1, <1>3 DEF Promise!Delete

\* What prepare_relocation asks for is what the tree asks for.
LEMMA PromiseCanGo ==
  ASSUME Mapped, entries \in SUBSET Entry, WellFormedTree(entries),
         NEW from \in Path, NEW to \in Path, from # to, CanRelocate(entries, from, to)
  PROVE  Promise!CanGo(from, to)
<1>1. from \in DOMAIN TreeOf(Sealed) /\ to \notin DOMAIN TreeOf(Sealed) /\ Promise!CanHold(to)
  BY PromiseGuards DEF CanRelocate
<1>2. ~Promise!InSubtree(to, from)
  BY RelocationGround, PromisePaths
<1>3. Promise!Image(from, to) \subseteq Promise!Path
  BY RelocatedListed, PromiseTree, PromisePaths
<1> QED
  BY <1>1, <1>2, <1>3 DEF Promise!CanGo

\* The function that Copy and Move make.
LEMMA PromiseGraft ==
  ASSUME Mapped, NEW from, NEW to, NEW D
  PROVE  [q \in D |-> IF Promise!InSubtree(q, to)
                      THEN TreeOf(Sealed)[Promise!RemapEntryPath(q, to, from)]
                      ELSE Promise!Parented(to)[q]]
           = Grafted(ListedTree(entries), Filled(ListedTree(entries), to), D, from, to)
<1>1. Promise!Parented(to) = Filled(ListedTree(entries), to)
  BY PromiseTree
<1>2. TreeOf(Sealed) = ListedTree(entries)
  BY DEF Mapped
<1> QED
  BY <1>1, <1>2, PromisePaths DEF Grafted

LEMMA CopyStep ==
  ASSUME Mapped, Mapped', entries \in SUBSET Entry, WellFormedTree(entries),
         NEW from \in Path, NEW to \in Path, from # to, CanRelocate(entries, from, to),
         entries' = WithParents(entries, to) \cup Relocated(WithParents(entries, to), from, to),
         UNCHANGED disk
  PROVE  Promise!Copy(from, to)
<1> DEFINE t == ListedTree(entries)
           D == DOMAIN Promise!Parented(to) \cup Promise!Image(from, to)
<1>1. D = (DOMAIN t \cup Above(to)) \cup Moved(t, from, to)
  BY PromiseTree DEF Filled
<1>2. TreeOf(Sealed)' = Grafted(t, Filled(t, to), D, from, to)
  BY <1>1, CopyListed DEF Mapped
<1>3. Promise!CanGo(from, to) /\ UNCHANGED TreeOf(disk)
  BY PromiseCanGo
<1> QED
  BY <1>2, <1>3, PromiseGraft DEF Promise!Copy

LEMMA MoveStep ==
  ASSUME Mapped, Mapped', entries \in SUBSET Entry, WellFormedTree(entries),
         NEW from \in Path, NEW to \in Path, from # to, CanRelocate(entries, from, to),
         entries' = (WithParents(entries, to) \ Subtree(WithParents(entries, to), from))
                      \cup Relocated(WithParents(entries, to), from, to),
         UNCHANGED disk
  PROVE  Promise!Move(from, to)
<1> DEFINE t == ListedTree(entries)
           D == (DOMAIN Promise!Parented(to) \ Promise!SubtreeAt(from)) \cup Promise!Image(from, to)
<1>1. D = ((DOMAIN t \cup Above(to)) \ { q \in DOMAIN t : InSubtree(q, from) })
            \cup Moved(t, from, to)
  BY PromiseTree DEF Filled
<1>2. TreeOf(Sealed)' = Grafted(t, Filled(t, to), D, from, to)
  BY <1>1, MoveListed DEF Mapped
<1>3. Promise!CanGo(from, to) /\ UNCHANGED TreeOf(disk)
  BY PromiseCanGo
<1> QED
  BY <1>2, <1>3, PromiseGraft DEF Promise!Move

\* Every step of the code edits the plain tree once, or leaves it.
LEMMA RefStep ==
  RefInv /\ RefInv' /\ [Next]_vars => [Promise!Next]_<<TreeOf(Sealed), TreeOf(disk)>>
<1> SUFFICES ASSUME RefInv, RefInv', [Next]_vars
             PROVE  [Promise!Next]_<<TreeOf(Sealed), TreeOf(disk)>>
  OBVIOUS
<1>0. /\ entries \in SUBSET Entry /\ WellFormedTree(entries)
      /\ WorkInv /\ PlaceReady /\ WorkHeld
      /\ Mapped /\ Mapped'
      /\ disk = [entries |-> disk.entries, chunks |-> disk.chunks, data |-> disk.data]
  <2>1. Mapped
    BY InvMapped DEF RefInv
  <2>2. Mapped'
    BY InvMapped, PTL DEF RefInv
  <2> QED
    BY <2>1, <2>2 DEF RefInv, TreeInv, StoreInv
<1>1. ASSUME UNCHANGED entries, UNCHANGED disk
      PROVE  UNCHANGED <<TreeOf(Sealed), TreeOf(disk)>>
  <2>1. TreeOf(Sealed)' = TreeOf(Sealed)
    BY <1>0, <1>1 DEF Mapped
  <2> QED
    BY <1>1, <2>1
<1>2. \A p, content : p \in Path /\ content \in Content => 
        (Promise!Mkdir(p) \/ Promise!Prepare(p) \/ Promise!Delete(p) \/ Promise!Write(p, content)
           => Promise!Next)
  BY PromisePaths DEF Promise!Next
<1>3. \A p \in Path : Promise!Mkdir(p) \/ Promise!Prepare(p) \/ Promise!Delete(p) => Promise!Next
  BY PromisePaths DEF Promise!Next
<1>4. \A from, to \in Path : Promise!Move(from, to) \/ Promise!Copy(from, to) => Promise!Next
  BY PromisePaths DEF Promise!Next
<1>5. CASE BeginAdd \/ BeginDelete \/ BeginPack \/ Stream \/ FinishPack \/ FinishAdd
             \/ SourceError \/ FinishDelete \/ CompactFails \/ SealFails \/ UNCHANGED vars
  BY <1>1, <1>5 DEF BeginAdd, BeginDelete, Begin, BeginPack, Stream, FinishPack, FinishAdd,
                    SourceError, FinishDelete, CompactFails, SealFails, Abandon, memory, vars
<1>6. CASE CreateDirectory
  <2> DEFINE p == Head(todo).path
  <2>1. p \in Path
    <3>1. todo # <<>> /\ Head(todo).kind = "dir"
      BY <1>6 DEF CreateDirectory, AtItem
    <3> QED
      BY <1>0, <3>1, TailOfWork, ItemKinds DEF DirItem
  <2>2. CASE Abandon /\ UNCHANGED memory
    BY <1>1, <2>2 DEF Abandon, memory
  <2>3. CASE /\ ~HasFileAncestor(entries, p) /\ ~IsFile(entries, p)
             /\ entries' = WithDirectory(entries, p)
             /\ UNCHANGED disk
    <3>1. Promise!Mkdir(p)
      BY <1>0, <2>1, <2>3, MkdirStep
    <3> QED
      BY <1>3, <2>1, <3>1
  <2> QED
    BY <1>6, <2>2, <2>3 DEF CreateDirectory
<1>7. CASE BeginFile
  <2> DEFINE p == Head(todo).path
  <2>1. p \in Path
    <3>1. todo # <<>> /\ Head(todo).kind = "file"
      BY <1>7 DEF BeginFile, AtItem
    <3> QED
      BY <1>0, <3>1, TailOfWork, ItemKinds DEF FileItem
  <2>2. CASE Abandon /\ UNCHANGED memory
    BY <1>1, <2>2 DEF Abandon, memory
  <2>3. CASE IsDirectory(entries, p) /\ entries' = WithParents(entries, p) /\ Abandon
    BY <1>0, <1>1, <2>1, <2>3, DirectoryHasParents DEF Abandon
  <2>4. CASE /\ ~HasFileAncestor(entries, p) /\ ~IsDirectory(entries, p)
             /\ entries' = Without(WithParents(entries, p), p)
             /\ UNCHANGED disk
    <3>1. Promise!Prepare(p)
      BY <1>0, <2>1, <2>4, PrepareStep
    <3> QED
      BY <1>3, <2>1, <3>1
  <2> QED
    BY <1>7, <2>2, <2>3, <2>4 DEF BeginFile
<1>8. CASE FinishFile
  <2> DEFINE p == Head(todo).path
             e == FileEntry(p, Head(todo).chunks, 0)
  <2>1. op = "streaming" /\ Head(todo).kind = "file" /\ todo # <<>>
    BY <1>0, <1>8 DEF FinishFile, Streamed, WorkInv
  <2>2. Head(todo) \in FileItem
    BY <1>0, <2>1, TailOfWork, ItemKinds
  <2>3. /\ p \in Path /\ e \in Entry /\ e.path = p
        /\ Value(e) = [chunks |-> Extracted(Head(todo).chunks), offset |-> 0]
    BY <2>2 DEF FileItem, FileEntry, Entry, Value
  <2>4. Value(e) \in Content
    <3>1. Head(todo) = todo[1] /\ 1 \in 1..Len(todo)
      BY <1>0, <2>1 DEF WorkInv
    <3>2. FilesHeld(Head(todo)) \subseteq Content
      BY <1>0, <3>1 DEF WorkHeld
    <3> QED
      BY <2>1, <2>3, <3>2 DEF FilesHeld, FilesOf
  <2>5. entries' = entries \cup {e} /\ UNCHANGED disk
    BY <1>8 DEF FinishFile
  <2>6. ParentsThere(entries, p) /\ ~Exists(entries, p)
    BY <1>0, <2>1 DEF PlaceReady
  <2> HIDE DEF e
  <2>7. /\ entries' = Without(WithParents(entries, p), p) \cup {e}
        /\ ~HasFileAncestor(entries, p) /\ ~IsDirectory(entries, p)
    BY <1>0, <2>3, <2>5, <2>6, ReadyPlace
  <2>8. Promise!Write(e.path, Value(e))
    BY <1>0, <2>3, <2>5, <2>7, WriteStep
  <2> QED
    BY <1>2, <2>3, <2>4, <2>8
<1>9. CASE AddMember
  <2> DEFINE p == Head(todo).path
             e == FileEntry(p, Head(todo).chunks, Head(todo).offset)
  <2>1. Head(todo).kind = "member" /\ todo # <<>>
    BY <1>9 DEF AddMember, AtItem
  <2>2. Head(todo) \in FileOfPack
    BY <1>0, <2>1, TailOfWork, ItemKinds
  <2>3. /\ p \in Path /\ e \in Entry /\ e.path = p
        /\ Value(e) = [chunks |-> Extracted(Head(todo).chunks), offset |-> Head(todo).offset]
    BY <2>2 DEF FileOfPack, FileEntry, Entry, Value
  <2>4. Value(e) \in Content
    <3>1. Head(todo) = todo[1] /\ 1 \in 1..Len(todo)
      BY <1>0, <2>1 DEF WorkInv
    <3>2. FilesHeld(Head(todo)) \subseteq Content
      BY <1>0, <3>1 DEF WorkHeld
    <3> QED
      BY <2>1, <2>3, <3>2 DEF FilesHeld
  <2>5. CASE Abandon /\ UNCHANGED memory
    BY <1>1, <2>5 DEF Abandon, memory
  <2>6. CASE IsDirectory(entries, p) /\ entries' = WithParents(entries, p) /\ Abandon
    BY <1>0, <1>1, <2>3, <2>6, DirectoryHasParents DEF Abandon
  <2>7. CASE /\ ~HasFileAncestor(entries, p) /\ ~IsDirectory(entries, p)
             /\ entries' = Without(WithParents(entries, p), p) \cup {e}
             /\ UNCHANGED disk
    <3> HIDE DEF e
    <3>1. Promise!Write(e.path, Value(e))
      BY <1>0, <2>3, <2>7, WriteStep
    <3> QED
      BY <1>2, <2>3, <2>4, <3>1
  <2> QED
    BY <1>9, <2>5, <2>6, <2>7 DEF AddMember
<1>10. CASE DeleteName
  <2> DEFINE p == Head(todo).path
  <2>1. todo # <<>> /\ op = "deleting"
    BY <1>10 DEF DeleteName
  <2>2. p \in Path
    <3>1. Head(todo).kind = "name"
      BY <1>0, <2>1 DEF WorkInv
    <3> QED
      BY <1>0, <2>1, <3>1, TailOfWork, ItemKinds DEF NameItem
  <2>3. CASE Abandon /\ UNCHANGED memory
    BY <1>1, <2>3 DEF Abandon, memory
  <2>4. CASE /\ Exists(entries, p) /\ UNCHANGED disk
             /\ entries' = IF IsFile(entries, p)
                           THEN Without(entries, p)
                           ELSE entries \ Subtree(entries, p)
    <3>1. Promise!Delete(p)
      BY <1>0, <2>2, <2>4, DeleteStep
    <3> QED
      BY <1>3, <2>2, <3>1
  <2> QED
    BY <1>10, <2>3, <2>4 DEF DeleteName
<1>11. ASSUME NEW from \in Path, NEW to \in Path, MoveEntry(from, to)
       PROVE  [Promise!Next]_<<TreeOf(Sealed), TreeOf(disk)>>
  <2>1. CASE UNCHANGED entries /\ UNCHANGED disk
    BY <1>1, <2>1
  <2>2. CASE /\ from # to /\ CanRelocate(entries, from, to) /\ UNCHANGED disk
             /\ entries' = (WithParents(entries, to) \ Subtree(WithParents(entries, to), from))
                             \cup Relocated(WithParents(entries, to), from, to)
    <3>1. Promise!Move(from, to)
      BY <1>0, <2>2, MoveStep
    <3> QED
      BY <1>4, <3>1
  <2> QED
    BY <1>11, <2>1, <2>2 DEF MoveEntry, Relocate
<1>12. ASSUME NEW from \in Path, NEW to \in Path, CopyEntry(from, to)
       PROVE  [Promise!Next]_<<TreeOf(Sealed), TreeOf(disk)>>
  <2>1. CASE UNCHANGED entries /\ UNCHANGED disk
    BY <1>1, <2>1
  <2>2. CASE /\ from # to /\ CanRelocate(entries, from, to) /\ UNCHANGED disk
             /\ entries' = WithParents(entries, to)
                             \cup Relocated(WithParents(entries, to), from, to)
    <3>1. Promise!Copy(from, to)
      BY <1>0, <2>2, CopyStep
    <3> QED
      BY <1>4, <3>1
  <2> QED
    BY <1>12, <2>1, <2>2 DEF CopyEntry, Relocate
<1>13. ASSUME NEW from \in Path, NEW leaf \in Name, RenameEntry(from, leaf)
       PROVE  [Promise!Next]_<<TreeOf(Sealed), TreeOf(disk)>>
  <2>1. [from EXCEPT ![Len(from)] = leaf] \in Path
    <3>1. PICK n \in 1..MaxDepth : from \in [1..n -> Name]
      BY DEF Path
    <3> QED
      BY <3>1 DEF Path
  <2> QED
    BY <1>11, <1>13, <2>1 DEF RenameEntry
<1>14. CASE Seal
  <2>1. disk' = Sealed /\ UNCHANGED Sealed
    BY <1>14 DEF Seal, Sealed, memory
  <2>2. TreeOf(disk)' = TreeOf(Sealed) /\ UNCHANGED TreeOf(Sealed)
    BY <2>1
  <2>3. Promise!Commit
    BY <2>2 DEF Promise!Commit
  <2> QED
    BY <2>3 DEF Promise!Next
<1>15. CASE Reopen
  <2>1. Sealed' = disk /\ UNCHANGED disk
    BY <1>0, <1>15 DEF Reopen, Sealed
  <2>2. TreeOf(Sealed)' = TreeOf(disk) /\ UNCHANGED TreeOf(disk)
    BY <2>1
  <2>3. Promise!Revert
    BY <2>2 DEF Promise!Revert
  <2> QED
    BY <2>3 DEF Promise!Next
<1> QED
  BY <1>5, <1>6, <1>7, <1>8, <1>9, <1>10, <1>11, <1>12, <1>13, <1>14, <1>15
     DEF Next, Add, Delete

\* Read through the chunk store, an AEROVAULT3 container is the plain tree of
\* directories and whole files that VaultTree specifies: whatever the calls, the
\* failures and the crashes, deduplication, packing and compaction do not show.
THEOREM ImplementsPlainTree == Spec => ImplementsTree
<1>1. Init => RefInv /\ Promise!Init
  BY TreeInit, StoreInit, WorkHeldInit, PromiseInit DEF RefInv
<1>2. RefInv /\ [Next]_vars => RefInv'
  BY TreeStep, StoreStep, WorkHeldStep DEF RefInv
<1>3. RefInv /\ RefInv' /\ [Next]_vars => [Promise!Next]_<<TreeOf(Sealed), TreeOf(disk)>>
  BY RefStep
<1> QED
  BY <1>1, <1>2, <1>3, PTL DEF Spec, ImplementsTree, Promise!Spec
=============================================================================
