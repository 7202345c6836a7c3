----------------------------- MODULE VaultTree -----------------------------
(***************************************************************************)
(* What an AEROVAULT3 handle promises its caller: a directory tree that    *)
(* the operations edit, and a saved copy of it that changes as a whole.    *)
(* There are no chunks, no block indices, no data section and no           *)
(* compaction here: that content survives all of these is what a           *)
(* refinement of this module shows.  An operation that fails midway leaves *)
(* the tree between two edits, as the documentation of the handle admits   *)
(* no rollback; Prepare is the edit such a failure exposes.                *)
(***************************************************************************)
EXTENDS VaultPaths

CONSTANTS Content, Dir

VARIABLES
  tree,   \* path -> Dir or the content of the file there, a partial function
  saved   \* the tree that opening the container gives

Ancestors(p) == { q \in Path : IsDescendantOf(p, q) }

IsFileAt(p) == p \in DOMAIN tree /\ tree[p] # Dir
IsDirAt(p)  == p \in DOMAIN tree /\ tree[p] = Dir

\* A file or a directory can be at p: nothing above it is a file.
CanHold(p) == \A q \in Ancestors(p) : ~IsFileAt(q)

Parented(p) ==
  [q \in DOMAIN tree \cup Ancestors(p) |-> IF q \in DOMAIN tree THEN tree[q] ELSE Dir]

With(t, p, v) == [q \in DOMAIN t \cup {p} |-> IF q = p THEN v ELSE t[q]]

Mkdir(p) ==
  /\ CanHold(p) /\ ~IsFileAt(p)
  /\ tree' = With(Parented(p), p, Dir)
  /\ UNCHANGED saved

\* The place for a new file is made, and with it an older file is given up.
Prepare(p) ==
  /\ CanHold(p) /\ ~IsDirAt(p)
  /\ tree' = [q \in (DOMAIN tree \cup Ancestors(p)) \ {p} |-> Parented(p)[q]]
  /\ UNCHANGED saved

Write(p, content) ==
  /\ CanHold(p) /\ ~IsDirAt(p)
  /\ tree' = With(Parented(p), p, content)
  /\ UNCHANGED saved

Delete(p) ==
  /\ p \in DOMAIN tree
  /\ tree' = [q \in { q \in DOMAIN tree : ~InSubtree(q, p) } |-> tree[q]]
  /\ UNCHANGED saved

SubtreeAt(p) == { q \in DOMAIN tree : InSubtree(q, p) }

Image(from, to) == { RemapEntryPath(q, from, to) : q \in SubtreeAt(from) }

CanGo(from, to) ==
  /\ from \in DOMAIN tree
  /\ to \notin DOMAIN tree
  /\ ~InSubtree(to, from)
  /\ CanHold(to)
  /\ Image(from, to) \subseteq Path

\* The subtree at from reappears at to, node by node.
Copy(from, to) ==
  /\ CanGo(from, to)
  /\ tree' = [q \in DOMAIN Parented(to) \cup Image(from, to) |->
                IF InSubtree(q, to)
                THEN tree[RemapEntryPath(q, to, from)]
                ELSE Parented(to)[q]]
  /\ UNCHANGED saved

Move(from, to) ==
  /\ CanGo(from, to)
  /\ tree' = [q \in (DOMAIN Parented(to) \ SubtreeAt(from)) \cup Image(from, to) |->
                IF InSubtree(q, to)
                THEN tree[RemapEntryPath(q, to, from)]
                ELSE Parented(to)[q]]
  /\ UNCHANGED saved

Commit == saved' = tree /\ UNCHANGED tree
Revert == tree' = saved /\ UNCHANGED saved

Init == tree = <<>> /\ saved = <<>>

Next ==
  \/ \E p \in Path : Mkdir(p) \/ Prepare(p) \/ Delete(p)
  \/ \E p \in Path, content \in Content : Write(p, content)
  \/ \E from, to \in Path : Move(from, to) \/ Copy(from, to)
  \/ Commit
  \/ Revert

Spec == Init /\ [][Next]_<<tree, saved>>
=============================================================================
