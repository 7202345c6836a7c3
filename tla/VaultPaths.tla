---------------------------- MODULE VaultPaths ----------------------------
(***************************************************************************)
(* Vault-relative paths, as aerovault/src/v3/vault.rs handles them.  A     *)
(* normalised path ("a/b/c": no empty, "." or ".." component) is the       *)
(* nonempty sequence of its components; the string tests of the code       *)
(* (starts_with plus a '/' at the right place) are then tests on prefixes. *)
(***************************************************************************)
EXTENDS Integers, Sequences, SequencesExt

CONSTANTS
  Name,      \* path components
  MaxDepth   \* bound: the longest path of the model (the code has none)

ASSUME DepthAssumption == MaxDepth \in Nat \ {0}

Path == UNION { [1..n -> Name] : n \in 1..MaxDepth }

\* p lies strictly below q.
IsDescendantOf(p, q) == IsStrictPrefix(q, p)

\* p is q or lies below it: the subtree test of delete, move and copy.
InSubtree(p, q) == p = q \/ IsDescendantOf(p, q)

\* The path p, which is in the subtree of from, with that prefix replaced by to.
RemapEntryPath(p, from, to) == to \o SubSeq(p, Len(from) + 1, Len(p))
=============================================================================
