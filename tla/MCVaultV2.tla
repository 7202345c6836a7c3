----------------------------- MODULE MCVaultV2 ------------------------------
(***************************************************************************)
(* Two handles on a small AEROVAULT2 container: two names, directories one *)
(* deep, contents of no chunk, of one and of two.                          *)
(***************************************************************************)
EXTENDS VaultV2

CONSTANTS none, short, long, x, y

MCContent    == {none, short, long}
MCChunkTotal == none :> 0 @@ short :> 1 @@ long :> 2

File(n, c) == [name |-> n, content |-> c]

MCBatch == { <<File(x, short), File(y, long)>>, <<File(x, long), File(y, none)>> }

MCAsked == { <<x>>, <<y>>, <<x, y>> }

MCSetting == { [alone |-> FALSE, windows |-> FALSE], [alone |-> TRUE, windows |-> TRUE] }

\* Of both versions one with two files; an empty one of the older, and one of the
\* newer whose first file was deleted.
Filled(version) ==
  AddFiles(Empty(version), Root, <<File(x, short), File(y, long)>>, version = Version, 0)

MCStart ==
  { Empty(LegacyVersion), Filled(LegacyVersion), Filled(Version),
    DeleteEntries(Filled(Version), {<<x>>}, FALSE) }

Interchangeable == Permutations(Handle)
=============================================================================
