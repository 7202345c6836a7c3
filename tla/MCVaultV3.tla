----------------------------- MODULE MCVaultV3 -----------------------------
(***************************************************************************)
(* Small instances of VaultV3.  Two names and two levels give a nested     *)
(* directory to move, a file to stand in the way, and a missing ancestor   *)
(* to create; three chunks give content that is new, shared and dropped,   *)
(* and a fourth has a block above MAX_BLOCK_SIZE.                          *)
(***************************************************************************)
EXTENDS VaultV3, TLC

CONSTANTS a, b, c1, c2, c3, large

MCName  == {a, b}
MCChunk == {c1, c2, c3, large}

MCOversized == {large}

DirAt(p)        == [kind |-> "dir", path |-> p]
FileAt(p, ids)  == [kind |-> "file", path |-> p, chunks |-> ids]
NameAt(p, r)    == [kind |-> "name", path |-> p, recursive |-> r]

\* Two files of which one lies inside the chunk that the other one begins,
\* and an empty one.
SmallFiles ==
  [kind    |-> "pack",
   chunks  |-> <<c2, c3>>,
   members |-> << [path |-> <<a, b>>, first |-> 1, last |-> 2, offset |-> 0],
                  [path |-> <<b>>, first |-> 2, last |-> 2, offset |-> 1],
                  [path |-> <<b, a>>, first |-> 1, last |-> 0, offset |-> 0] >>]

MCAddJobs ==
  { << DirAt(<<a, b>>) >>,                                \* create_directory
    << FileAt(<<a>>, <<c1, c2>>) >>,                      \* add_files
    << FileAt(<<a, b>>, <<c2, c1>>), SmallFiles >>,       \* add_files, both paths
    << DirAt(<<b>>), FileAt(<<b, a>>, <<c1, large, c1>>) >> }    \* add_files_to_dir

MCDeleteJobs ==
  { << NameAt(<<a, b>>, FALSE) >>,                        \* delete_entry
    << NameAt(<<b>>, FALSE) >>,
    << NameAt(<<b, a>>, TRUE), NameAt(<<a>>, TRUE) >> }   \* delete_entries
=============================================================================
