--------------------------- MODULE MCCorrectFile ---------------------------
(***************************************************************************)
(* A file of three shards in two windows, the second of which is not full, *)
(* and its sidecar, or that of a file that differs in one shard, or none.  *)
(***************************************************************************)
EXTENDS CorrectFile

MCOriginal == <<0, 0, 0>>
MCGiven    == { MCOriginal, <<1, 0, 0>> }
=============================================================================
