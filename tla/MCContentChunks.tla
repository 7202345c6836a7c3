-------------------------- MODULE MCContentChunks --------------------------
(***************************************************************************)
(* Any file of three to five bytes; three small files, two of which may    *)
(* have the same path; and a large file between small ones.  A byte has    *)
(* two values, the hash three bits.                                        *)
(***************************************************************************)
EXTENDS ContentChunks

MCGear == 0 :> 1 @@ 1 :> 6

File(path, content) == [path |-> path, content |-> content]

Contents(lengths) == UNION { [1..n -> {0, 1}] : n \in lengths }

Tiny == { <<>>, <<1>>, <<0, 1>> }

MCRequests ==
  { << File(1, c) >> : c \in Contents(3..5) }
    \cup { << File(2, a), File(1, b), File(p, c) >> : p \in {1, 3}, a \in Tiny, b \in Tiny, c \in Tiny }
    \cup { << File(2, a), File(1, <<0, 1, 1, 0>>), File(1, b) >> : a \in Tiny, b \in Tiny }
=============================================================================
