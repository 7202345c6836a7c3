-------------------------- MODULE MCSidecarLocator -------------------------
(***************************************************************************)
(* Sidecars of an empty file and of one of two windows, the second of      *)
(* which is not full.                                                      *)
(***************************************************************************)
EXTENDS SidecarLocator

MCTotalLens == {0, 3}
=============================================================================
