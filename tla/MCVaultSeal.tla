---------------------------- MODULE MCVaultSeal ----------------------------
(***************************************************************************)
(* Two handles and two edits for VaultSeal.  Section lengths either tell   *)
(* the edits apart or, as a renaming to a name of the same length does,    *)
(* leave a container as long as it was.                                    *)
(***************************************************************************)
EXTENDS VaultSeal, FiniteSetsExt, TLC

CONSTANTS h1, h2, add, rename

MCHandle == {h1, h2}
MCEdit   == {add, rename}

Weight(e) == IF e = add THEN 1 ELSE 2

\* Every edit changes the lengths in its own way.
DistinctLengths == [E \in SUBSET MCEdit |-> SumSet({ Weight(e) : e \in E })]

\* A renaming keeps the lengths.
RenameKeepsLengths == [E \in SUBSET MCEdit |-> SumSet({ Weight(e) : e \in E \ {rename} })]
=============================================================================
