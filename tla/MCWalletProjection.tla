------------------------- MODULE MCWalletProjection -------------------------
(***************************************************************************)
(* Instances of WalletProjection.                                          *)
(***************************************************************************)
EXTENDS WalletProjection, TLC

CONSTANTS c1, c2

TwoCommands == {c1, c2}
Interchangeable == Permutations(Commands)
=============================================================================
