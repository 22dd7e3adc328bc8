-------------------------- MODULE MCStandardAssets --------------------------
(***************************************************************************)
(* Small instances of StandardAssets for TLC.                              *)
(***************************************************************************)
EXTENDS StandardAssets, TLC

Symmetry == Permutations(Accounts)
=============================================================================
