-------------------------- MODULE MCCarbonExchange --------------------------
(***************************************************************************)
(* Small instances of CarbonExchange for TLC.                              *)
(***************************************************************************)
EXTENDS CarbonExchange, TLC

Symmetry == Permutations(Signers)
=============================================================================
