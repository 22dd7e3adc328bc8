------------------------- MODULE MCCarbonCommittee -------------------------
(***************************************************************************)
(* A small instance of CarbonCommittee for TLC.                            *)
(***************************************************************************)
EXTENDS CarbonCommittee, TLC

Symmetry == Permutations(GenesisMembers)
=============================================================================
