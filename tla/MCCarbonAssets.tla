--------------------------- MODULE MCCarbonAssets ---------------------------
(***************************************************************************)
(* Small instances of CarbonAssets for TLC.                                *)
(***************************************************************************)
EXTENDS CarbonAssets, TLC

LOCAL INSTANCE Functions

(* The sum that the properties use is the fold of the community modules. *)
ASSUME TotalIsSum ==
  \A D \in SUBSET {"a", "b", "c"} : \A f \in [D -> 0 .. 3] :
    Total(f) = FoldFunction(+, 0, f)

Symmetry == Permutations(Signers)
=============================================================================
