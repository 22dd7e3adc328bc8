------------------------------- MODULE Storage -------------------------------
(***************************************************************************)
(* What every pallet of the ECO2 runtime is written with: FRAME storage    *)
(* maps, u64 arithmetic as the release and wasm builds perform it, and the *)
(* sum of a map, in which the supply properties are stated.                *)
(*                                                                         *)
(* A storage map that yields an Option is a function whose DOMAIN is the   *)
(* set of keys present.  A map that yields a u64 reads 0 for an absent key *)
(* and no pallet ever asks it for its keys: it is a total function.        *)
(***************************************************************************)
EXTENDS Integers, FiniteSets

CONSTANT MaxU64     \* u64::MAX; small in the model-checked instances

ASSUME MaxU64Assumption == MaxU64 \in Nat \ {0}

U64 == 0 .. MaxU64
-----------------------------------------------------------------------------
(* StorageMap::insert *)
Insert(map, key, value) ==
  [k \in DOMAIN map \cup {key} |-> IF k = key THEN value ELSE map[k]]

(* StorageMap::remove *)
Remove(map, key) == [k \in DOMAIN map \ {key} |-> map[k]]
-----------------------------------------------------------------------------
(* `a + b` and `a - b` on u64.  overflow-checks is off in the release       *)
(* profile (Cargo.toml), which also builds the wasm runtime: both wrap.     *)
WrapAdd(a, b) == IF a + b > MaxU64 THEN a + b - (MaxU64 + 1) ELSE a + b

WrapSub(a, b) == IF a < b THEN a - b + (MaxU64 + 1) ELSE a - b

(* u64::saturating_mul *)
SaturatingMul(a, b) == IF a * b > MaxU64 THEN MaxU64 ELSE a * b
-----------------------------------------------------------------------------
(* Equality of two amounts up to u64 wrap-around. *)
SameModulo(a, b) == (a - b) % (MaxU64 + 1) = 0

(* The sum of a map of u64 values, counted unit by unit: key k stands for   *)
(* the units <<k, 1>> .. <<k, map[k]>>.  This is the fold SumFunction of the *)
(* community modules (MCCarbonAssets compares the two) in the form that the  *)
(* finite-set theorems can reason about.                                     *)
Units(map) == UNION {{k} \X (1 .. map[k]) : k \in DOMAIN map}
Total(map) == Cardinality(Units(map))
=============================================================================
