\* Two accounts, the id each of them can issue, and u64 amounts up to 3.
SPECIFICATION Spec
CONSTANTS
  MaxU64 = 3
  Accounts = {alice, bob}
  Names = {"n"}
  MaxSupplies = {2}
  FirstSupplies = {2}
  Amounts = {0, 1, 3}
SYMMETRY Symmetry
INVARIANT HeldMatchesTotal
