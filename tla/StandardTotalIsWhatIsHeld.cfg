\* The same instance: units minted under an id before it is issued.
SPECIFICATION Spec
CONSTANTS
  MaxU64 = 3
  Accounts = {alice, bob}
  Names = {"n"}
  MaxSupplies = {2}
  FirstSupplies = {2}
  Amounts = {0, 1, 3}
SYMMETRY Symmetry
INVARIANT TotalIsWhatIsHeld
