\* Is a burn request that is already on record refused?
SPECIFICATION Spec
CONSTANTS
  MaxU64 = 3
  Accounts = {alice, bob}
  Signers = {alice, bob}
  Texts = {"t"}
  MaxSupplies = {3}
  InitialSupplies = {0, 2}
  IssueAmounts = {1, 2}
  BurnAmounts = {1, 2}
  MoveAmounts = {1, 2}
  MaxProjects = 1
  MaxAssets = 2
  MaxIssues = 2
  MaxBurns = 2
SYMMETRY Symmetry
PROPERTY BurnNotResubmitted
CHECK_DEADLOCK FALSE
