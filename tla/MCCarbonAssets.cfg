\* One project of max_supply 2, or 3 = u64::MAX, two assets, and every order of
\* requests, approvals and transfers between two key holders.
SPECIFICATION Spec
CONSTANTS
  MaxU64 = 3
  Accounts = {alice, bob}
  Signers = {alice, bob}
  Texts = {"t"}
  MaxSupplies = {2, 3}
  InitialSupplies = {0, 2}
  IssueAmounts = {1, 2}
  BurnAmounts = {1, 2}
  MoveAmounts = {1, 2}
  MaxProjects = 1
  MaxAssets = 2
  MaxIssues = 2
  MaxBurns = 2
SYMMETRY Symmetry
INVARIANTS SupplyConserved SupplyConservedModulo IssuesAccounted ProjectSupplyTracks ApprovalChain BurnsCovered
CHECK_DEADLOCK FALSE
