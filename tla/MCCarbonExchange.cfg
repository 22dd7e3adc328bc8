\* A price below the existential deposit and products that saturate a u64: the pot may be
\* reaped, a lock may wrap, and the payment of a taken bid may fail after the assets moved.
SPECIFICATION ExchangeSpec
CONSTANTS
  MaxU64 = 4
  Pot = pot
  Accounts = {alice, bob, pot}
  Signers = {alice, bob}
  Texts = {"t"}
  MaxSupplies = {3}
  InitialSupplies = {2}
  IssueAmounts = {1}
  BurnAmounts = {1}
  MoveAmounts = {2}
  MaxProjects = 1
  MaxAssets = 1
  MaxIssues = 0
  MaxBurns = 0
  Prices = {1, 3}
  OrderAmounts = {2}
  Salts = {0}
  TakeAmounts = {1, 2}
  NativeAmounts = {4}
  Endowment = 4
  ExistentialDeposit = 2
  MaxOrders = 2
SYMMETRY Symmetry
INVARIANTS SupplyConserved PotHoldsAsks BidBacking PotCoversBids
PROPERTIES PotSurplusKept UnpaidTakes ImplementsMarket
CHECK_DEADLOCK FALSE
