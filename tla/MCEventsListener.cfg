\* Two crashes and one failed call to the node, at any of the listener's steps.
SPECIFICATION ServerSpec
CONSTANTS
  Chains <- AllChains
  Prefix <- SharedPrefixes
  MaxCrashes = 2
  MaxRpcFailures = 1
  Requests <- SomeRequests
INVARIANTS TypeOK CursorSound DealsCounted LatestCreditListed CrashLosesOne
INVARIANTS PageKeepsCount StatsMissNothing
PROPERTIES ReplayKeepsProgress CatchesUp
CHECK_DEADLOCK FALSE
