\* A committee of three and a fourth candidate, so that a threshold of two is a
\* majority when it is proposed and none after the fourth member has come; one
\* application to have a project, an asset and an issue approved.
SPECIFICATION CommitteeSpec
CONSTANTS
  MaxU64 = 3
  Accounts = {owner}
  Signers = {owner}
  Texts = {"t"}
  MaxSupplies = {2}
  InitialSupplies = {1}
  IssueAmounts = {1, 2}
  BurnAmounts = {}
  MoveAmounts = {}
  MaxProjects = 1
  MaxAssets = 1
  MaxIssues = 2
  MaxBurns = 0
  Candidates = {m1, m2, m3, m4}
  GenesisMembers = {m1, m2, m3}
  NoPrime = NoPrime
  Thresholds = {1, 2, 3}
  CarbonMotionDuration = 1
  CarbonMaxProposals = 1
SYMMETRY Symmetry
INVARIANTS CommitteeTypeOK VotersAreMembers
PROPERTY ApprovalNeedsMajority
