\* Two stakers, a reserve that runs short, a recipient that may refuse or be the
\* contract itself; a pool that can back one or two policies; a proposal over the
\* power of two voters, who come and go while it is open; three
\* guardians, two keys and time for a proposal, another one and its timelock.
SPECIFICATION MCSpec
CONSTANTS
  neoSafe = neoSafe
  self = self
  Stakers = {u1, u2}
  Recipients <- MCRecipients
  Contract = self
  MinimumStake = 2
  Ether = 2
  RewardRate = 1
  CommissionBps = 1
  BpsDenominator = 2
  Deposits = {1, 2, 3}
  Funds = {1, 2}
  Prefunded = {0}
  MaxTime = 4
  MaxStaked = 6
  MaxFunded = 3
  Holders = {h1, h2}
  NoHolder = nobody
  Oracles = {o1, o2}
  poolAddress = poolAddress
  FeeRecipients <- MCFeeRecipients
  Pool = poolAddress
  Conditions = {c1}
  Rates = {4}
  RateDenominator = 10
  Coverages = {5, 10}
  MinCoverage = 4
  MaxCoverage = 10
  PolicyDuration = 2
  MinPolicyAge = 1
  MaxActivePolicies = 1
  ReserveRatio = 5
  Donations = {10}
  MaxPolicies = 2
  MaxPool = 12
  MaxInsuranceTime = 4
  Voters = {v1, v2}
  Owner = owner
  Models = {"QuadraticVoting"}
  VotingDelay = 1
  VotingPeriod = 0
  TimelockDelay = 1
  QuorumBps = 2
  VotesDenominator = 2
  VoteDeposits = {1, 2}
  Spendings = {1}
  MaxProposals = 1
  MaxVotingPower = 2
  MaxCheckpoints = 2
  MaxBlock = 5
  Keys = {key1, key2}
  NoKey = nobody
  Addresses = {g1, g2, g3}
  RecoveryTimelock = 2
  MaxAccountTime = 4
SYMMETRY ContractSymmetry
INVARIANTS
  PrincipalIsThere
  RewardsAreForStakeAndTime
  CoverageIsBacked
  PoliciesAreCounted
  SnapshotsHold
  DepositorsAreWhole
PROPERTIES
  OutcomeIsFinal
  GuardiansDecide
CHECK_DEADLOCK FALSE
