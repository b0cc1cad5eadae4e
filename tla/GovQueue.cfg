SPECIFICATION Spec
CONSTANTS
  alice = alice bob = bob carol = carol pay = pay burn = burn lock1 = lock1 lock2 = lock2
  ZERO = ZERO
  MIN_VOTING_PERIOD_BLOCKS = 1 MAX_VOTING_PERIOD_BLOCKS = 3
  MIN_VOTING_DELAY_BLOCKS = 1 MAX_VOTING_DELAY_BLOCKS = 3
  MAX_OBJECTION_PERIOD_BLOCKS = 2 MAX_UPDATABLE_PERIOD_BLOCKS = 2
  MIN_FORK_PERIOD = 1 MAX_FORK_PERIOD = 3
  Supplies = {10} Delay <- EqualDelay GRACE_PERIOD <- EqualGraces
  Accounts = {alice, bob} Timelocks = {lock1, lock2}
  Proposers = {alice, bob} Signers = {} Voters = {alice}
  Asked <- TwoLocksAndFork Deployed <- NoWindow DeployedQuorum <- Quorum0 DeployedVetoer = ZERO
  Contents <- BurnAndPay VoteTables <- Votes3 Expiries = {1}
  MaxProposals = 2 MaxTime = 6 MaxCancelled = 0 MaxCheckpoints = 1
INVARIANTS  MadeCallsHaveOneProposal
PROPERTIES  TimelocksKeepPromise
CHECK_DEADLOCK FALSE
