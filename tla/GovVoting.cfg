SPECIFICATION Spec
CONSTANTS
  alice = alice bob = bob carol = carol pay = pay burn = burn lock1 = lock1 lock2 = lock2
  ZERO = ZERO
  MIN_VOTING_PERIOD_BLOCKS = 1 MAX_VOTING_PERIOD_BLOCKS = 3
  MIN_VOTING_DELAY_BLOCKS = 1 MAX_VOTING_DELAY_BLOCKS = 3
  MAX_OBJECTION_PERIOD_BLOCKS = 2 MAX_UPDATABLE_PERIOD_BLOCKS = 2
  MIN_FORK_PERIOD = 1 MAX_FORK_PERIOD = 3
  Supplies = {10} Delay <- EqualDelay GRACE_PERIOD <- Graces
  Accounts = {alice, bob, carol} Timelocks = {lock1}
  Proposers = {alice} Signers = {} Voters = {alice, bob, carol}
  Asked <- VotingSettings Deployed <- LongVote DeployedQuorum <- Quorum0 DeployedVetoer = alice
  Contents <- Pay VoteTables <- Votes1 Expiries = {1}
  MaxProposals = 1 MaxTime = 6 MaxCancelled = 0 MaxCheckpoints = 2
INVARIANTS BallotsShareSnapshot TalliesMatchReceipts
PROPERTIES LifeCycle LateSwingIsContested
CHECK_DEADLOCK FALSE
