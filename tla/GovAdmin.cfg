SPECIFICATION Spec
CONSTANTS
  alice = alice bob = bob carol = carol pay = pay burn = burn lock1 = lock1 lock2 = lock2
  ZERO = ZERO
  MIN_VOTING_PERIOD_BLOCKS = 1 MAX_VOTING_PERIOD_BLOCKS = 3
  MIN_VOTING_DELAY_BLOCKS = 1 MAX_VOTING_DELAY_BLOCKS = 3
  MAX_OBJECTION_PERIOD_BLOCKS = 2 MAX_UPDATABLE_PERIOD_BLOCKS = 2
  MIN_FORK_PERIOD = 1 MAX_FORK_PERIOD = 3
  Supplies = {10} Delay <- EqualDelay GRACE_PERIOD <- Graces
  Accounts = {alice, bob} Timelocks = {lock1, lock2}
  Proposers = {} Signers = {} Voters = {}
  Asked <- EverySetting Deployed <- Settings0 DeployedQuorum <- MinQuorum DeployedVetoer = alice
  Contents <- Pay VoteTables <- Votes3 Expiries = {1}
  MaxProposals = 0 MaxTime = 3 MaxCancelled = 0 MaxCheckpoints = 3
INVARIANTS QuorumParamsConsistent
PROPERTIES PastQuorumFixed VetoBurntForever
CHECK_DEADLOCK FALSE
