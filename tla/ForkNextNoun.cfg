SPECIFICATION Spec
CONSTANTS
    alice = alice
    bob = bob
    Accounts = {alice, bob}
    TIMELOCK = TIMELOCK
    ESCROW = ESCROW
    HOUSE = HOUSE
    ZERO = ZERO
    MaxNounId = 2
    FirstOwners <- OneHolder
    Treasury0 = 7
    ThresholdBPS = 2000
    ForkPeriod = 1
    GovernanceDelay = 2
    MaxForks = 1
    MaxTransfers = 1
    MaxTime = 3
INVARIANT NextNounIsFree
CHECK_DEADLOCK FALSE
