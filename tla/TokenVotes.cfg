SPECIFICATION Spec
CONSTANTS
    Accounts = {alice, bob}
    ZERO = ZERO
    MaxNounId = 2
    FirstBlock = 1
    MaxBlock = 2
    MaxNonce = 1
    RewardUntil = 0
    RewardEvery = 2
    RejectsZeroBySig = TRUE
    Spenders = {bob}
    MinterChoices = {alice}
    NoundersChoices = {bob}
    Proxies <- NoProxies
INVARIANTS BalancesCountHoldings VotesMatchDelegations CheckpointsOrdered
PROPERTIES ImplementsSnapshots BurntStaysBurnt ApprovalEndsWithOwnership
CONSTRAINT MinterUnlocked
CHECK_DEADLOCK FALSE
