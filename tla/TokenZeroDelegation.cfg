SPECIFICATION Spec
CONSTANTS
    Accounts = {alice, bob}
    ZERO = ZERO
    MaxNounId = 1
    FirstBlock = 1
    MaxBlock = 1
    MaxNonce = 1
    RewardUntil = 0
    RewardEvery = 2
    RejectsZeroBySig = FALSE
    Spenders = {}
    MinterChoices = {}
    NoundersChoices = {}
    Proxies <- NoProxies
INVARIANT DelegateHasTheVotes
CHECK_DEADLOCK FALSE
