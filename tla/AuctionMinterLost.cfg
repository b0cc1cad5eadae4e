SPECIFICATION Spec
CONSTANTS
    Bidders = {alice, bob}
    DAO = DAO
    HOUSE = HOUSE
    NOUNDERS = NOUNDERS
    ZERO = ZERO
    Wallet = 2
    MaxNounId = 2
    MaxTime = 3
    RewardUntil = 0
    RewardEvery = 2
    TimeBuffers = {1}
    ReservePrices = {1}
    Percentages = {2}
    Durations = {1}
INVARIANT AnyoneCanSettle
CHECK_DEADLOCK FALSE
