SPECIFICATION FairSpec
CONSTANTS
    Bidders = {alice, bob}
    DAO = DAO
    HOUSE = HOUSE
    NOUNDERS = NOUNDERS
    ZERO = ZERO
    Wallet = 3
    MaxNounId = 2
    MaxTime = 4
    RewardUntil = 0
    RewardEvery = 2
    TimeBuffers = {0, 2}
    ReservePrices = {1, 2}
    Percentages = {50}
    Durations = {1}
INVARIANTS Solvent  MoneyAccounted UnpausedMeansLive
PROPERTIES SettledIsFinal BidLeavesTimeToAnswer EndedAuctionIsSettled
CHECK_DEADLOCK FALSE
