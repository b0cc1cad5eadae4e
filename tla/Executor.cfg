SPECIFICATION Spec
CONSTANTS
    Accounts = {dao, successor}
    ZERO = ZERO
    Others = {pay}
    Delays = {1, 2, 4}
    MINIMUM_DELAY = 1
    MAXIMUM_DELAY = 2
    GRACE_PERIOD = 1
    MaxTime = 4
    MaxCalls = 2
INVARIANTS TypeOK
PROPERTIES AdminWasNamed KeepsPromise
CHECK_DEADLOCK FALSE
