SPECIFICATION FairSpec
CONSTANTS
    Items = {x1, x2, x3}
    Workers = {w1, w2}
    QueueMax = 2
    QueueKeep = 1
    MaxAttempts = 2
    MaxHooks = 2
INVARIANTS
    NoSilentLoss
PROPERTIES
    OrderKept
    ContractKept
    EventuallySettled
CHECK_DEADLOCK FALSE
