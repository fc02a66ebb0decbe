SPECIFICATION FairSpec
CONSTANTS
    flush = flush
    webhook = webhook
    j1 = j1
    j2 = j2
    w1 = w1
    w2 = w2
    Queues = {flush, webhook}
    QueueOrder <- MCOneQueue
    Jobs = {j1, j2}
    QueueOf <- MCQueueOfOne
    Workers = {w1, w2}
    NoEntry = NoEntry
    MaxAttempts = 2
    BatchLimit = 2
    ReleaseLimit = 2
    MayHang = TRUE
    MaxFaults = 1
    MaxCrashes = 1
INVARIANTS TypeOK DeadAfterAllAttempts LossesAreExplained
PROPERTIES ImplementsJobBoard NothingStuck
CHECK_DEADLOCK FALSE
