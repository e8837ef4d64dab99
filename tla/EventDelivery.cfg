SPECIFICATION FairSpec
CONSTANTS
    Agents = {a1}
    Tasks = {t1, t2}
    MaxEvents = 3
    MaxConns = 2
    MaxOpen = 2
    BatchLimit = 3
    MaxBatches = 2
    SlowHandshake = FALSE
INVARIANTS TypeOK OnlyExcusedSkipped CursorCoversSent NeverEvictedByItself
PROPERTIES EventuallyDelivered
CHECK_DEADLOCK FALSE
