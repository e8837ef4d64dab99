SPECIFICATION Spec
CONSTANTS
    Agents = {a1, a2}
    Tasks = {t1}
    MaxEvents = 3
    MaxConns = 2
    MaxOpen = 1
    BatchLimit = 2
    MaxBatches = 2
    SlowHandshake = TRUE
PROPERTIES FeedSpec
CHECK_DEADLOCK FALSE
