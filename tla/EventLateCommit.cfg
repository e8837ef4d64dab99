SPECIFICATION Spec
CONSTANTS
    Agents = {a1}
    Tasks = {t1, t2}
    MaxEvents = 3
    MaxConns = 1
    MaxOpen = 2
    BatchLimit = 3
    MaxBatches = 2
    SlowHandshake = FALSE
INVARIANTS NothingSkipped
SYMMETRY TaskSymmetry
CHECK_DEADLOCK FALSE
