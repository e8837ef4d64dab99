SPECIFICATION FairSpec
CONSTANTS
    r1 = r1
    r2 = r2
    dead = dead
    Runs <- MCRuns
    Abandoned <- MCAbandoned
    Capacity = 1
    LeaseTicks = 2
INVARIANTS TypeOK CapacityRespected NoIdleCapacity
PROPERTIES TerminalStays LeaseIsHonoured OldestFirst EventuallyServed
CHECK_DEADLOCK FALSE
