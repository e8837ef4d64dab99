SPECIFICATION FairSpec
CONSTANTS
    None = None
    MaxMessages = 2
    TaskRuns = {2}
    Removals = {}
    ChannelOf <- OneChannel
    StallTicks = 1
    Capacity = 1
    LeaseTicks = 4
    MaxLaunches = 2
    MaxFaults = 1
INVARIANTS
    TypeOK
    RunHoldsLease
PROPERTIES
    EveryPromptStarts
CHECK_DEADLOCK FALSE
