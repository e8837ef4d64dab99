SPECIFICATION FairSpec
CONSTANTS
    None = None
    WarmupTurn = WarmupTurn
    ControlTurn = ControlTurn
    MaxMessages = 2
    TaskRuns = {2}
    Removals = {}
    ChannelOf <- OneChannel
    StallTicks = 1
    MaxLaunches = 1
    RestartOnCrash = TRUE
    MaxFaults = 1
PROPERTY HungIsReplaced
CHECK_DEADLOCK FALSE
