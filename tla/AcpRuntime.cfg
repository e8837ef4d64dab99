SPECIFICATION FairSpec
CONSTANTS
    None = None
    WarmupTurn = WarmupTurn
    ControlTurn = ControlTurn
    MaxMessages = 2
    TaskRuns = {2}
    Removals = {}
    ChannelOf <- OneChannel
    StallTicks = 1
    MaxLaunches = 2
    MaxFaults = 1
INVARIANTS
    TypeOK
    MapFollowsExits
    OnePromptAtATime
PROPERTIES
    PromptsInOrder
    LifecycleSpec
    EveryPromptStarts
    HungIsRemoved
CHECK_DEADLOCK FALSE
