SPECIFICATION FairSpec
CONSTANTS
    None = None
    WarmupTurn = WarmupTurn
    ControlTurn = ControlTurn
    MaxMessages = 3
    TaskRuns = {2}
    Removals = {3}
    ChannelOf <- OneChannel
    StallTicks = 1
    MaxLaunches = 2
    RestartOnCrash = TRUE
    MaxFaults = 1
INVARIANTS
    TypeOK
    ChildrenAreOwned
    BooksFollowQueue
    NothingWaitsOnIdleChild
    RunIsTurn
    CutoffHolds
PROPERTIES
    PromptsInOrder
    LifecycleSpec
    EveryPromptStarts
    EveryRunEnds
CHECK_DEADLOCK FALSE
