SPECIFICATION FairSpec
CONSTANTS
    d1 = d1
    d2 = d2
    None = None
    Daemons <- MCDaemons
    Managed <- MCManaged
    LeaseTicks = 1
    MaxDrops = 1
    Crashes = TRUE
INVARIANTS TypeOK OnlyHubConnected
PROPERTIES EventuallyOneDaemon
CHECK_DEADLOCK FALSE
