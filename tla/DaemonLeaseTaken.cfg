SPECIFICATION FairSpec
CONSTANTS
    d1 = d1
    d2 = d2
    None = None
    Daemons <- MCDaemons
    Managed <- MCManaged
    LeaseTicks = 2
    MaxDrops = 1
    Crashes = TRUE
PROPERTIES ConflictEnds
CHECK_DEADLOCK FALSE
