SPECIFICATION FairSpec
CONSTANTS
    None = None
    Item <- MCItem
    Collector = {"scheduler", "request"}
    PageSize = 2
    Buffer = 2
    MaxFaults = 1
PROPERTIES
    DeletedForItsTwin
    RecentIsCollected
    DuplicatesHeal
CHECK_DEADLOCK FALSE
