\* One trigger slot and one backlog slot over two notices, chunks of one.
CONSTANTS
    n1 = n1
    n2 = n2
    t1 = t1
    b1 = b1
    Notice <- TwoNotices
    Trigger <- OneTrigger
    Backlog <- OneBacklogSlot
    BatchLimit = 1
    ChunkSize = 1
SPECIFICATION FairSpec
INVARIANT OneJobPerNotice
PROPERTIES
    CompletedWasStored
    JobsEnd
    BacklogEnds
CHECK_DEADLOCK FALSE
