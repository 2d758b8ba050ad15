SPECIFICATION Spec
CONSTANTS
    l1 = l1  l2 = l2  NoLog = NoLog
    LogId = {l1, l2}
    MaxChain = 2  MaxFollow = 1  MaxPost = 1
CHECK_DEADLOCK FALSE
PROPERTY MatchStageIsKept
