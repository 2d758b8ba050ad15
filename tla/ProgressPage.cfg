SPECIFICATION FairSpec
CONSTANTS
    l1 = l1  l2 = l2  NoLog = NoLog
    LogId = {l1, l2}
    MaxChain = 2  MaxFollow = 1  MaxPost = 2
INVARIANTS MatchedIsCompleted MatchingIsAttended
PROPERTIES AnalysisPollingEnds MatchingEnds
CHECK_DEADLOCK FALSE
