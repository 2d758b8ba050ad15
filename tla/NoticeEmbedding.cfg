SPECIFICATION FairSpec
CONSTANTS
    t1 = t1  t2 = t2
    Task = {t1, t2}
    MaxTime = 4
    MaxVersion = 2
    MaxLosses = 1
INVARIANT AnswerIsSearchable
PROPERTIES CallsEnd ReusedRowsAreCurrent
CHECK_DEADLOCK FALSE
