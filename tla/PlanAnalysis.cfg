SPECIFICATION FairSpec
CONSTANTS
    t1 = t1  t2 = t2
    Task = {t1, t2}
    SlowTasks = FALSE
    MaxCrashes = 2
INVARIANTS CompletedIsAnalysed OneTask
PROPERTIES OcrIsNotRepeated AnalysisEnds ImplementsLifecycle
CHECK_DEADLOCK FALSE
