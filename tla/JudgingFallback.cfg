SPECIFICATION Spec
CONSTANTS
    None = None
    Today <- MCToday
    YearLength = 10
    Notice = {1, 2, 3}
    Versions <- MCVersions
    Profile <- MCProfile
    Plan <- MCPlan
    LatestPlan <- MCLatestPlan
    JudgeTopK = 1
    CategoryTopK = 1
    RerankTopN = 2
    MaxResults = 2
    MaxRuns = 1
    MaxChanges = 1
INVARIANTS
    NoFallbackAtTop
CHECK_DEADLOCK FALSE
