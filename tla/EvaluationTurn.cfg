\* Two turns of a conversation, two candidates, a breaker that opens at two.
SPECIFICATION Spec
CONSTANTS
    Candidates = {1, 2}
    DimensionPlans <- MCDimensionPlans
    Scores = {0, 3}
    max_work_items = 4
    max_concurrency = 2
    failure_threshold = 2
    recovery_seconds = 1
    MaxTurns = 2
    MaxFailures = 2
INVARIANTS
    ReportGetsWholeTurn
    ScoresAreBacked
    RankingRespectsScores
CHECK_DEADLOCK FALSE
