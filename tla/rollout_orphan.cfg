SPECIFICATION Spec
CONSTANTS
    Alerts = {a1}
    Procs = {p1, p2}
    NoId = NoId
    Answers <- MCTwoAnswers
    MaxConcurrentAnalyses = 1
    MaxCandidates = 1
    FailedAnalysisHold = 2
    FiringInterval = 1
    Grace = 2
    WriteAttempts = 2
    MaxTime = 0
    MaxFaults = 0
    MaxTouches = 0
    MaxCrashes = 1
INVARIANTS NoOrphans
CHECK_DEADLOCK FALSE
