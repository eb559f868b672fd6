SPECIFICATION Spec
CONSTANTS
    Alerts = {a1}
    Procs = {p1, p2}
    NoId = NoId
    Answers <- MCAnswers
    MaxConcurrentAnalyses = 1
    MaxCandidates = 1
    FailedAnalysisHold = 2
    FiringInterval = 1
    Grace = 2
    WriteAttempts = 2
    MaxTime = 0
    MaxFaults = 1
    MaxTouches = 0
    MaxCrashes = 2
INVARIANTS
    ErrorIffNoScripts
SYMMETRY Symmetry
CHECK_DEADLOCK FALSE
