SPECIFICATION FairSpec
CONSTANTS
    Alerts = {a1}
    Procs = {p1}
    NoId = NoId
    Answers <- MCTwoAnswers
    MaxConcurrentAnalyses = 1
    MaxCandidates = 1
    FailedAnalysisHold = 2
    FiringInterval = 1
    Grace = 2
    WriteAttempts = 2
    MaxTime = 1
    MaxFaults = 1
    MaxTouches = 1
    MaxCrashes = 1
INVARIANTS
    TypeOK
    OrphansAreLogged
    RunningWithinLimit
PROPERTIES
    OnlyOthersMovePastOpen
    KeepsPromise
    LeavesAnalyzing
CHECK_DEADLOCK FALSE
