SPECIFICATION Spec
CONSTANTS
    Alerts = {a1}
    Procs = {p1}
    NoId = NoId
    Answers <- MCTwoAnswers
    MaxConcurrentAnalyses = 1
    MaxCandidates = 1
    FailedAnalysisHold = 2
    FiringInterval = 1
    Grace = 2
    WriteAttempts = 2
    MaxTime = 2
    MaxFaults = 0
    MaxTouches = 0
    MaxCrashes = 0
INVARIANTS
    OneInProgressPerAlert
    GraceRespected
    HoldRespected
CONSTRAINT TwoIncidents
CHECK_DEADLOCK FALSE
