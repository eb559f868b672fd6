SPECIFICATION FairSpec
CONSTANTS
    Budgets <- MCBudgets
    Tries = 2
    BackoffLimit = 1
    LoginFields = {"username"}
    Defaults = {d1, d2}
    Callers = {rca1, rca2, cmp}
    Nobody = Nobody
    Comparer = cmp
    Lifetimes = {0, 3}
    Margin = 1
    NoExp = 2
    Enabled = TRUE
    MaxIncidents = 2
    MaxFenced = 2
INVARIANTS
    TypeOK
    KeysBelongTogether
    CompleteMeansProvisioned
    RaceIsAbsorbed
    OneFreshJWT
    VerdictIsTheModels
PROPERTIES
    JobEnds
    DeletedStaysDeleted
    SeedsArrive
    GetReturns
CHECK_DEADLOCK FALSE
