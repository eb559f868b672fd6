SPECIFICATION Spec
CONSTANTS
    Tools <- MCTools
    ToolClass <- MCToolClass
    Scopes <- MCScopes
    Blocks <- MCBlocks
    Results <- MCResults
    MaxEntries = 3
    MaxRefs = 2
    MaxLedger = 4
    MaxContext = 3
    MaxPieces = 3
    MaxResults = 3
CHECK_DEADLOCK FALSE
INVARIANTS
    TypeOK
    AnswerOnce
    ConclusionKept
    DenialBounds
    NeverRaised
    GapsTold
