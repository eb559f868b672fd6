SPECIFICATION Spec
CONSTANTS
    Tools <- MCTools
    ToolClass <- MCToolClass
    Scopes <- MCScopes
    Blocks <- MCBlocks
    Results <- MCResults
    MaxEntries = 3
    MaxRefs = 2
    MaxLedger = 4
    MaxContext = 3
    MaxPieces = 2
    MaxResults = 1
CHECK_DEADLOCK FALSE
INVARIANTS
    RefsNameTheirSource
