SPECIFICATION Spec
CONSTANTS
    Names = {a, b}
    Display = Display
    Wheres = {w1, w2}
    Bounds <- OneBound
    MaxCount = 2
    Inherited = {TRUE, FALSE}
    MaxAlerts = 7
    MaxDashboards = 6
    MaxHooks = 3
    MaxMoves = 1
    MaxFaults = 1
    MaxCrashes = 0
INVARIANTS
    TypeOK
    OwnTile
    OneAlertPerName
PROPERTIES
    NamedStays
    OwnWrites
    DeletionIsComplete
SYMMETRY Symmetry
