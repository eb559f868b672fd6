SPECIFICATION FairSpec
CONSTANTS
    Names = {a, b}
    Display = Display
    Wheres = {w1, w2}
    Bounds <- OneBound
    MaxCount = 2
    Inherited = {TRUE}
    MaxAlerts = 7
    MaxDashboards = 6
    MaxHooks = 3
    MaxMoves = 1
    MaxFaults = 0
    MaxCrashes = 0
PROPERTIES
    Converges
