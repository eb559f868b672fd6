SPECIFICATION FairSpec
CONSTANTS
    Names = {a}
    Display = Display
    Wheres = {w1, w2}
    Bounds <- LiveBounds
    MaxCount = 2
    Inherited = {FALSE}
    MaxAlerts = 7
    MaxDashboards = 6
    MaxHooks = 3
    MaxMoves = 2
    MaxFaults = 1
    MaxCrashes = 1
PROPERTIES
    Converges
