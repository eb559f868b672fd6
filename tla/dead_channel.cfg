SPECIFICATION FairSpec
CONSTANTS
    Names = {a, b}
    Display = Display
    Wheres = {w1}
    Bounds <- OneBound
    MaxCount = 2
    Inherited = {FALSE}
    MaxAlerts = 7
    MaxDashboards = 6
    MaxHooks = 3
    MaxMoves = 1
    MaxFaults = 1
    MaxCrashes = 0
PROPERTIES NotifiesTheWebhook
