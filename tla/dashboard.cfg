SPECIFICATION MCSpec
CONSTANTS
    p1 = p1
    p2 = p2
    Panels = {p1, p2}
    Mounts <- SomeMounts
    Writes = {w}
    Reads = {r}
    MaxSockets = 4
    MaxMounts = 3
    MaxDrops = 1
    None = None
    Positions = {0, 1}
    MaxEdits = 3
    MaxHands = 2
    MaxVisits = 2
    MaxLapses = 2
    Fields = {mdl, thr}
    Structural = {mdl}
    Settings = {0, 1, 2}
    Default = 0
    Unset = Unset
    MaxSets = 3
    MaxReads = 1
    MaxFaults = 2
    MaxOwn = 2
    MaxOthers = 1
    MaxOutages = 1
    MaxLostGets = 1
INVARIANTS WritesRunOnce ReadByItsColumns CallsFindTheirRoutes
PROPERTIES SubscriptionsAreServed SettlesOnTheConsole PanelSettles 
CHECK_DEADLOCK FALSE
