SPECIFICATION TabletsSpec
CONSTANTS
    None = None
    AllSettings <- SomeSettings
    Inputs <- SomeInputs
    Mixes <- SomeMixes
    Apps = {owner}
    Owner = owner
    Groups = {"OFF", "lcl"}
    Numbers = {"1"}
    Slots = {"3"}
    Paths <- SomePaths
    MaxDeskChanges = 2
    Off = Off
    Unset = Unset
    Keys = {a, b}
    MaxConfigures = 2
    MeterTablets = {m1, m2}
    Reports = {r1, r2}
    MeterGroups = {g, h}
    NoClient = NoClient
    MaxEvents = 5
    OscApps = {a1, a2}
    Controls = {safe, free}
    Guarded = {safe}
    MaxSnapBacks = 2
    Blank = Blank
    MaxMoves = 3
INVARIANT FollowsWhatIsInserted
CHECK_DEADLOCK FALSE
