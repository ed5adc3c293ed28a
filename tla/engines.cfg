SPECIFICATION EnginesSpec
CONSTANTS
    Zones <- SomeZones
    FxSlots = {1}
    Levels = {0, 1}
    Requests <- SomeRequests
    Rigs <- SomeRigs
    Meddling <- SomeMeddling
    MaxCorrections = 2
    MaxRuns = 2
    MaxUndos = 2
    MaxMeddled = 1
    MaxEqTrouble = 1
    Values = {0, 1, 2}
    Desks <- SomeDesks
    Presets <- SomePresets
    TopControl = 2
    MaxRounds = 4
    Streak = 2
    MaxForeign = 1
    MaxTrouble = 1
    Nobody = Nobody
    Ids = {1, 2, 3}
    Floor <- Bottom
    Top = 2
    Asked <- SomeAsked
    Steps = 2
    MaxMishaps = 1
    ListedBefore <- Batch
INVARIANTS RtaIsHandedBack ReportsAreTrue  CancelledStops RestsWhereTold UnconfirmedIsUnheard
PROPERTY UndoRestoresRun
CHECK_DEADLOCK FALSE
