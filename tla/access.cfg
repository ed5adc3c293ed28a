SPECIFICATION AccessSpec
CONSTANTS
    None = None
    MaxClients = 1
    MaxGrants = 1
    MaxSessions = 1
    MaxChallenges = 1
    MaxCalls = 2
    MaxFresh = 6
    MaxTroubles = 2
    Absent = Absent
    Tools <- SomeTools
    GroupOf <- SomeGroups
    Writers = {"set"}
    ProfileGroups <- SomeProfiles
    ReadOnlyProfiles = {"safe"}
    Offers <- SomeOffers
    MaxServed = 1
    MaxInits = 2
    MaxPuts = 2
    MaxFailures = 1
INVARIANTS RestartKeepsPromises SpentOnce NothingOutlivesItsOwner SessionsFollowChoice ShownIsSaved
PROPERTY NobodyLeftBehind
CHECK_DEADLOCK FALSE
