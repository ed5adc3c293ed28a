SPECIFICATION FairSpec
CONSTANTS
    Conns = {c1, s1}
    ControlConns = {c1}
    Topics = {ts}
    ControlTopics = {}
    Keys = {k1, k2}
    Creds = {u}
    Requests = {r1}
    MaxConnections = 1
    MaxSubscriptions = 1
    MaxInFlight = 1
    None = None
INVARIANT EventsFollowAcks
PROPERTIES ConnectionsEnd RequestsAreAnswered
CHECK_DEADLOCK FALSE
