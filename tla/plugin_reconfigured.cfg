SPECIFICATION Spec
CONSTANTS
    Hosts = {h1}
    NoHost = NoHost
    Params = {"name", "fdr"}
    Patches = {"mirror"}
    None = None
    MaxJobs = 3
    MaxEvents = 3
    MaxMessages = 2
CHECK_DEADLOCK FALSE
INVARIANTS
    CacheIsCurrent
    ClientsFollowConfig
