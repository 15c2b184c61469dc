CONSTANTS
    id1 = id1
    id2 = id2
    id3 = id3
    c1 = c1
    ep1 = ep1
    Absent = Absent
    NoEndpoint = NoEndpoint
    Ids <- ThreeIds
    Callers <- NoCallers
    Protocols = {"mcp"}
    Endpoints = {ep1}
    Versions = {"1", "2"}
    MaxAge = 3
    FailCap = 2
    Interval = 1
    Timeout = 0
    Concurrency = 1
    BatchFactor = 1
    Threshold = 2
    Window = 1
    Prompt = TRUE
    MaxFaults = 0
SPECIFICATION FullSpec
PROPERTIES
    ProbedAgainAndAgain
    RecoveryIsNoticed
    OutageIsNoticed
