CONSTANTS
    id1 = id1
    id2 = id2
    id3 = id3
    c1 = c1
    ep1 = ep1
    Absent = Absent
    NoEndpoint = NoEndpoint
    Ids <- OneId
    Callers <- OneCaller
    Protocols = {"mcp"}
    Endpoints = {ep1}
    Versions = {"1"}
    MaxAge = 2
    FailCap = 2
    Interval = 1
    Timeout = 1
    Concurrency = 1
    BatchFactor = 2
    Threshold = 2
    Window = 1
    Prompt = FALSE
    MaxFaults = 0
SPECIFICATION Spec
PROPERTIES
    DeprecatedUntilRestored
