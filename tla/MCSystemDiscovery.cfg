CONSTANTS
    c1 = c1
    ep1 = ep1
    Absent = Absent
    NoEndpoint = NoEndpoint
    Ids = {1, 2, 3}
    Callers = {}
    Protocols = {"mcp"}
    Endpoints = {ep1}
    Versions = {"1", "2"}
    SourceOrder <- StaticAndK8s
    Cards <- TwoVersions
    MaxAge = 2
    FailCap = 1
    Interval = 1
    Timeout = 0
    Concurrency = 1
    BatchFactor = 1
    Threshold = 1
    Window = 1
    Prompt = TRUE
    MaxFaults = 0
SPECIFICATION ClocklessSpec
INVARIANT OneDiscoveredPerEndpoint
PROPERTY PushProtected
