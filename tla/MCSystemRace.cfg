CONSTANTS
    c1 = c1
    ep1 = ep1
    Absent = Absent
    NoEndpoint = NoEndpoint
    Ids = {1}
    Callers = {}
    Protocols = {"mcp"}
    Endpoints = {ep1}
    Versions = {"1"}
    SourceOrder <- Static
    Cards <- OneCard
    MaxAge = 2
    FailCap = 2
    Interval = 1
    Timeout = 0
    Concurrency = 1
    BatchFactor = 1
    Threshold = 2
    Window = 1
    Prompt = FALSE
    MaxFaults = 1
SPECIFICATION SystemSpec
INVARIANTS
    SystemTypeOK
    RowsTruthful
