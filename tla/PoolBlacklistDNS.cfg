CONSTANTS
    IP = {1, 2}
    MaxLatency = 1
    Handler = {form}
    Lists <- BlockOrNot
    InitLists <- NoLists
    Reasons = {"health", "retry"}
    PoolSize = 2
    MinHealthyCount = 1
    HealthFailures = 1
    RecoverySuccesses = 1
    DirectPool = FALSE
    LatencyFilter = FALSE
    EvictEnabled = FALSE
    MinSamples = 1
    MaxRatio = 60
    WindowSamples = 1
    DNSEnabled = TRUE
    Family = {1, 2}
    SyncCount = 1
    LatencySync = FALSE
    Pausing = FALSE
SPECIFICATION Spec
INVARIANTS
    BlacklistReachesDNS
