CONSTANTS
    IP = {1, 2, 3}
    MaxLatency = 1
    Handler = {}
    Lists <- NoChoice
    InitLists <- Pin1
    Reasons = {"health", "retry"}
    PoolSize = 1
    MinHealthyCount = 1
    HealthFailures = 1
    RecoverySuccesses = 2
    DirectPool = TRUE
    LatencyFilter = TRUE
    EvictEnabled = TRUE
    MinSamples = 3
    MaxRatio = 30
    WindowSamples = 3
    DNSEnabled = TRUE
    Family = {1, 2, 3}
    SyncCount = 1
    LatencySync = TRUE
    Pausing = FALSE
SPECIFICATION Spec
INVARIANTS
    PoolBounded
